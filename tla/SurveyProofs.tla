---------------------------- MODULE SurveyProofs ----------------------------
(***************************************************************************)
(* Proofs about Survey, for every host, command line, network and traffic.   *)
(* The subnet probe runs in it as it does alone, so what SubnetProbeProofs    *)
(* shows of its steps carries over.                                          *)
(***************************************************************************)
EXTENDS Survey, SubnetProbeProofs

------------------------------------------------------------------------------
(* The sniffer. *)

SnifferInv == SnifferTypeOK /\ SummaryExact

LEMMA SumOneMore ==
  ASSUME NEW S, IsFiniteSet(S), NEW x, x \notin S, NEW f \in [S -> Nat],
         NEW e \in [S \cup {x} -> Nat], \A y \in S : e[y] = f[y]
  PROVE  SumFunction(e) = SumFunction(f) + e[x]
<1>1. IsFiniteSet(S \cup {x}) /\ (S \cup {x}) \ {x} = S
  BY FS_AddElement
<1>2. SumFunctionOnSet(e, S \cup {x}) = e[x] + SumFunctionOnSet(e, S)
  <2>1. \A y \in S \cup {x} : e[y] \in Nat
    OBVIOUS
  <2> QED
    BY <1>1, <2>1, SumAdd
<1>3. SumFunctionOnSet(e, S) = SumFunctionOnSet(f, S)
  BY SumLocal
<1>4. SumFunctionOnSet(f, S) \in Nat
  BY SumNat
<1>5. SumFunction(e) = SumFunctionOnSet(e, S \cup {x})
      /\ SumFunction(f) = SumFunctionOnSet(f, S)
  BY DEF SumFunction
<1>6. e[x] \in Nat
  OBVIOUS
<1> QED
  BY <1>2, <1>3, <1>4, <1>5, <1>6

LEMMA InitSniffer == SnifferInit => SnifferInv
<1> SUFFICES ASSUME SnifferInit PROVE SnifferInv
  OBVIOUS
<1>1. /\ sniffed = << >> /\ summary = NoPackets
  BY DEF SnifferInit
<1>2. DOMAIN sniffed = {} /\ Len(sniffed) = 0 /\ sniffed \in Seq(Datagram)
  BY <1>1
<1>3. SnifferTypeOK
  <2>1. << >> \in Seq(Senders) /\ << >> \in Seq(Sizes)
    OBVIOUS
  <2> QED
    BY <1>1, <1>2, <2>1 DEF SnifferTypeOK, NoPackets
<1>4. SummaryExact
  <2>1. SumFunction([i \in DOMAIN sniffed |-> sniffed[i].size]) = 0
    BY <1>2, SumEmpty DEF SumFunction
  <2>2. Cardinality({i \in DOMAIN sniffed : sniffed[i].size > 0 /\ sniffed[i].magic}) = 0
    <3>1. {i \in DOMAIN sniffed : sniffed[i].size > 0 /\ sniffed[i].magic} = {}
      BY <1>2
    <3> QED
      BY <3>1, FS_EmptySet
  <2>3. /\ summary.total = 0 /\ summary.bytes = 0 /\ summary.mavlinkLike = 0
        /\ summary.senders = << >> /\ summary.sizes = << >>
    BY <1>1 DEF NoPackets
  <2>4. summary.sizes = [i \in 1..0 |-> sniffed[i].size]
    BY <2>3
  <2>5. DOMAIN summary.senders = {}
    BY <2>3
  <2>6. Range(summary.senders) = {sniffed[i].from : i \in DOMAIN sniffed}
    BY <1>2, <2>5 DEF Range
  <2>7. 0 <= SampleCap
    BY SnifferAssumption
  <2> QED
    BY <1>2, <2>1, <2>2, <2>3, <2>4, <2>5, <2>6, <2>7 DEF SummaryExact
<1> QED
  BY <1>3, <1>4 DEF SnifferInv

(* A datagram more. *)
LEMMA ReceiveSniffer ==
  ASSUME SnifferInv, NEW d \in Datagram, Receive(d)
  PROVE  SnifferInv'
<1> DEFINE n == Len(sniffed) + 1
           All == DOMAIN sniffed
           like == {i \in All : sniffed[i].size > 0 /\ sniffed[i].magic}
           sizes == [i \in All |-> sniffed[i].size]
           kept == IF Len(sniffed) <= SampleCap THEN Len(sniffed) ELSE SampleCap
<1>1. /\ summary \in [total : Nat, bytes : Nat, mavlinkLike : Nat, senders : Seq(Senders),
                      sizes : Seq(Sizes), failed : BOOLEAN]
      /\ sniffed \in Seq(Datagram)
  BY DEF SnifferInv, SnifferTypeOK
<1>2. d.from \in Senders /\ d.size \in Sizes /\ d.size \in Nat /\ d.magic \in BOOLEAN
  BY SnifferAssumption DEF Datagram
<1>3. /\ sniffed' \in Seq(Datagram)
      /\ n \in Nat /\ Len(sniffed') = n /\ sniffed'[n] = d
      /\ All = 1..Len(sniffed) /\ DOMAIN sniffed' = All \cup {n} /\ n \notin All
      /\ \A i \in All : sniffed'[i] = sniffed[i] /\ i \in Nat /\ i < n
      /\ Len(sniffed) \in Nat
  <2>1. sniffed' = Append(sniffed, d)
    BY DEF Receive
  <2> QED
    BY <1>1, <2>1, Appended
<1>4. /\ summary'.total = summary.total + 1
      /\ summary'.bytes = summary.bytes + d.size
      /\ summary'.mavlinkLike = IF d.size > 0 /\ d.magic THEN summary.mavlinkLike + 1
                                ELSE summary.mavlinkLike
      /\ summary'.sizes = IF Len(summary.sizes) < SampleCap
                          THEN Append(summary.sizes, d.size) ELSE summary.sizes
      /\ summary'.senders = IF Contains(summary.senders, d.from) THEN summary.senders
                            ELSE Append(summary.senders, d.from)
      /\ summary'.failed = summary.failed
      /\ summary' = [summary EXCEPT !.total = summary'.total, !.bytes = summary'.bytes,
                       !.sizes = summary'.sizes, !.senders = summary'.senders,
                       !.mavlinkLike = summary'.mavlinkLike]
  BY <1>1 DEF Receive, LooksLikeMAVLink
<1>5. /\ summary.total = Len(sniffed)
      /\ summary.bytes = SumFunction(sizes)
      /\ summary.mavlinkLike = Cardinality(like)
      /\ summary.sizes = [i \in 1..kept |-> sniffed[i].size]
      /\ Range(summary.senders) = {sniffed[i].from : i \in All}
      /\ \A k, m \in DOMAIN summary.senders : k < m =>
           \A i \in All : sniffed[i].from = summary.senders[m] =>
             \E j \in 1..i - 1 : sniffed[j].from = summary.senders[k]
  BY DEF SnifferInv, SummaryExact
<1>6. IsFiniteSet(All)
  BY <1>3, FS_Interval
<1>7. \A i \in All : sniffed[i] \in Datagram /\ sniffed[i].size \in Nat
  <2>1. \A i \in All : sniffed[i] \in Datagram
    BY <1>1, ElementOfSeq
  <2> QED
    BY <2>1, SnifferAssumption DEF Datagram
<1> HIDE DEF n
<1>8. summary'.total = Len(sniffed')
  BY <1>3, <1>4, <1>5 DEF n
<1>9. summary'.bytes = SumFunction([i \in DOMAIN sniffed' |-> sniffed'[i].size])
  <2> DEFINE e == [i \in DOMAIN sniffed' |-> sniffed'[i].size]
  <2>1. sizes \in [All -> Nat] /\ e \in [All \cup {n} -> Nat]
        /\ e[n] = d.size /\ \A i \in All : e[i] = sizes[i]
    BY <1>2, <1>3, <1>7
  <2> HIDE DEF e, sizes, All
  <2>2. SumFunction(e) = SumFunction(sizes) + e[n]
    <3>1. n \notin All
      BY <1>3
    <3> QED
      BY <1>6, <2>1, <3>1, SumOneMore
  <2> QED
    BY <1>4, <1>5, <2>1, <2>2 DEF e
<1>10. summary'.mavlinkLike = Cardinality({i \in DOMAIN sniffed' :
                                 sniffed'[i].size > 0 /\ sniffed'[i].magic})
  <2>1. {i \in DOMAIN sniffed' : sniffed'[i].size > 0 /\ sniffed'[i].magic}
          = IF d.size > 0 /\ d.magic THEN like \cup {n} ELSE like
    BY <1>3
  <2>2. IsFiniteSet(like) /\ n \notin like
    BY <1>3, <1>6, FS_Subset DEF like
  <2>3. Cardinality(like \cup {n}) = Cardinality(like) + 1
    BY <2>2, FS_AddElement
  <2> QED
    BY <1>4, <1>5, <2>1, <2>3
<1> DEFINE kept2 == IF n <= SampleCap THEN n ELSE SampleCap
<1>11. /\ summary'.sizes = [i \in 1..kept2 |-> sniffed'[i].size]
       /\ summary'.sizes \in Seq(Sizes)
  <2>1. SampleCap \in Nat /\ kept \in Nat /\ kept2 \in Nat /\ kept <= Len(sniffed)
    BY <1>3, SnifferAssumption
  <2>2. Len(summary.sizes) = kept /\ summary.sizes \in Seq(Sizes)
    <3>1. summary.sizes \in Seq(Sizes)
      BY <1>1
    <3>2. DOMAIN summary.sizes = 1..kept
      BY <1>5
    <3>3. DOMAIN summary.sizes = 1..Len(summary.sizes) /\ Len(summary.sizes) \in Nat
      BY <3>1, LenProperties
    <3>4. 1..kept = 1..Len(summary.sizes)
      BY <3>2, <3>3
    <3> HIDE DEF kept
    <3>5. kept = Len(summary.sizes)
      BY <2>1, <3>3, <3>4
    <3> QED
      BY <3>1, <3>5
  <2>12. Len(sniffed) \in Nat /\ n = Len(sniffed) + 1
    BY <1>3 DEF n
  <2> HIDE DEF kept, kept2
  <2>3. CASE kept < SampleCap
    <3>1. kept = Len(sniffed) /\ kept2 = n /\ n = kept + 1
      BY <2>1, <2>3, <2>12 DEF kept, kept2
    <3>2. summary'.sizes = Append(summary.sizes, d.size)
      BY <1>4, <2>2, <2>3
    <3> DEFINE r == summary'.sizes
               s == summary.sizes
               q == [i \in 1..kept2 |-> sniffed'[i].size]
    <3> HIDE DEF r, s, kept, kept2
    <3>3. /\ r \in Seq(Sizes) /\ Len(r) = Len(s) + 1 /\ r[Len(s) + 1] = d.size
          /\ DOMAIN s = 1..Len(s) /\ \A i \in DOMAIN s : r[i] = s[i]
      BY <1>2, <2>2, <3>2, Appended DEF r, s
    <3>4. r \in [1..n -> Sizes]
      <4>1. Len(r) = n
        BY <2>2, <3>1, <3>3 DEF s
      <4> QED
        BY <3>3, <4>1, LenProperties
    <3>5. \A i \in 1..n : r[i] = sniffed'[i].size
      <4>1. r[n] = sniffed'[n].size
        BY <1>3, <2>2, <3>1, <3>3 DEF s
      <4>2. ASSUME NEW i \in 1..n, i # n PROVE r[i] = sniffed'[i].size
        <5>1. i \in 1..kept /\ i \in 1..Len(sniffed)
          BY <2>1, <3>1, <4>2
        <5>2. r[i] = s[i]
          BY <2>2, <3>3, <5>1 DEF s
        <5>3. s[i] = sniffed[i].size
          BY <1>5, <5>1 DEF s
        <5> QED
          BY <1>3, <5>1, <5>2, <5>3
      <4> QED
        BY <4>1, <4>2
    <3>6. r = q
      BY <3>1, <3>4, <3>5
    <3> QED
      BY <3>3, <3>6 DEF r
  <2>4. CASE ~(kept < SampleCap)
    <3>1. kept = SampleCap /\ kept2 = SampleCap /\ SampleCap <= Len(sniffed)
      BY <2>1, <2>4, <2>12 DEF kept, kept2
    <3>2. summary'.sizes = summary.sizes
      BY <1>4, <2>2, <2>4
    <3>3. \A i \in 1..SampleCap : i \in 1..Len(sniffed)
      BY <1>3, <2>1, <3>1
    <3>4. \A i \in 1..SampleCap : sniffed'[i] = sniffed[i]
      BY <1>3, <3>3
    <3>5. [i \in 1..SampleCap |-> sniffed'[i].size] = [i \in 1..SampleCap |-> sniffed[i].size]
      BY <3>4
    <3> QED
      BY <1>5, <2>2, <3>1, <3>2, <3>5
  <2> QED
    BY <2>3, <2>4
<1> HIDE DEF kept, kept2, like, sizes
<1>12. /\ summary'.senders \in Seq(Senders)
       /\ Range(summary'.senders) = {sniffed'[i].from : i \in DOMAIN sniffed'}
       /\ \A k, m \in DOMAIN summary'.senders : k < m =>
            \A i \in DOMAIN sniffed' : sniffed'[i].from = summary'.senders[m] =>
              \E j \in 1..i - 1 : sniffed'[j].from = summary'.senders[k]
  <2> DEFINE s == summary.senders
             r == summary'.senders
             l == Len(s) + 1
             froms == {sniffed[i].from : i \in All}
  <2>1. s \in Seq(Senders)
    BY <1>1
  <2>2. {sniffed'[i].from : i \in DOMAIN sniffed'} = froms \cup {d.from}
    <3>1. \A i \in All : sniffed'[i].from = sniffed[i].from
      BY <1>3
    <3> QED
      BY <1>3, <3>1
  <2>3. DOMAIN s = 1..Len(s) /\ Len(s) \in Nat
    BY <2>1, LenProperties
  <2>4. Contains(s, d.from) <=> d.from \in Range(s)
    BY <2>3 DEF Contains, Range
  <2>5. Range(s) = froms
    BY <1>5
  <2>6. \A i \in All : \A j \in 1..i - 1 : j \in All
    BY <1>3
  <2>7. \A k, m \in DOMAIN s : k < m =>
          \A i \in All : sniffed[i].from = s[m] => \E j \in 1..i - 1 : sniffed[j].from = s[k]
    BY <1>5
  <2>8. ASSUME NEW k \in DOMAIN s PROVE \E j \in All : sniffed[j].from = s[k]
    <3>1. s[k] \in froms
      BY <2>5 DEF Range
    <3> QED
      BY <3>1
  <2>9. \A k, m \in DOMAIN s : k < m =>
          \A i \in DOMAIN sniffed' : sniffed'[i].from = s[m] =>
            \E j \in 1..i - 1 : sniffed'[j].from = s[k]
    <3> SUFFICES ASSUME NEW k \in DOMAIN s, NEW m \in DOMAIN s, k < m,
                        NEW i \in DOMAIN sniffed', sniffed'[i].from = s[m]
                 PROVE  \E j \in 1..i - 1 : sniffed'[j].from = s[k]
      OBVIOUS
    <3>1. CASE i \in All
      <4>1. PICK j \in 1..i - 1 : sniffed[j].from = s[k]
        BY <1>3, <2>7, <3>1
      <4> QED
        BY <1>3, <2>6, <3>1, <4>1
    <3>2. CASE i = n
      <4>1. PICK j \in All : sniffed[j].from = s[k]
        BY <2>8
      <4>2. j \in 1..n - 1
        BY <1>3, <4>1 DEF n
      <4> QED
        BY <1>3, <3>2, <4>1, <4>2
    <3> QED
      BY <1>3, <3>1, <3>2
  <2>10. CASE Contains(s, d.from)
    <3>1. r = s
      BY <1>4, <2>10
    <3> HIDE DEF r, s, froms
    <3>2. Range(r) = froms \cup {d.from}
      BY <2>4, <2>5, <2>10, <3>1
    <3> QED
      BY <2>1, <2>2, <2>9, <3>1, <3>2 DEF r
  <2>11. CASE ~Contains(s, d.from)
    <3>1. r = Append(s, d.from)
      BY <1>4, <2>11
    <3> HIDE DEF r, s
    <3>2. /\ r \in Seq(Senders) /\ r[l] = d.from
          /\ DOMAIN r = DOMAIN s \cup {l} /\ l \notin DOMAIN s
          /\ \A k \in DOMAIN s : r[k] = s[k] /\ k \in Nat /\ k < l
      BY <1>2, <2>1, <3>1, Appended
    <3>3. Range(r) = Range(s) \cup {d.from}
      BY <3>2 DEF Range
    <3>4. ASSUME NEW k \in DOMAIN r, NEW m \in DOMAIN r, k < m,
                 NEW i \in DOMAIN sniffed', sniffed'[i].from = r[m]
          PROVE  \E j \in 1..i - 1 : sniffed'[j].from = r[k]
      <4>1. k \in DOMAIN s
        BY <2>3, <3>2, <3>4
      <4>2. CASE m \in DOMAIN s
        BY <2>9, <3>2, <3>4, <4>1, <4>2
      <4>3. CASE m = l
        <5>1. i = n
          <6>1. d.from \notin froms
            BY <2>4, <2>5, <2>11
          <6>2. i \notin All
            BY <1>3, <3>2, <3>4, <4>3, <6>1
          <6> QED
            BY <1>3, <6>2
        <5>2. PICK j \in All : sniffed[j].from = s[k]
          BY <2>8, <4>1
        <5>3. j \in 1..n - 1
          BY <1>3, <5>2 DEF n
        <5> QED
          BY <1>3, <3>2, <4>1, <5>1, <5>2, <5>3
      <4> QED
        BY <3>2, <4>2, <4>3
    <3> QED
      BY <2>2, <2>5, <3>2, <3>3, <3>4 DEF r
  <2> QED
    BY <2>10, <2>11
<1>13. summary' \in [total : Nat, bytes : Nat, mavlinkLike : Nat, senders : Seq(Senders),
                     sizes : Seq(Sizes), failed : BOOLEAN]
  <2>1. summary'.total \in Nat /\ summary'.bytes \in Nat /\ summary'.mavlinkLike \in Nat
    <3>1. summary.total \in Nat /\ summary.bytes \in Nat /\ summary.mavlinkLike \in Nat
      BY <1>1
    <3> QED
      BY <1>2, <1>4, <3>1
  <2>2. summary'.sizes \in Seq(Sizes) /\ summary'.senders \in Seq(Senders)
    BY <1>11, <1>12
  <2> QED
    BY <1>1, <1>4, <2>1, <2>2
<1>14. SnifferTypeOK'
  BY <1>3, <1>13 DEF SnifferTypeOK
<1>15. SummaryExact'
  <2>1. summary'.sizes = [i \in 1..IF Len(sniffed') <= SampleCap THEN Len(sniffed')
                                   ELSE SampleCap |-> sniffed'[i].size]
    BY <1>3, <1>11 DEF kept2
  <2> QED
    BY <1>8, <1>9, <1>10, <1>12, <2>1 DEF SummaryExact
<1> QED
  BY <1>14, <1>15 DEF SnifferInv

(* The bind or the read fails: nothing else is in the summary. *)
LEMMA FailSniffer ==
  ASSUME SnifferInv, NEW f \in BOOLEAN, summary' = [summary EXCEPT !.failed = f],
         sniffed' = sniffed
  PROVE  SnifferInv'
<1>1. SnifferTypeOK /\ SummaryExact
  BY DEF SnifferInv
<1>2. SnifferTypeOK'
  BY <1>1 DEF SnifferTypeOK
<1>3. /\ summary'.total = summary.total /\ summary'.bytes = summary.bytes
      /\ summary'.mavlinkLike = summary.mavlinkLike /\ summary'.sizes = summary.sizes
      /\ summary'.senders = summary.senders
  BY <1>1 DEF SnifferTypeOK
<1>4. SummaryExact'
  BY <1>1, <1>3 DEF SummaryExact
<1> QED
  BY <1>2, <1>4 DEF SnifferInv

LEMMA IdleSniffer ==
  ASSUME SnifferInv, UNCHANGED snifferVars
  PROVE  SnifferInv'
BY DEF SnifferInv, SnifferTypeOK, SummaryExact, snifferVars

------------------------------------------------------------------------------
(* The port check. *)

(* The status is kept as it was found. *)
PortChecked ==
  stage # "check" /\ job.udp => portStatus = CheckPort(Listed, Sockets)

(* A socket with our number is always found, so one that keeps the port from    *)
(* being bound is, if the table lists it.                                      *)
LEMMA OwnPortFound ==
  ASSUME NEW s, s.local.port = OurPort
  PROVE  ContainsPort(s)
<1>1. Len(OurPort) <= Len(OurPort)
  BY PortAssumption, LenProperties
<1> QED
  BY <1>1 DEF ContainsPort, IsPrefix

LEMMA CheckedVerdict == PortChecked => PortVerdict
<1> SUFFICES ASSUME PortChecked, stage # "check", job.udp
             PROVE  LET onPort == {s \in Range(Listed) : s.local.port = OurPort}
                    IN  /\ portStatus.available => onPort = {} /\ CanBind(Sockets)
                        /\ onPort \subseteq Range(portStatus.bound)
                        /\ ~portStatus.available =>
                             DOMAIN portStatus.bound # {} \/ ~portStatus.bindOk
  BY DEF PortVerdict
<1> DEFINE onPort == {s \in Range(Listed) : s.local.port = OurPort}
           bound == BoundSockets(Listed)
<1>1. /\ portStatus.bound = bound
      /\ portStatus.bindOk = CanBind(Sockets)
      /\ portStatus.available = (DOMAIN bound = {} /\ CanBind(Sockets))
  BY DEF PortChecked, CheckPort
<1>2. onPort \subseteq Range(bound)
  <2> SUFFICES ASSUME NEW i \in DOMAIN Listed, Listed[i].local.port = OurPort
               PROVE  Listed[i] \in Range(bound)
    BY DEF Range
  <2>1. ContainsPort(Listed[i])
    BY OwnPortFound
  <2>2. i \in DOMAIN bound /\ bound[i] = Listed[i]
    BY <2>1 DEF BoundSockets, Restrict
  <2> QED
    BY <2>2 DEF Range
<1>3. DOMAIN bound = {} => onPort = {}
  BY <1>2 DEF Range
<1> HIDE DEF bound
<1> QED
  BY <1>1, <1>2, <1>3

------------------------------------------------------------------------------
(* The report. *)

Fields == {"interfaces", "udp_sockets", "route", "raw_listen", "raw_senders",
           "bound_sockets", "bind_error", "raw_error", "subnet_probe"}

(* A result as BuildResult makes it. *)
Whole(c) ==
  /\ c = [status |-> c.status, notes |-> c.notes, texts |-> c.texts]
  /\ c.texts = [f \in Fields |-> c.texts[f]]

Redacts == job.export # "none" /\ job.redact

(* What main's result, the file and the output are at each stage. *)
Reported ==
  /\ IF stage \in {"export", "print", "ended"}
     THEN /\ collected = <<collected[1]>> /\ Whole(collected[1])
          /\ collected[1].status = "NO_TRAFFIC" => summary.total = 0
     ELSE collected = << >>
  /\ report = IF stage \in {"print", "ended"} /\ Redacts
              THEN <<redactResult(collected[1])>> ELSE collected
  /\ file = IF stage \in {"print", "ended"} /\ job.export = "writable"
            THEN report ELSE << >>
  /\ printed = IF stage = "ended" /\ job.json THEN report ELSE << >>

(* Redaction changes the texts it covers and nothing else. *)
LEMMA Redaction ==
  ASSUME NEW c, Whole(c), NEW r, r = redactResult(c)
  PROVE  /\ r.status = c.status
         /\ r = [status |-> c.status, notes |-> c.notes, texts |-> r.texts]
         /\ \A f \in Covered : r.texts[f] = [i \in DOMAIN c.texts[f] |-> maskIP(c.texts[f][i])]
         /\ \A f \in Fields \ Covered : r.texts[f] = c.texts[f]
<1> DEFINE t == [f \in Fields |-> IF f \in Covered
                   THEN [i \in DOMAIN c.texts[f] |-> maskIP(c.texts[f][i])]
                   ELSE c.texts[f]]
<1>1. c = [status |-> c.status, notes |-> c.notes, texts |-> c.texts]
      /\ DOMAIN c.texts = Fields
  BY DEF Whole
<1>2. r = [c EXCEPT !.texts = t]
  BY <1>1 DEF redactResult
<1> HIDE DEF t
<1>3. r = [status |-> c.status, notes |-> c.notes, texts |-> t]
  BY <1>1, <1>2
<1>4. r.status = c.status /\ r.texts = t
  BY <1>3
<1>5. Covered \subseteq Fields
  BY DEF Covered, Fields
<1> QED
  BY <1>3, <1>4, <1>5 DEF t

(* A masked IPv4 address is loopback, or an address no longer. *)
LEMMA Masked ==
  ASSUME NEW a \in Address, a[1] # LoopbackNet
  PROVE  maskIP(a) \notin Address
<1>1. Byte \notin Octet
  BY ProbeAssumption DEF Octet
<1> QED
  BY <1>1 DEF maskIP, Hidden, Address

LEMMA ReportedRedacted == Reported => RedactedReport
<1> SUFFICES ASSUME Reported, file # << >>, job.redact
             PROVE  LET before == collected[1].texts
                        after  == file[1].texts
                    IN  /\ [file[1] EXCEPT !.texts = before] = collected[1]
                        /\ \A f \in {"interfaces", "udp_sockets", "route", "raw_listen",
                                     "raw_senders"} :
                             \A i \in DOMAIN before[f] :
                               before[f][i] \in Address /\ before[f][i][1] # LoopbackNet =>
                                 after[f][i] \notin Address
  BY DEF RedactedReport
<1> DEFINE c == collected[1]
           r == redactResult(c)
<1>1. Whole(c) /\ file = <<r>>
  <2>1. stage \in {"print", "ended"} /\ job.export = "writable" /\ file = report
    BY DEF Reported
  <2> QED
    BY <2>1 DEF Reported, Redacts
<1>2. file[1] = r
  BY <1>1
<1>3. /\ r = [status |-> c.status, notes |-> c.notes, texts |-> r.texts]
      /\ \A f \in Covered : r.texts[f] = [i \in DOMAIN c.texts[f] |-> maskIP(c.texts[f][i])]
  BY <1>1, Redaction
<1>4. c = [status |-> c.status, notes |-> c.notes, texts |-> c.texts]
  BY <1>1 DEF Whole
<1> HIDE DEF r, c
<1>5. [r EXCEPT !.texts = c.texts] = c
  BY <1>3, <1>4
<1>6. ASSUME NEW f \in Covered, NEW i \in DOMAIN c.texts[f],
             c.texts[f][i] \in Address, c.texts[f][i][1] # LoopbackNet
      PROVE  r.texts[f][i] \notin Address
  <2>1. r.texts[f] = [j \in DOMAIN c.texts[f] |-> maskIP(c.texts[f][j])]
    BY <1>3, <1>6
  <2>2. r.texts[f][i] = maskIP(c.texts[f][i])
    BY <1>6, <2>1
  <2> QED
    BY <1>6, <2>2, Masked
<1> QED
  BY <1>2, <1>5, <1>6 DEF Covered, c

LEMMA ReportedTraffic ==
  ASSUME Reported, SnifferInv
  PROVE  TrafficReported
<1>1. SummaryExact
  BY DEF SnifferInv
<1>2. ASSUME report # << >>, sniffed # << >> PROVE report[1].status # "NO_TRAFFIC"
  <2>1. /\ stage \in {"export", "print", "ended"}
        /\ collected = <<collected[1]>> /\ Whole(collected[1])
        /\ collected[1].status = "NO_TRAFFIC" => summary.total = 0
    BY <1>2 DEF Reported
  <2>2. report[1].status = collected[1].status
    <3>1. CASE report = collected
      BY <3>1
    <3>2. CASE report = <<redactResult(collected[1])>>
      <4>1. report[1] = redactResult(collected[1])
        BY <3>2
      <4> QED
        BY <2>1, <4>1, Redaction
    <3> QED
      BY <3>1, <3>2 DEF Reported
  <2>3. summary.total # 0
    <3>1. summary.total = Len(sniffed) /\ sniffed \in Seq(Datagram)
      BY <1>1 DEF SummaryExact, SnifferInv, SnifferTypeOK
    <3> QED
      BY <1>2, <3>1, EmptySeq
  <2> QED
    BY <2>1, <2>2, <2>3
<1> QED
  BY <1>1, <1>2 DEF TrafficReported

------------------------------------------------------------------------------
(* The invariant. *)

SurveyInv ==
  /\ ProbeInv /\ SnifferInv
  /\ job \in Jobs
  /\ stage \in {"check", "probe", "listen", "sniff", "monitor", "build", "export",
                "print", "ended"}
  /\ heard \in Outcomes
  /\ PortChecked /\ Reported

LEMMA JobTyped ==
  ASSUME job \in Jobs
  PROVE  /\ job.table \in Seq(Socket)
         /\ Listed \in Seq(Socket)
<1>1. job.table \in Seq(Socket)
  BY SurveyAssumption DEF Job
<1>2. << >> \in Seq(Socket)
  OBVIOUS
<1> QED
  BY <1>1, <1>2 DEF Listed

LEMMA InitSurvey == SurveyInit => SurveyInv
<1> SUFFICES ASSUME SurveyInit PROVE SurveyInv
  OBVIOUS
<1>1. ProbeInv /\ SnifferInv
  BY InitProbe, InitSniffer DEF SurveyInit
<1>2. /\ job \in Jobs /\ stage = "check" /\ heard = Silence
      /\ report = << >> /\ collected = << >> /\ file = << >> /\ printed = << >>
  BY DEF SurveyInit
<1>3. heard \in Outcomes
  BY <1>2 DEF Silence, Outcomes
<1>4. PortChecked /\ Reported
  BY <1>2 DEF PortChecked, Reported
<1> QED
  BY <1>1, <1>2, <1>3, <1>4 DEF SurveyInv

(* Before the report is built. *)
LEMMA EarlyReported ==
  ASSUME Reported, stage \notin {"export", "print", "ended"},
         stage' \notin {"export", "print", "ended"},
         UNCHANGED <<report, collected, file, printed>>
  PROVE  Reported'
BY DEF Reported

LEMMA KeptPortChecked ==
  ASSUME PortChecked, stage # "check", UNCHANGED <<job, portStatus>>
  PROVE  PortChecked'
BY DEF PortChecked, CheckPort, Listed, Sockets

LEMMA BuildReported ==
  ASSUME SurveyInv, BuildResult
  PROVE  Reported'
<1> DEFINE c == [status |-> Verdict, notes |-> Notes, texts |-> Texts]
<1>1. /\ stage' = "export" /\ report' = <<c>> /\ collected' = <<c>>
      /\ UNCHANGED <<job, file, printed, summary>> /\ stage = "build"
  BY DEF BuildResult, snifferVars
<1>2. c.status = Verdict /\ c.texts = Texts /\ c.notes = Notes
  OBVIOUS
<1>3. Whole(c)
  <2>1. Texts = [f \in Fields |-> Texts[f]]
    BY DEF Texts, Fields
  <2> QED
    BY <2>1 DEF Whole
<1>4. c.status = "NO_TRAFFIC" => summary.total = 0
  <2>1. summary.total \in Nat
    BY DEF SurveyInv, SnifferInv, SnifferTypeOK
  <2> QED
    BY <1>2, <2>1 DEF Verdict
<1>5. file = << >> /\ printed = << >>
  BY <1>1 DEF SurveyInv, Reported
<1> HIDE DEF c
<1>6. collected'[1] = c
  BY <1>1
<1>7. Whole(collected[1])'
  BY <1>3, <1>6 DEF Whole
<1> QED
  BY <1>1, <1>4, <1>5, <1>6, <1>7 DEF Reported

LEMMA ExportReported ==
  ASSUME SurveyInv, ExportSupportReport
  PROVE  Reported'
<1>1. /\ stage = "export" /\ stage' = "print"
      /\ report' = IF Redacts THEN <<redactResult(report[1])>> ELSE report
      /\ file' = IF job.export = "writable" THEN report' ELSE << >>
      /\ UNCHANGED <<job, collected, printed, summary>>
  BY DEF ExportSupportReport, Redacts, snifferVars
<1>2. /\ collected = <<collected[1]>> /\ Whole(collected[1])
      /\ collected[1].status = "NO_TRAFFIC" => summary.total = 0
      /\ report = collected /\ printed = << >>
  BY <1>1 DEF SurveyInv, Reported
<1>3. Whole(collected[1])' /\ (Redacts' <=> Redacts)
      /\ redactResult(collected[1])' = redactResult(collected[1])
  BY <1>1, <1>2 DEF Whole, Redacts, redactResult, maskIP
<1> QED
  BY <1>1, <1>2, <1>3 DEF Reported

LEMMA PrintReported ==
  ASSUME SurveyInv, PrintJSON
  PROVE  Reported'
<1>1. /\ stage = "print" /\ stage' = "ended"
      /\ printed' = IF job.json THEN report ELSE << >>
      /\ UNCHANGED <<job, report, collected, file, summary>>
  BY DEF PrintJSON, snifferVars
<1>2. Reported
  BY DEF SurveyInv
<1>3. Whole(collected[1]) => Whole(collected[1])'
  BY <1>1 DEF Whole
<1>4. (Redacts' <=> Redacts) /\ redactResult(collected[1])' = redactResult(collected[1])
  BY <1>1 DEF Redacts, redactResult, maskIP
<1> QED
  BY <1>1, <1>2, <1>3, <1>4 DEF Reported

LEMMA NextSurvey == SurveyInv /\ [SurveyNext]_allVars => SurveyInv'
<1> SUFFICES ASSUME SurveyInv, [SurveyNext]_allVars PROVE SurveyInv'
  OBVIOUS
<1>1. /\ ProbeInv /\ SnifferInv /\ job \in Jobs /\ heard \in Outcomes
      /\ PortChecked /\ Reported
      /\ stage \in {"check", "probe", "listen", "sniff", "monitor", "build", "export",
                    "print", "ended"}
  BY DEF SurveyInv
<1> DEFINE Stages == {"check", "probe", "listen", "sniff", "monitor", "build", "export",
                      "print", "ended"}
<1>2. CASE CheckLocalPort
  <2>1. UNCHANGED <<job, heard, report, collected, file, printed, probeVars, snifferVars>>
        /\ stage = "check" /\ stage' \in {"probe", "listen"}
        /\ (job.udp => portStatus' = CheckPort(Listed, Sockets))
    BY <1>2 DEF CheckLocalPort
  <2>2. ProbeInv' /\ SnifferInv'
    BY <1>1, <2>1, NextProbe, IdleSniffer
  <2>3. PortChecked'
    BY <2>1 DEF PortChecked, CheckPort, Listed, Sockets
  <2>4. Reported'
    BY <1>1, <2>1, EarlyReported
  <2> QED
    BY <1>1, <2>1, <2>2, <2>3, <2>4 DEF SurveyInv
<1>3. CASE ProbeStep
  <2>1. ProbeNext /\ UNCHANGED <<surveyVars, snifferVars>> /\ stage = "probe"
    BY <1>3 DEF ProbeStep
  <2>2. ProbeInv' /\ SnifferInv'
    BY <1>1, <2>1, NextProbe, IdleSniffer
  <2>3. PortChecked'
    BY <1>1, <2>1, KeptPortChecked DEF surveyVars
  <2>4. Reported'
    BY <1>1, <2>1, EarlyReported DEF surveyVars
  <2> QED
    BY <1>1, <2>1, <2>2, <2>3, <2>4 DEF SurveyInv, surveyVars
<1>4. CASE ProbeSubnetReturns \/ Listen \/ ListenEnds \/ RunMavlinkTest
  <2>1. /\ UNCHANGED <<job, portStatus, report, collected, file, printed, probeVars>>
        /\ stage \in {"probe", "listen", "sniff", "monitor"}
        /\ stage' \in {"listen", "sniff", "monitor", "build"}
        /\ heard' \in Outcomes
    BY <1>1, <1>4 DEF ProbeSubnetReturns, Listen, ListenEnds, RunMavlinkTest, AfterListen
  <2>2. SnifferInv'
    <3>1. CASE UNCHANGED snifferVars
      BY <1>1, <3>1, IdleSniffer
    <3>2. CASE ListenFails
      BY <1>1, <3>2, FailSniffer DEF ListenFails
    <3>3. CASE ListenEnds
      BY <1>1, <3>3, FailSniffer DEF ListenEnds
    <3> QED
      BY <1>4, <3>1, <3>2, <3>3 DEF ProbeSubnetReturns, Listen, RunMavlinkTest
  <2>3. ProbeInv'
    BY <1>1, <2>1, NextProbe
  <2>4. PortChecked'
    BY <1>1, <2>1, KeptPortChecked
  <2>5. Reported'
    BY <1>1, <2>1, EarlyReported
  <2> QED
    BY <1>1, <2>1, <2>2, <2>3, <2>4, <2>5 DEF SurveyInv
<1>5. CASE Sniff
  <2>1. PICK d \in Datagram : Receive(d)
    BY <1>5 DEF Sniff
  <2>2. UNCHANGED <<surveyVars, probeVars>> /\ stage = "sniff"
    BY <1>5 DEF Sniff
  <2>3. SnifferInv'
    BY <1>1, <2>1, ReceiveSniffer
  <2>4. ProbeInv'
    BY <1>1, <2>2, NextProbe
  <2>5. PortChecked'
    BY <1>1, <2>2, KeptPortChecked DEF surveyVars
  <2>6. Reported'
    BY <1>1, <2>2, EarlyReported DEF surveyVars
  <2> QED
    BY <1>1, <2>2, <2>3, <2>4, <2>5, <2>6 DEF SurveyInv, surveyVars
<1>6. CASE BuildResult \/ ExportSupportReport \/ PrintJSON
  <2>1. /\ UNCHANGED <<job, portStatus, heard, probeVars, snifferVars>>
        /\ stage \in {"build", "export", "print"} /\ stage' \in {"export", "print", "ended"}
    BY <1>6 DEF BuildResult, ExportSupportReport, PrintJSON
  <2>2. ProbeInv' /\ SnifferInv'
    BY <1>1, <2>1, NextProbe, IdleSniffer
  <2>3. PortChecked'
    BY <1>1, <2>1, KeptPortChecked
  <2>4. Reported'
    BY <1>6, BuildReported, ExportReported, PrintReported
  <2> QED
    BY <1>1, <2>1, <2>2, <2>3, <2>4 DEF SurveyInv
<1>7. CASE UNCHANGED allVars
  <2>1. UNCHANGED <<surveyVars, probeVars, snifferVars>>
    BY <1>7 DEF allVars
  <2>2. ProbeInv' /\ SnifferInv'
    BY <1>1, <2>1, NextProbe, IdleSniffer
  <2>3. PortChecked'
    BY <1>1, <2>1 DEF PortChecked, CheckPort, Listed, Sockets, surveyVars
  <2>4. Reported'
    <3>1. /\ UNCHANGED <<job, stage, report, collected, file, printed, summary>>
          /\ (Redacts' <=> Redacts) /\ redactResult(collected[1])' = redactResult(collected[1])
          /\ (Whole(collected[1])' <=> Whole(collected[1]))
      BY <2>1 DEF surveyVars, snifferVars, Redacts, redactResult, maskIP, Whole
    <3> QED
      BY <1>1, <3>1 DEF Reported
  <2> QED
    BY <1>1, <2>1, <2>2, <2>3, <2>4 DEF SurveyInv, surveyVars
<1> QED
  BY <1>2, <1>3, <1>4, <1>5, <1>6, <1>7 DEF SurveyNext, Main

THEOREM SurveyInvariant == SurveySpec => []SurveyInv
BY InitSurvey, NextSurvey, PTL DEF SurveySpec

------------------------------------------------------------------------------
(* Every variable of a run keeps its type, the probe's and the sniffer's too: no   *)
(* permit is given back twice and nothing is reported more than once.            *)
THEOREM SurveyTypeCorrect == SurveySpec => []SurveyTypeOK
<1>1. SurveyInv => SurveyTypeOK
  <2> SUFFICES ASSUME SurveyInv PROVE SurveyTypeOK
    OBVIOUS
  <2>1. Reported
    BY DEF SurveyInv
  <2>2. Len(<< >>) = 0 /\ \A x : Len(<<x>>) = 1
    OBVIOUS
  <2>3. Len(collected) <= 1
    BY <2>1, <2>2 DEF Reported
  <2>4. Len(report) <= 1
    BY <2>1, <2>2, <2>3 DEF Reported
  <2>5. Len(file) <= 1 /\ Len(printed) <= 1
    BY <2>1, <2>2, <2>4 DEF Reported
  <2> QED
    BY <2>3, <2>4, <2>5 DEF SurveyInv, SurveyTypeOK, ProbeInv, IInv, SnifferInv
<1> QED
  BY <1>1, SurveyInvariant, PTL

(* The subnet probe within a run of the program keeps what it keeps alone: it     *)
(* probes the hosts of the network in order, and its result has each that         *)
(* answered and none that could not be dialled.                                  *)
THEOREM SurveyProbes == SurveySpec => [](HostsExact /\ ProbeComplete)
<1>1. SurveyInv => HostsExact /\ ProbeComplete
  BY ListingHosts, InvComplete DEF SurveyInv, ProbeInv
<1> QED
  BY <1>1, SurveyInvariant, PTL

(* For every table of sockets, listed or not: the port is called available only    *)
(* if no listed socket has it for its local port and it could be bound; every      *)
(* listed socket that has it is shown.                                            *)
THEOREM PortVerdictRight == SurveySpec => []PortVerdict
<1>1. SurveyInv => PortVerdict
  BY CheckedVerdict DEF SurveyInv
<1> QED
  BY <1>1, SurveyInvariant, PTL

(* For any datagrams in any number: the summary counts them, their bytes, those    *)
(* like MAVLink and their senders exactly, and no report denies them.             *)
THEOREM TrafficIsReported == SurveySpec => []TrafficReported
<1>1. SurveyInv => TrafficReported
  BY ReportedTraffic DEF SurveyInv
<1> QED
  BY <1>1, SurveyInvariant, PTL

(* For any addresses: a redacted file keeps the verdict and the notes, and shows   *)
(* no IPv4 address but loopback in full in what redactResult covers              *)
(* (support_report.go:31-80).                                                    *)
THEOREM RedactionCovers == SurveySpec => []RedactedReport
<1>1. SurveyInv => RedactedReport
  BY ReportedRedacted DEF SurveyInv
<1> QED
  BY <1>1, SurveyInvariant, PTL
==============================================================================
