-------------------------- MODULE SubnetProbeProofs --------------------------
(***************************************************************************)
(* Proofs about SubnetProbe, for every network, number of hosts and number   *)
(* of permits.                                                              *)
(***************************************************************************)
EXTENDS SubnetProbe, CountingTheorems

Places == {"none", "dialing", "locking", "appending", "releasing", "finishing", "done"}

(* The goroutines that hold a permit, and those wg.Wait waits for. *)
Active  == {w \in Workers : worker[w] \notin {"none", "finishing", "done"}}
Running == {w \in Workers : worker[w] \notin {"none", "done"}}

(* The goroutines whose host is in found. *)
Collected == {w \in sent : worker[w] \notin {"locking", "appending"}}

(* The counters are the numbers of goroutines they stand for. *)
Pool ==
  /\ \A w \in Workers : worker[w] = "none" <=> w > spawned
  /\ probe \notin {"spawn", "returned"} => spawned = 0
  /\ probe = "returned" => spawned = Len(ips) /\ wg = 0
  /\ sem = Cardinality(Active) /\ sem <= Permits
  /\ wg = Cardinality(Running)

(* One goroutine at a time appends, and what it read is still what there is. *)
Lock ==
  /\ foundLock <=> \E w \in Workers : worker[w] = "appending"
  /\ \A v, w \in Workers : worker[v] = "appending" /\ worker[w] = "appending" => v = w
  /\ foundLock => seen = found

(* The result has the hosts of the goroutines that are past their append. *)
Collecting ==
  /\ \A w \in Workers : worker[w] \in {"locking", "appending"} => w \in sent
  /\ \A w \in Workers : worker[w] \in {"none", "dialing"} => w \notin sent
  /\ Len(found) = Cardinality(Collected)
  /\ Range(found) = {ips[w] : w \in Collected}

(* There is room for another host while hosts are listed. *)
Room == probe \in {"parse", "generate"} => Len(ips) < MaxHosts

IInv == ProbeTypeOK /\ Room /\ Pool /\ Lock /\ Collecting

------------------------------------------------------------------------------
(* Sets of goroutines are finite. *)
LEMMA FiniteWorkers ==
  /\ IsFiniteSet(Workers)
  /\ \A S \in SUBSET Workers : IsFiniteSet(S) /\ Cardinality(S) \in Nat
<1>1. IsFiniteSet(Workers)
  BY ProbeAssumption, FS_Interval DEF Workers
<1> QED
  BY <1>1, FS_Subset, FS_CardinalityType

(* An octet with its low bits cleared is an octet. *)
LEMMA MaskedOctet ==
  ASSUME NEW x \in Octet, NEW m \in 1..Byte
  PROVE  x - (x % m) \in Octet
<1>1. x \in Nat /\ m \in Nat \ {0} /\ x <= Byte - 1
  BY ProbeAssumption DEF Octet
<1>2. x % m \in Nat /\ x % m <= x
  BY <1>1
<1> QED
  BY <1>1, <1>2, ProbeAssumption DEF Octet

LEMMA MaskOK ==
  ASSUME cidr \in Networks
  PROVE  cidr.ip \in Address /\ Mask(cidr.ip) \in Address
<1>1. cidr.ip \in Address /\ cidr.mask \in (1..Byte) \X (1..Byte)
  BY ProbeAssumption DEF CIDR
<1>2. /\ cidr.ip[1] \in Octet /\ cidr.ip[2] \in Octet
      /\ cidr.mask[1] \in 1..Byte /\ cidr.mask[2] \in 1..Byte
  BY <1>1 DEF Address
<1> QED
  BY <1>1, <1>2, MaskedOctet DEF Mask, Address

LEMMA IncOK ==
  ASSUME NEW a \in Address
  PROVE  Inc(a) \in Address
<1>1. a[1] \in Octet /\ a[2] \in Octet
  BY DEF Address
<1>2. (a[1] + 1) % Byte \in Octet
  BY <1>1, ProbeAssumption DEF Octet
<1>3. a[2] < Byte - 1 => a[2] + 1 \in Octet
  BY <1>1, ProbeAssumption DEF Octet
<1>4. 0 \in Octet
  BY ProbeAssumption DEF Octet
<1> QED
  BY <1>1, <1>2, <1>3, <1>4 DEF Inc, Address

(* What one step of a goroutine does to the sets. *)
LEMMA Moves ==
  ASSUME ProbeTypeOK, NEW w \in Workers, NEW p \in Places, Goes(w, p)
  PROVE  /\ worker' \in [Workers -> Places]
         /\ worker'[w] = p
         /\ \A v \in Workers \ {w} : worker'[v] = worker[v]
         /\ Active' = IF p \in {"none", "finishing", "done"}
                      THEN Active \ {w} ELSE Active \cup {w}
         /\ Running' = IF p \in {"none", "done"} THEN Running \ {w}
                                                ELSE Running \cup {w}
<1>1. worker \in [Workers -> Places]
  BY DEF ProbeTypeOK, Places
<1>2. /\ worker' \in [Workers -> Places]
      /\ worker'[w] = p
      /\ \A v \in Workers \ {w} : worker'[v] = worker[v]
  BY <1>1 DEF Goes
<1>3. Active' = IF p \in {"none", "finishing", "done"} THEN Active \ {w}
                                                      ELSE Active \cup {w}
  BY <1>2 DEF Active, Workers
<1>4. Running' = IF p \in {"none", "done"} THEN Running \ {w} ELSE Running \cup {w}
  BY <1>2 DEF Running, Workers
<1> QED
  BY <1>2, <1>3, <1>4

(* A goroutine that runs has a host. *)
LEMMA HasHost ==
  ASSUME ProbeTypeOK, Pool, NEW w \in Workers, worker[w] # "none"
  PROVE  w \in 1..Len(ips) /\ ips[w] \in Address /\ probe \in {"spawn", "returned"}
BY ProbeAssumption DEF ProbeTypeOK, Pool, Workers

------------------------------------------------------------------------------
(* The list of hosts. *)

(* The multiples of a mask divide the octets into blocks. *)
LEMMA Division ==
  ASSUME NEW m \in Nat \ {0}, NEW q \in Nat, NEW k \in Nat,
         NEW r \in 0..m - 1, NEW s \in 0..m - 1, (m * q) + r = (m * k) + s
  PROVE  q = k
<1>1. CASE q < k
  <2>1. PICK d \in Nat : k = q + d + 1
    BY <1>1
  <2>2. m * k = (m * q) + (m * d) + m /\ m * d \in Nat
    BY <2>1
  <2> QED
    BY <2>2
<1>2. CASE k < q
  <2>1. PICK d \in Nat : q = k + d + 1
    BY <1>2
  <2>2. m * q = (m * k) + (m * d) + m /\ m * d \in Nat
    BY <2>1
  <2> QED
    BY <2>2
<1> QED
  BY <1>1, <1>2

LEMMA Block ==
  ASSUME NEW x \in Nat, NEW y \in Nat, NEW m \in Nat \ {0}
  PROVE  x - (x % m) = y - (y % m)
           <=> y - (y % m) <= x /\ x < (y - (y % m)) + m
<1> DEFINE q == x \div m
           k == y \div m
           r == x % m
           s == y % m
<1>1. r \in 0..m - 1 /\ s \in 0..m - 1
  OBVIOUS
<1>2. q \in Nat /\ k \in Nat
  OBVIOUS
<1>3. x = (m * q) + r
  OBVIOUS
<1>4. y = (m * k) + s
  OBVIOUS
<1>5. m * q \in Nat /\ m * k \in Nat
  BY <1>2
<1> HIDE DEF q, k, r, s
<1>6. (x - r = y - s) <=> (y - s <= x /\ x < (y - s) + m)
  <2>1. ASSUME y - s <= x, x < (y - s) + m PROVE x - r = y - s
    <3>1. PICK t \in 0..m - 1 : x = (m * k) + t
      <4>1. x - (m * k) \in 0..m - 1
        BY <1>1, <1>4, <1>5, <2>1
      <4> QED
        BY <1>5, <4>1
    <3>2. (m * q) + r = (m * k) + t
      BY <1>3, <3>1
    <3>3. q = k
      BY <1>1, <1>2, <3>2, Division
    <3> QED
      BY <1>1, <1>3, <1>4, <1>5, <3>3
  <2>2. ASSUME x - r = y - s PROVE y - s <= x /\ x < (y - s) + m
    BY <1>1, <1>3, <1>4, <1>5, <2>2
  <2> QED
    BY <2>1, <2>2
<1> QED
  BY <1>6 DEF r, s

(* A network is a rectangle of addresses, and as a mask is a prefix one of its   *)
(* sides is a single value or all of the last octet.                           *)
LEMMA Rectangle ==
  ASSUME cidr \in Networks, NEW n, n = Mask(cidr.ip), NEW m, m = cidr.mask
  PROVE  /\ n[1] \in Octet /\ n[2] \in Octet
         /\ m[1] \in 1..Byte /\ m[2] \in 1..Byte /\ (m[1] = 1 \/ m[2] = Byte)
         /\ m[1] = Byte => n[1] = 0
         /\ m[2] = Byte => n[2] = 0
         /\ \A a \in Address : IPNetContains(a) <=>
              /\ n[1] <= a[1] /\ a[1] < n[1] + m[1]
              /\ n[2] <= a[2] /\ a[2] < n[2] + m[2]
<1> DEFINE c == cidr.ip
<1>1. c \in Address /\ n \in Address
  BY MaskOK
<1>2. m \in (1..Byte) \X (1..Byte) /\ (m[1] = 1 \/ m[2] = Byte)
  BY ProbeAssumption DEF CIDR
<1>3. m[1] \in 1..Byte /\ m[2] \in 1..Byte
  BY <1>2
<1>4. n[1] = c[1] - (c[1] % m[1]) /\ n[2] = c[2] - (c[2] % m[2])
  BY DEF Mask
<1>5. c[1] \in Octet /\ c[2] \in Octet /\ n[1] \in Octet /\ n[2] \in Octet
  BY <1>1 DEF Address
<1>6. ASSUME NEW x \in Octet PROVE x - (x % Byte) = 0
  <2>1. x \in Nat /\ x < Byte /\ Byte \in Nat \ {0}
    BY <1>6, ProbeAssumption DEF Octet
  <2>2. 0 \in Nat /\ 0 - (0 % Byte) = 0
    BY <2>1
  <2> QED
    BY <2>1, <2>2, Block
<1>7. ASSUME NEW a \in Address
      PROVE  IPNetContains(a) <=> /\ n[1] <= a[1] /\ a[1] < n[1] + m[1]
                                  /\ n[2] <= a[2] /\ a[2] < n[2] + m[2]
  <2>1. a[1] \in Nat /\ a[2] \in Nat /\ c[1] \in Nat /\ c[2] \in Nat
        /\ m[1] \in Nat \ {0} /\ m[2] \in Nat \ {0}
    BY <1>3, <1>5, <1>7, ProbeAssumption DEF Address, Octet
  <2>2. IPNetContains(a) <=> /\ a[1] - (a[1] % m[1]) = n[1]
                             /\ a[2] - (a[2] % m[2]) = n[2]
    BY <1>4 DEF IPNetContains, Mask
  <2>3. a[1] - (a[1] % m[1]) = n[1] <=> n[1] <= a[1] /\ a[1] < n[1] + m[1]
    <3>1. a[1] - (a[1] % m[1]) = c[1] - (c[1] % m[1])
            <=> /\ c[1] - (c[1] % m[1]) <= a[1]
                /\ a[1] < (c[1] - (c[1] % m[1])) + m[1]
      BY <2>1, Block
    <3> QED
      BY <1>4, <3>1
  <2>4. a[2] - (a[2] % m[2]) = n[2] <=> n[2] <= a[2] /\ a[2] < n[2] + m[2]
    <3>1. a[2] - (a[2] % m[2]) = c[2] - (c[2] % m[2])
            <=> /\ c[2] - (c[2] % m[2]) <= a[2]
                /\ a[2] < (c[2] - (c[2] % m[2])) + m[2]
      BY <2>1, Block
    <3> QED
      BY <1>4, <3>1
  <2> QED
    BY <2>2, <2>3, <2>4
<1> QED
  BY <1>2, <1>3, <1>4, <1>5, <1>6, <1>7

(* An octet counts up and wraps. *)
LEMMA CountedOctet ==
  ASSUME NEW x \in 0..Byte - 1
  PROVE  /\ x < Byte - 1 => (x + 1) % Byte = x + 1
         /\ x = Byte - 1 => (x + 1) % Byte = 0
<1>1. x \in Nat /\ Byte \in Nat \ {0}
  BY ProbeAssumption
<1> QED
  BY <1>1

(* The next address of a network comes after this one and nothing is between, *)
(* and when it is not in the network there is nothing after.                  *)
LEMMA Successor ==
  ASSUME cidr \in Networks, NEW c \in Address, IPNetContains(c),
         ~(c[1] = Byte - 1 /\ c[2] = Byte - 1 /\ cidr.mask[1] = Byte)
  PROVE  /\ IPNetContains(Inc(c)) =>
              /\ Before(c, Inc(c)) /\ Inc(c) # Mask(cidr.ip)
              /\ \A a \in Address : Before(c, a) => a = Inc(c) \/ Before(Inc(c), a)
         /\ ~IPNetContains(Inc(c)) =>
              \A a \in Address : IPNetContains(a) => ~Before(c, a)
<1> DEFINE n == Mask(cidr.ip)
           m == cidr.mask
           e == Inc(c)
<1>1. /\ n[1] \in Octet /\ n[2] \in Octet
      /\ m[1] \in 1..Byte /\ m[2] \in 1..Byte /\ (m[1] = 1 \/ m[2] = Byte)
      /\ m[1] = Byte => n[1] = 0
      /\ m[2] = Byte => n[2] = 0
      /\ \A a \in Address : IPNetContains(a) <=>
           /\ n[1] <= a[1] /\ a[1] < n[1] + m[1]
           /\ n[2] <= a[2] /\ a[2] < n[2] + m[2]
  BY Rectangle
<1>2. \A a \in Address : a[1] \in 0..Byte - 1 /\ a[2] \in 0..Byte - 1 /\ a = <<a[1], a[2]>>
  BY DEF Address, Octet
<1>3. e \in Address
  BY IncOK
<1>4. /\ Byte \in Nat /\ Byte > 1
      /\ n[1] \in 0..Byte - 1 /\ n[2] \in 0..Byte - 1
  BY <1>1, ProbeAssumption DEF Octet
<1>5. \/ c[2] < Byte - 1 /\ e[1] = c[1] /\ e[2] = c[2] + 1
      \/ c[2] = Byte - 1 /\ c[1] < Byte - 1 /\ e[1] = c[1] + 1 /\ e[2] = 0
      \/ c[2] = Byte - 1 /\ c[1] = Byte - 1 /\ e[1] = 0 /\ e[2] = 0
  <2>1. CASE c[2] < Byte - 1
    BY <2>1 DEF Inc
  <2>2. CASE ~(c[2] < Byte - 1)
    <3>1. c[2] = Byte - 1 /\ e[1] = (c[1] + 1) % Byte /\ e[2] = 0
      BY <1>2, <1>4, <2>2 DEF Inc
    <3>2. c[1] < Byte - 1 => (c[1] + 1) % Byte = c[1] + 1
      BY <1>2, CountedOctet
    <3>3. c[1] = Byte - 1 => (c[1] + 1) % Byte = 0
      BY <1>2, CountedOctet
    <3> QED
      BY <1>2, <1>4, <3>1, <3>2, <3>3
  <2> QED
    BY <2>1, <2>2
<1> HIDE DEF n, m, e
<1>6. ~(c[1] = Byte - 1 /\ c[2] = Byte - 1 /\ m[1] = Byte)
  BY DEF m
<1>7. ASSUME IPNetContains(e)
      PROVE  /\ Before(c, e) /\ e # n
             /\ \A a \in Address : Before(c, a) => a = e \/ Before(e, a)
  <2>1. ~(c[2] = Byte - 1 /\ c[1] = Byte - 1)
    BY <1>1, <1>2, <1>3, <1>4, <1>5, <1>6, <1>7
  <2>2. Before(c, e)
    BY <1>2, <1>4, <1>5, <2>1 DEF Before
  <2>3. e # n
    BY <1>1, <1>2, <1>4, <1>5, <2>1
  <2>4. ASSUME NEW a \in Address, Before(c, a) PROVE a = e \/ Before(e, a)
    <3>1. a[1] = e[1] /\ a[2] = e[2] => a = e
      BY <1>2, <1>3
    <3>2. (a[1] = e[1] /\ a[2] = e[2]) \/ Before(e, a)
      BY <1>2, <1>3, <1>4, <1>5, <2>1, <2>4 DEF Before
    <3> QED
      BY <3>1, <3>2
  <2> QED
    BY <2>2, <2>3, <2>4
<1>8. ASSUME ~IPNetContains(e), NEW a \in Address, IPNetContains(a), Before(c, a)
      PROVE  FALSE
  BY <1>1, <1>2, <1>3, <1>4, <1>5, <1>8 DEF Before
<1> QED
  BY <1>7, <1>8 DEF n, e

------------------------------------------------------------------------------
LEMMA InitIInv == ProbeInit => IInv
<1> SUFFICES ASSUME ProbeInit PROVE IInv
  OBVIOUS
<1>1. cidr.ip \in Address
  BY MaskOK DEF ProbeInit
<1>2. Active = {} /\ Running = {} /\ Collected = {}
  BY DEF ProbeInit, Active, Running, Collected
<1>3. ProbeTypeOK
  <2>1. /\ ips = << >> /\ found = << >> /\ seen = << >>
        /\ spawned = 0 /\ wg = 0 /\ sem = 0 /\ sent = {} /\ answered = {}
        /\ cursor \in Address /\ cidr \in Networks /\ foundLock \in BOOLEAN
    BY <1>1 DEF ProbeInit
  <2>2. << >> \in Seq(Address) /\ Len(<< >>) = 0
    OBVIOUS
  <2>3. worker \in [Workers -> Places] /\ probe = "parse"
    BY DEF ProbeInit, Places
  <2>4. spawned \in 0..Len(ips) /\ Len(ips) <= MaxHosts
    BY <2>1, <2>2, ProbeAssumption
  <2> QED
    BY <2>1, <2>2, <2>3, <2>4 DEF ProbeTypeOK, Places
<1>7. Room
  BY ProbeAssumption DEF ProbeInit, Room
<1>4. Pool
  BY <1>2, FS_EmptySet, ProbeAssumption DEF ProbeInit, Pool, Workers
<1>5. Lock
  BY DEF ProbeInit, Lock
<1>6. Collecting
  BY <1>2, FS_EmptySet DEF ProbeInit, Collecting, Range, Workers
<1> QED
  BY <1>3, <1>4, <1>5, <1>6, <1>7 DEF IInv

(* While the hosts are listed no goroutine runs. *)
LEMMA ListingIInv == IInv /\ (ParseCIDR \/ GenerateIP) => IInv'
<1> SUFFICES ASSUME IInv, ParseCIDR \/ GenerateIP PROVE IInv'
  OBVIOUS
<1>1. /\ ProbeTypeOK /\ Pool /\ Lock /\ Collecting
      /\ UNCHANGED <<cidr, poolVars, foundVars>>
      /\ spawned = 0
  BY DEF IInv, ParseCIDR, GenerateIP, Pool
<1>7. Len(ips) \in Nat /\ MaxHosts \in Nat
  <2>1. ips \in Seq(Address)
    BY <1>1 DEF ProbeTypeOK
  <2> QED
    BY <2>1, LenProperties, ProbeAssumption
<1>8. Len(ips) < MaxHosts
  <2>1. probe \in {"parse", "generate"}
    BY DEF ParseCIDR, GenerateIP
  <2> QED
    BY <2>1 DEF IInv, Room
<1>9. /\ probe' \in {"generate", "spawn", "failed"}
      /\ cursor' \in Address
      /\ ips' \in Seq(Address)
      /\ Len(ips') <= MaxHosts
      /\ probe' = "generate" => Len(ips') < MaxHosts
  <2>1. CASE ParseCIDR
    <3>1. Mask(cidr.ip) \in Address
      BY <1>1, MaskOK DEF ProbeTypeOK
    <3>2. /\ ips' = ips
          /\ probe' \in {"generate", "failed"} /\ cursor' \in {Mask(cidr.ip), cursor}
      BY <2>1 DEF ParseCIDR
    <3>3. cursor \in Address /\ ips \in Seq(Address)
      BY <1>1 DEF ProbeTypeOK
    <3>4. Len(ips') <= MaxHosts /\ Len(ips') < MaxHosts
      BY <1>7, <1>8, <3>2
    <3> QED
      BY <3>1, <3>2, <3>3, <3>4
  <2>2. CASE GenerateIP
    <3>1. Inc(cursor) \in Address
      BY <1>1, IncOK DEF ProbeTypeOK
    <3>2. ips' \in Seq(Address) /\ Len(ips') \in {Len(ips), Len(ips) + 1}
      BY <1>1, <2>2, <3>1, AppendProperties DEF GenerateIP, ProbeTypeOK
    <3>3. /\ cursor' = Inc(cursor)
          /\ probe' \in {"generate", "spawn", "failed"}
          /\ probe' = "generate" => ~(Len(ips') >= MaxHosts)
      BY <2>2 DEF GenerateIP
    <3>4. Len(ips') <= MaxHosts /\ (probe' = "generate" => Len(ips') < MaxHosts)
      BY <1>7, <1>8, <3>2, <3>3
    <3> QED
      BY <3>1, <3>2, <3>3, <3>4
  <2> QED
    BY <2>1, <2>2
<1>2. ProbeTypeOK' /\ Room'
  <2>1. Len(ips') \in Nat
    BY <1>9, LenProperties
  <2>2. spawned' \in 0..Len(ips')
    BY <1>1, <2>1 DEF poolVars
  <2>3. Room'
    <3>1. probe' # "parse"
      BY <1>9
    <3> QED
      BY <1>9, <3>1 DEF Room
  <2> QED
    BY <1>1, <1>9, <2>2, <2>3 DEF ProbeTypeOK, poolVars, foundVars
<1>3. Active' = Active /\ Running' = Running /\ Collected' = Collected
  BY <1>1 DEF Active, Running, Collected, poolVars, foundVars
<1>4. Pool'
  <2>1. probe' # "returned"
    BY DEF ParseCIDR, GenerateIP
  <2> QED
    BY <1>1, <1>3, <2>1 DEF Pool, poolVars
<1>5. Lock'
  BY <1>1 DEF Lock, poolVars, foundVars
<1>6. Collecting'
  <2>1. Collected = {}
    <3>1. \A w \in Workers : w \notin sent
      BY <1>1 DEF Collecting, Pool, Workers
    <3> QED
      BY <1>1, <3>1 DEF Collected, ProbeTypeOK
  <2> QED
    BY <1>1, <1>3, <2>1 DEF Collecting, poolVars, foundVars
<1> QED
  BY <1>2, <1>4, <1>5, <1>6 DEF IInv

(* The counters follow a goroutine that enters or leaves the sets. *)
LEMMA Counted ==
  ASSUME IInv, NEW w \in Workers
  PROVE  /\ IsFiniteSet(Active) /\ IsFiniteSet(Running)
         /\ sem = Cardinality(Active) /\ wg = Cardinality(Running)
         /\ w \notin Active => Cardinality(Active \cup {w}) = sem + 1
         /\ w \notin Running => Cardinality(Running \cup {w}) = wg + 1
         /\ w \in Active => Cardinality(Active \ {w}) = sem - 1
         /\ w \in Running => Cardinality(Running \ {w}) = wg - 1
<1>1. IsFiniteSet(Active) /\ IsFiniteSet(Running)
  BY FiniteWorkers DEF Active, Running
<1>2. sem = Cardinality(Active) /\ wg = Cardinality(Running)
  BY DEF IInv, Pool
<1> QED
  BY <1>1, <1>2, FS_AddElement, FS_RemoveElement

LEMMA SpawnIInv == IInv /\ Spawn => IInv'
<1> SUFFICES ASSUME IInv, Spawn PROVE IInv'
  OBVIOUS
<1> DEFINE w == spawned + 1
<1>1. ProbeTypeOK /\ Pool /\ Lock /\ Collecting
  BY DEF IInv
<1>2. /\ probe = "spawn" /\ spawned < Len(ips) /\ sem < Permits
      /\ wg' = wg + 1 /\ sem' = sem + 1 /\ spawned' = w
      /\ Goes(w, "dialing")
      /\ UNCHANGED <<probe, listVars, foundVars>>
  BY DEF Spawn
<1>3. /\ Len(ips) \in Nat /\ Len(ips) <= MaxHosts /\ spawned \in Nat
      /\ MaxHosts \in Nat /\ sem \in Nat /\ wg \in Nat
  <2>1. ips \in Seq(Address) /\ Len(ips) <= MaxHosts /\ spawned \in 0..Len(ips)
        /\ sem \in Nat /\ wg \in Nat
    BY <1>1 DEF ProbeTypeOK
  <2> QED
    BY <2>1, LenProperties, ProbeAssumption
<1>4. w \in Workers /\ w \in 0..Len(ips)
  BY <1>2, <1>3 DEF Workers
<1>5. worker[w] = "none"
  BY <1>1, <1>3, <1>4 DEF Pool
<1>6. /\ worker' \in [Workers -> Places]
      /\ worker'[w] = "dialing"
      /\ \A v \in Workers \ {w} : worker'[v] = worker[v]
      /\ Active' = Active \cup {w} /\ Running' = Running \cup {w}
  BY <1>1, <1>2, <1>4, Moves DEF Places
<1>7. ProbeTypeOK'
  <2>1. wg' \in Nat /\ sem' \in Nat /\ spawned' \in 0..Len(ips')
    BY <1>2, <1>3, <1>4 DEF listVars
  <2> QED
    BY <1>1, <1>2, <1>6, <2>1 DEF ProbeTypeOK, Places, listVars, foundVars
<1>8. Room'
  BY <1>2 DEF Room
<1>9. Pool'
  <2>1. w \notin Active /\ w \notin Running
    BY <1>5 DEF Active, Running
  <2>2. sem' = Cardinality(Active') /\ wg' = Cardinality(Running')
    BY <1>2, <1>4, <1>6, <2>1, Counted
  <2>3. sem' <= Permits
    BY <1>2, <1>3, ProbeAssumption
  <2>4. \A v \in Workers : worker'[v] = "none" <=> v > spawned'
    <3>1. \A v \in Workers \ {w} : v > spawned <=> v > w
      BY <1>3 DEF Workers
    <3>2. ~(w > w)
      BY <1>3
    <3> QED
      BY <1>1, <1>2, <1>6, <3>1, <3>2 DEF Pool
  <2> QED
    BY <1>2, <2>2, <2>3, <2>4 DEF Pool
<1>10. Lock'
  BY <1>1, <1>2, <1>4, <1>5, <1>6 DEF Lock, foundVars
<1>11. Collecting'
  <2>1. w \notin sent
    BY <1>1, <1>4, <1>5 DEF Collecting
  <2>2. sent \subseteq Workers
    BY <1>1 DEF ProbeTypeOK
  <2>3. Collected' = Collected
    BY <1>2, <1>6, <2>1, <2>2 DEF Collected, foundVars
  <2> QED
    BY <1>1, <1>2, <1>4, <1>5, <1>6, <2>1, <2>3 DEF Collecting, listVars, foundVars
<1> QED
  BY <1>7, <1>8, <1>9, <1>10, <1>11 DEF IInv

(* A goroutine that only goes on keeps the types, the room and the numbering. *)
LEMMA GoesOn ==
  ASSUME IInv, NEW w \in Workers, NEW p \in Places \ {"none"},
         worker[w] # "none", Goes(w, p), UNCHANGED <<probe, listVars, spawned>>
  PROVE  /\ Room'
         /\ worker' \in [Workers -> {"none", "dialing", "locking", "appending",
                                     "releasing", "finishing", "done"}]
         /\ \A v \in Workers : worker'[v] = "none" <=> v > spawned'
         /\ probe' \in {"spawn", "returned"}
         /\ worker'[w] = p
         /\ \A v \in Workers \ {w} : worker'[v] = worker[v]
         /\ Active' = IF p \in {"finishing", "done"}
                      THEN Active \ {w} ELSE Active \cup {w}
         /\ Running' = IF p = "done" THEN Running \ {w} ELSE Running \cup {w}
<1>1. ProbeTypeOK /\ Pool /\ Room
  BY DEF IInv
<1>2. /\ worker' \in [Workers -> Places]
      /\ worker'[w] = p
      /\ \A v \in Workers \ {w} : worker'[v] = worker[v]
      /\ Active' = IF p \in {"none", "finishing", "done"}
                   THEN Active \ {w} ELSE Active \cup {w}
      /\ Running' = IF p \in {"none", "done"} THEN Running \ {w}
                                             ELSE Running \cup {w}
  BY <1>1, Moves
<1>3. \A v \in Workers : worker'[v] = "none" <=> v > spawned'
  BY <1>1, <1>2 DEF Pool
<1>4. probe \in {"spawn", "returned"}
  BY <1>1, HasHost
<1>5. Room'
  BY <1>4 DEF Room
<1> QED
  BY <1>2, <1>3, <1>4, <1>5 DEF Places

(* The counters are right while a goroutine has both its permit and its turn of *)
(* the wait group.                                                             *)
LEMMA KeepsPool ==
  ASSUME IInv, NEW w \in Workers, NEW p \in {"locking", "appending", "releasing"},
         worker[w] \in {"dialing", "locking", "appending"}, Goes(w, p),
         UNCHANGED <<probe, listVars, spawned, wg, sem>>
  PROVE  Pool'
<1>1. /\ \A v \in Workers : worker'[v] = "none" <=> v > spawned'
      /\ probe' \in {"spawn", "returned"}
      /\ Active' = Active \cup {w} /\ Running' = Running \cup {w}
  BY GoesOn DEF Places
<1>2. w \in Active /\ w \in Running
  BY DEF Active, Running
<1>3. Active' = Active /\ Running' = Running
  BY <1>1, <1>2
<1>4. Pool
  BY DEF IInv
<1> QED
  BY <1>1, <1>3, <1>4 DEF Pool, listVars

LEMMA DialIInv ==
  ASSUME IInv, NEW w \in Workers, Dial(w)
  PROVE  IInv'
<1>1. ProbeTypeOK /\ Lock /\ Collecting
  BY DEF IInv
<1>2. PICK p \in {"locking", "releasing"} :
        /\ Goes(w, p) /\ sent' = IF p = "locking" THEN sent \cup {w} ELSE sent
        /\ answered' \in {answered, answered \cup {w}}
        /\ p = "releasing" => answered' = answered
  BY DEF Dial
<1>3. /\ worker[w] = "dialing"
      /\ UNCHANGED <<probe, listVars, spawned, wg, sem, foundLock, seen, found>>
  BY DEF Dial, At
<1>4. /\ Room'
      /\ worker' \in [Workers -> {"none", "dialing", "locking", "appending",
                                  "releasing", "finishing", "done"}]
      /\ worker'[w] = p
      /\ \A v \in Workers \ {w} : worker'[v] = worker[v]
  BY <1>2, <1>3, GoesOn DEF Places
<1>5. ProbeTypeOK'
  BY <1>1, <1>2, <1>3, <1>4 DEF ProbeTypeOK, listVars
<1>6. Pool'
  BY <1>2, <1>3, KeepsPool
<1>7. Lock'
  BY <1>1, <1>2, <1>3, <1>4 DEF Lock
<1>8. Collecting'
  <2>1. w \notin sent
    BY <1>1, <1>3 DEF Collecting
  <2>2. sent \subseteq Workers
    BY <1>1 DEF ProbeTypeOK
  <2>3. Collected' = Collected
    BY <1>2, <1>3, <1>4, <2>1, <2>2 DEF Collected
  <2> QED
    BY <1>1, <1>2, <1>3, <1>4, <2>3 DEF Collecting, listVars
<1> QED
  BY <1>4, <1>5, <1>6, <1>7, <1>8 DEF IInv

LEMMA LockFoundIInv ==
  ASSUME IInv, NEW w \in Workers, LockFound(w)
  PROVE  IInv'
<1>1. ProbeTypeOK /\ Lock /\ Collecting
  BY DEF IInv
<1>2. /\ worker[w] = "locking" /\ ~foundLock
      /\ foundLock' = TRUE /\ seen' = found /\ Goes(w, "appending")
      /\ UNCHANGED <<probe, listVars, spawned, wg, sem, found, sent, answered>>
  BY DEF LockFound, At
<1>3. /\ Room'
      /\ worker' \in [Workers -> {"none", "dialing", "locking", "appending",
                                  "releasing", "finishing", "done"}]
      /\ worker'[w] = "appending"
      /\ \A v \in Workers \ {w} : worker'[v] = worker[v]
  BY <1>2, GoesOn DEF Places
<1>4. ProbeTypeOK'
  BY <1>1, <1>2, <1>3 DEF ProbeTypeOK, listVars
<1>5. Pool'
  BY <1>2, KeepsPool
<1>6. Lock'
  BY <1>1, <1>2, <1>3 DEF Lock
<1>7. Collecting'
  <2>1. sent \subseteq Workers
    BY <1>1 DEF ProbeTypeOK
  <2>2. Collected' = Collected
    BY <1>2, <1>3, <2>1 DEF Collected
  <2> QED
    BY <1>1, <1>2, <1>3, <2>2 DEF Collecting, listVars
<1> QED
  BY <1>3, <1>4, <1>5, <1>6, <1>7 DEF IInv

LEMMA AppendFoundIInv ==
  ASSUME IInv, NEW w \in Workers, AppendFound(w)
  PROVE  IInv'
<1>1. ProbeTypeOK /\ Pool /\ Lock /\ Collecting
  BY DEF IInv
<1>2. /\ worker[w] = "appending"
      /\ found' = Append(seen, ips[w]) /\ seen' = << >> /\ foundLock' = FALSE
      /\ Goes(w, "releasing")
      /\ UNCHANGED <<probe, listVars, spawned, wg, sem, sent, answered>>
  BY DEF AppendFound, At
<1>3. /\ Room'
      /\ worker' \in [Workers -> {"none", "dialing", "locking", "appending",
                                  "releasing", "finishing", "done"}]
      /\ worker'[w] = "releasing"
      /\ \A v \in Workers \ {w} : worker'[v] = worker[v]
  BY <1>2, GoesOn DEF Places
<1>4. ips[w] \in Address
  BY <1>1, <1>2, HasHost
<1>5. seen = found /\ found \in Seq(Address)
  BY <1>1, <1>2 DEF Lock, ProbeTypeOK
<1>6. /\ found' \in Seq(Address)
      /\ Len(found') = Len(found) + 1
      /\ Range(found') = Range(found) \cup {ips[w]}
  <2>1. /\ found' \in Seq(Address) /\ Len(found') = Len(found) + 1
        /\ \A i \in 1..Len(found) : found'[i] = found[i]
        /\ found'[Len(found) + 1] = ips[w]
    BY <1>2, <1>4, <1>5, AppendProperties
  <2>2. /\ DOMAIN found = 1..Len(found) /\ DOMAIN found' = 1..Len(found')
        /\ Len(found) \in Nat
    BY <1>5, <2>1, LenProperties
  <2>3. DOMAIN found' = DOMAIN found \cup {Len(found) + 1}
    BY <2>1, <2>2
  <2>4. {found'[i] : i \in DOMAIN found'}
          = {found[i] : i \in DOMAIN found} \cup {ips[w]}
    <3>1. \A i \in DOMAIN found : found'[i] = found[i]
      BY <2>1, <2>2
    <3> QED
      BY <2>1, <2>3, <3>1
  <2> QED
    BY <2>1, <2>4 DEF Range
<1>7. ProbeTypeOK'
  <2>1. << >> \in Seq(Address)
    OBVIOUS
  <2>2. found' \in Seq(Address) /\ seen' \in Seq(Address)
    BY <1>2, <1>6, <2>1
  <2>3. /\ cidr \in Networks /\ cursor \in Address
        /\ ips \in Seq(Address) /\ Len(ips) <= MaxHosts
        /\ spawned \in 0..Len(ips) /\ wg \in Nat /\ sem \in Nat
        /\ sent \subseteq Workers /\ answered \subseteq sent
    BY <1>1 DEF ProbeTypeOK
  <2>4. /\ cidr' \in Networks /\ cursor' \in Address
        /\ ips' \in Seq(Address) /\ Len(ips') <= MaxHosts
        /\ spawned' \in 0..Len(ips') /\ wg' \in Nat /\ sem' \in Nat
        /\ sent' \subseteq Workers /\ answered' \subseteq sent'
    BY <1>2, <2>3 DEF listVars
  <2>5. foundLock' \in BOOLEAN
    BY <1>2
  <2>6. probe' \in {"parse", "generate", "spawn", "returned", "failed"}
    BY <1>1, <1>2 DEF ProbeTypeOK
  <2> QED
    BY <1>3, <2>2, <2>4, <2>5, <2>6 DEF ProbeTypeOK
<1>8. Pool'
  BY <1>2, KeepsPool
<1>9. Lock'
  BY <1>1, <1>2, <1>3 DEF Lock
<1>10. Collecting'
  <2>1. sent \subseteq Workers /\ w \in sent /\ w \notin Collected
    BY <1>1, <1>2 DEF ProbeTypeOK, Collecting, Collected
  <2>2. Collected' = Collected \cup {w}
    BY <1>2, <1>3, <2>1 DEF Collected
  <2>3. IsFiniteSet(Collected)
    BY <2>1, FiniteWorkers DEF Collected
  <2>4. Cardinality(Collected') = Cardinality(Collected) + 1
    BY <2>1, <2>2, <2>3, FS_AddElement
  <2>5. Range(found') = {ips'[v] : v \in Collected'}
    BY <1>1, <1>2, <1>6, <2>2 DEF Collecting, listVars
  <2> QED
    BY <1>1, <1>2, <1>3, <1>6, <2>4, <2>5 DEF Collecting
<1> QED
  BY <1>3, <1>7, <1>8, <1>9, <1>10 DEF IInv

LEMMA ReleaseIInv ==
  ASSUME IInv, NEW w \in Workers, Release(w)
  PROVE  IInv'
<1>1. ProbeTypeOK /\ Pool /\ Lock /\ Collecting
  BY DEF IInv
<1>2. /\ worker[w] = "releasing"
      /\ sem' = sem - 1 /\ Goes(w, "finishing")
      /\ UNCHANGED <<probe, listVars, spawned, wg, foundVars>>
  BY DEF Release, At
<1>3. /\ Room'
      /\ worker' \in [Workers -> {"none", "dialing", "locking", "appending",
                                  "releasing", "finishing", "done"}]
      /\ \A v \in Workers : worker'[v] = "none" <=> v > spawned'
      /\ worker'[w] = "finishing"
      /\ \A v \in Workers \ {w} : worker'[v] = worker[v]
      /\ Active' = Active \ {w} /\ Running' = Running \cup {w}
      /\ probe' \in {"spawn", "returned"}
  BY <1>2, GoesOn DEF Places
<1>4. w \in Active /\ w \in Running
  BY <1>2 DEF Active, Running
<1>5. sem' = Cardinality(Active') /\ wg' = Cardinality(Running')
  <2>1. Running' = Running
    BY <1>3, <1>4
  <2> QED
    BY <1>2, <1>3, <1>4, <2>1, Counted
<1>6. sem' \in Nat /\ sem' <= Permits
  <2>1. sem' \in Nat
    BY <1>3, <1>5, FiniteWorkers DEF Active
  <2>2. sem \in Nat /\ sem <= Permits
    BY <1>1 DEF ProbeTypeOK, Pool
  <2> QED
    BY <1>2, <2>1, <2>2, ProbeAssumption
<1>7. ProbeTypeOK'
  BY <1>1, <1>2, <1>3, <1>6 DEF ProbeTypeOK, listVars, foundVars
<1>8. Pool'
  BY <1>1, <1>2, <1>3, <1>5, <1>6 DEF Pool, listVars
<1>9. Lock'
  BY <1>1, <1>2, <1>3 DEF Lock, foundVars
<1>10. Collecting'
  <2>1. sent \subseteq Workers
    BY <1>1 DEF ProbeTypeOK
  <2>2. Collected' = Collected
    BY <1>2, <1>3, <2>1 DEF Collected, foundVars
  <2> QED
    BY <1>1, <1>2, <1>3, <2>2 DEF Collecting, listVars, foundVars
<1> QED
  BY <1>3, <1>7, <1>8, <1>9, <1>10 DEF IInv

LEMMA DoneIInv ==
  ASSUME IInv, NEW w \in Workers, Done(w)
  PROVE  IInv'
<1>1. ProbeTypeOK /\ Pool /\ Lock /\ Collecting
  BY DEF IInv
<1>2. /\ worker[w] = "finishing"
      /\ wg' = wg - 1 /\ Goes(w, "done")
      /\ UNCHANGED <<probe, listVars, spawned, sem, foundVars>>
  BY DEF Done, At
<1>3. /\ Room'
      /\ worker' \in [Workers -> {"none", "dialing", "locking", "appending",
                                  "releasing", "finishing", "done"}]
      /\ \A v \in Workers : worker'[v] = "none" <=> v > spawned'
      /\ worker'[w] = "done"
      /\ \A v \in Workers \ {w} : worker'[v] = worker[v]
      /\ Active' = Active \ {w} /\ Running' = Running \ {w}
      /\ probe' \in {"spawn", "returned"}
  BY <1>2, GoesOn DEF Places
<1>4. w \notin Active /\ w \in Running
  BY <1>2 DEF Active, Running
<1>5. sem' = Cardinality(Active') /\ wg' = Cardinality(Running')
  <2>1. Active' = Active
    BY <1>3, <1>4
  <2> QED
    BY <1>2, <1>3, <1>4, <2>1, Counted
<1>6. wg' \in Nat
  BY <1>3, <1>5, FiniteWorkers DEF Running
<1>7. ProbeTypeOK'
  BY <1>1, <1>2, <1>3, <1>6 DEF ProbeTypeOK, listVars, foundVars
<1>8. Pool'
  <2>1. wg # 0
    BY <1>4, Counted, FS_EmptySet
  <2>2. probe' # "returned"
    BY <1>1, <1>2, <2>1 DEF Pool
  <2> QED
    BY <1>1, <1>2, <1>3, <1>5, <2>2 DEF Pool
<1>9. Lock'
  BY <1>1, <1>2, <1>3 DEF Lock, foundVars
<1>10. Collecting'
  <2>1. sent \subseteq Workers
    BY <1>1 DEF ProbeTypeOK
  <2>2. Collected' = Collected
    BY <1>2, <1>3, <2>1 DEF Collected, foundVars
  <2> QED
    BY <1>1, <1>2, <1>3, <2>2 DEF Collecting, listVars, foundVars
<1> QED
  BY <1>3, <1>7, <1>8, <1>9, <1>10 DEF IInv

(* Steps that touch neither the pool nor the result. *)
LEMMA IdleIInv ==
  ASSUME IInv, Wait \/ UNCHANGED probeVars
  PROVE  IInv'
<1>1. ProbeTypeOK /\ Room /\ Pool /\ Lock /\ Collecting
  BY DEF IInv
<1>2. UNCHANGED <<listVars, poolVars, foundVars>>
  BY DEF Wait, probeVars
<1>3. /\ probe' = probe \/ probe' = "returned"
      /\ probe' = "returned" => spawned = Len(ips) /\ wg = 0
      /\ probe' \notin {"spawn", "returned"} => probe \notin {"spawn", "returned"}
  BY <1>1 DEF Wait, probeVars, Pool
<1>4. Active' = Active /\ Running' = Running /\ Collected' = Collected
  BY <1>2 DEF Active, Running, Collected, poolVars, foundVars
<1>5. ProbeTypeOK' /\ Room'
  BY <1>1, <1>2, <1>3 DEF ProbeTypeOK, Room, listVars, poolVars, foundVars
<1>6. Pool'
  BY <1>1, <1>2, <1>3, <1>4 DEF Pool, listVars, poolVars
<1>7. Lock' /\ Collecting'
  BY <1>1, <1>2, <1>4 DEF Lock, Collecting, listVars, poolVars, foundVars
<1> QED
  BY <1>5, <1>6, <1>7 DEF IInv

LEMMA NextIInv == IInv /\ [ProbeNext]_probeVars => IInv'
<1> SUFFICES ASSUME IInv, [ProbeNext]_probeVars PROVE IInv'
  OBVIOUS
<1>1. CASE ParseCIDR \/ GenerateIP
  BY <1>1, ListingIInv
<1>2. CASE Spawn
  BY <1>2, SpawnIInv
<1>3. CASE Wait \/ UNCHANGED probeVars
  BY <1>3, IdleIInv
<1>4. ASSUME NEW w \in Workers, Probing(w) PROVE IInv'
  <2>1. CASE Dial(w)
    BY <2>1, DialIInv
  <2>2. CASE LockFound(w)
    BY <2>2, LockFoundIInv
  <2>3. CASE AppendFound(w)
    BY <2>3, AppendFoundIInv
  <2>4. CASE Release(w)
    BY <2>4, ReleaseIInv
  <2>5. CASE Done(w)
    BY <2>5, DoneIInv
  <2> QED
    BY <1>4, <2>1, <2>2, <2>3, <2>4, <2>5 DEF Probing
<1> QED
  BY <1>1, <1>2, <1>3, <1>4 DEF ProbeNext, ProbeMain

LEMMA Inductive == ProbeSpec => []IInv
<1> QED
  BY InitIInv, NextIInv, PTL DEF ProbeSpec

------------------------------------------------------------------------------
(* While generateIPs counts, the cursor is in the network, every host up to it  *)
(* has been listed, and what was listed is in order; in a network that has all   *)
(* values of the last octet the number of hosts tells how far the cursor went,   *)
(* so that it cannot wrap before the limit.                                    *)
LeastOf(a, b) == IF a <= b THEN a ELSE b
HostsUpTo(c, base) == (c[1] - base[1]) * (Byte - 2) + LeastOf(c[2], Byte - 2)

Listing ==
  /\ Range(ips) \subseteq Hosts
  /\ \A i, j \in DOMAIN ips : i < j => Before(ips[i], ips[j])
  /\ probe = "parse" => ips = << >>
  /\ probe = "generate" =>
       /\ IPNetContains(cursor)
       /\ \A i \in DOMAIN ips : ~Before(cursor, ips[i])
       /\ \A a \in Hosts : ~Before(cursor, a) => a \in Range(ips)
       /\ cidr.mask[2] = Byte => Len(ips) = HostsUpTo(cursor, Mask(cidr.ip))
  /\ probe \in {"spawn", "returned"} =>
       \A a \in Hosts \ Range(ips) : Len(ips) = MaxHosts /\ Before(ips[MaxHosts], a)

ProbeInv == IInv /\ Listing

LEMMA ListingHosts == Listing => HostsExact
BY DEF Listing, HostsExact

LEMMA InitListing == ProbeInit => Listing
<1> SUFFICES ASSUME ProbeInit PROVE Listing
  OBVIOUS
<1>1. ips = << >> /\ probe = "parse"
  BY DEF ProbeInit
<1>2. DOMAIN ips = {}
  BY <1>1
<1> QED
  BY <1>1, <1>2 DEF Listing, Range

(* The base of a network is its first address. *)
LEMMA BaseFirst ==
  ASSUME cidr \in Networks, NEW n, n = Mask(cidr.ip)
  PROVE  /\ n \in Address /\ IPNetContains(n)
         /\ \A a \in Address : IPNetContains(a) /\ ~Before(n, a) => a = n
<1>1. /\ n[1] \in Octet /\ n[2] \in Octet
      /\ cidr.mask[1] \in 1..Byte /\ cidr.mask[2] \in 1..Byte
      /\ \A a \in Address : IPNetContains(a) <=>
           /\ n[1] <= a[1] /\ a[1] < n[1] + cidr.mask[1]
           /\ n[2] <= a[2] /\ a[2] < n[2] + cidr.mask[2]
  BY Rectangle
<1>2. n \in Address
  BY MaskOK
<1>3. \A a \in Address : a[1] \in 0..Byte - 1 /\ a[2] \in 0..Byte - 1 /\ a = <<a[1], a[2]>>
  BY DEF Address, Octet
<1>4. Byte \in Nat
  BY ProbeAssumption
<1>5. IPNetContains(n)
  BY <1>1, <1>2, <1>3, <1>4
<1>6. ASSUME NEW a \in Address, IPNetContains(a), ~Before(n, a) PROVE a = n
  <2>1. a[1] = n[1] /\ a[2] = n[2]
    BY <1>1, <1>2, <1>3, <1>4, <1>6 DEF Before
  <2> QED
    BY <1>2, <1>3, <2>1
<1> QED
  BY <1>2, <1>5, <1>6

LEMMA ParseListing ==
  ASSUME IInv, Listing, ParseCIDR
  PROVE  Listing'
<1> DEFINE n == Mask(cidr.ip)
<1>1. cidr \in Networks
  BY DEF IInv, ProbeTypeOK
<1>2. /\ ips = << >> /\ ips' = ips /\ cidr' = cidr
      /\ probe' \in {"generate", "failed"}
      /\ probe' = "generate" => cursor' = n
  BY DEF ParseCIDR, Listing
<1>3. DOMAIN ips = {} /\ Range(ips) = {} /\ Len(ips) = 0
  BY <1>2 DEF Range
<1>4. Hosts' = Hosts /\ Mask(cidr.ip)' = n
  BY <1>2 DEF Hosts, IPNetContains, Mask
<1>5. ASSUME probe' = "generate"
      PROVE  /\ IPNetContains(cursor)'
             /\ \A a \in Hosts : Before(n, a)
             /\ cidr.mask[2] = Byte => HostsUpTo(n, n) = 0
  <2>1. IPNetContains(cursor)'
    <3>1. IPNetContains(n)
      BY <1>1, BaseFirst
    <3> QED
      BY <1>2, <1>5, <3>1 DEF IPNetContains, Mask
  <2>2. \A a \in Hosts : Before(n, a)
    BY <1>1, BaseFirst DEF Hosts
  <2>3. ASSUME cidr.mask[2] = Byte PROVE HostsUpTo(n, n) = 0
    <3>1. n[2] = 0 /\ n[1] \in Octet
      BY <1>1, <2>3, Rectangle
    <3>2. n[1] \in Int /\ Byte \in Nat /\ Byte >= 2
      BY <3>1, ProbeAssumption DEF Octet
    <3> HIDE DEF n
    <3>3. (n[1] - n[1]) * (Byte - 2) = 0
      BY <3>2
    <3> QED
      BY <3>1, <3>2, <3>3 DEF HostsUpTo, LeastOf
  <2> QED
    BY <2>1, <2>2, <2>3
<1>6. /\ Range(ips') \subseteq Hosts'
      /\ \A i, j \in DOMAIN ips' : i < j => Before(ips'[i], ips'[j])
      /\ \A i \in DOMAIN ips' : ~Before(cursor', ips'[i])
  BY <1>2, <1>3
<1>7. ASSUME probe' = "generate"
      PROVE  /\ \A a \in Hosts' : ~Before(cursor', a) => a \in Range(ips')
             /\ cidr'.mask[2] = Byte => Len(ips') = HostsUpTo(cursor', Mask(cidr.ip)')
  BY <1>2, <1>3, <1>4, <1>5, <1>7
<1>8. probe' # "parse" /\ probe' \notin {"spawn", "returned"}
  BY <1>2
<1> QED
  BY <1>5, <1>6, <1>7, <1>8 DEF Listing

(* The cursor has not reached the end of all addresses. *)
LEMMA NoWrap ==
  ASSUME IInv, Listing, probe = "generate"
  PROVE  ~(cursor[1] = Byte - 1 /\ cursor[2] = Byte - 1 /\ cidr.mask[1] = Byte)
<1> SUFFICES ASSUME cursor[1] = Byte - 1, cursor[2] = Byte - 1, cidr.mask[1] = Byte
             PROVE  FALSE
  OBVIOUS
<1> DEFINE n == Mask(cidr.ip)
<1>1. cidr \in Networks /\ ips \in Seq(Address)
  BY DEF IInv, ProbeTypeOK
<1>2. Byte \in Nat /\ Byte >= 2 /\ MaxHosts \in Nat /\ MaxHosts <= Byte * (Byte - 2)
  BY ProbeAssumption
<1>3. n[1] = 0 /\ cidr.mask[2] = Byte
  BY <1>1, <1>2, Rectangle
<1>4. Len(ips) = HostsUpTo(cursor, n)
  BY <1>3 DEF Listing
<1>5. Len(ips) = (Byte - 1) * (Byte - 2) + (Byte - 2)
  <2>1. HostsUpTo(cursor, n) = (cursor[1] - n[1]) * (Byte - 2) + LeastOf(cursor[2], Byte - 2)
    BY DEF HostsUpTo
  <2>2. LeastOf(cursor[2], Byte - 2) = Byte - 2
    BY <1>2 DEF LeastOf
  <2>3. cursor[1] - n[1] = Byte - 1
    BY <1>2, <1>3
  <2> QED
    BY <1>4, <2>1, <2>2, <2>3
<1>6. (Byte - 1) * (Byte - 2) + (Byte - 2) = Byte * (Byte - 2)
  BY <1>2
<1>7. Len(ips) < MaxHosts
  BY DEF IInv, Room
<1> QED
  BY <1>1, <1>2, <1>5, <1>6, <1>7

(* Addresses are ordered. *)
LEMMA Ordered ==
  ASSUME NEW a \in Address, NEW b \in Address, NEW c \in Address
  PROVE  /\ a = b \/ Before(a, b) \/ Before(b, a)
         /\ ~Before(a, a)
         /\ Before(a, b) /\ Before(b, c) => Before(a, c)
<1>1. /\ a[1] \in Nat /\ a[2] \in Nat /\ b[1] \in Nat /\ b[2] \in Nat
      /\ c[1] \in Nat /\ c[2] \in Nat
  BY ProbeAssumption DEF Address, Octet
<1>2. a[1] = b[1] /\ a[2] = b[2] => a = b
  BY DEF Address
<1> QED
  BY <1>1, <1>2 DEF Before

(* One address on, the number of hosts is still what the cursor tells. *)
LEMMA HostsUpToNext ==
  ASSUME IInv, Listing, probe = "generate", cidr.mask[2] = Byte,
         NEW e, e = Inc(cursor), IPNetContains(e)
  PROVE  HostsUpTo(e, Mask(cidr.ip)) =
           IF e[2] \in {0, Byte - 1} THEN Len(ips) ELSE Len(ips) + 1
<1> DEFINE n == Mask(cidr.ip)
           c == cursor
<1>1. cidr \in Networks /\ c \in Address /\ IPNetContains(c) /\ ips \in Seq(Address)
  BY DEF IInv, ProbeTypeOK, Listing
<1>2. c[1] \in 0..Byte - 1 /\ c[2] \in 0..Byte - 1 /\ n[1] \in 0..Byte - 1
  BY <1>1, Rectangle DEF Address, Octet
<1>3. Byte \in Nat /\ Byte >= 2 /\ Len(ips) \in Nat
  BY <1>1, LenProperties, ProbeAssumption
<1>4. Before(c, e) /\ e \in Address
  BY <1>1, NoWrap, Successor, IncOK
<1>5. e[1] \in 0..Byte - 1 /\ e[2] \in 0..Byte - 1
  BY <1>4 DEF Address, Octet
<1>6. \/ c[2] < Byte - 1 /\ e[1] = c[1] /\ e[2] = c[2] + 1
      \/ c[2] = Byte - 1 /\ e[1] = c[1] + 1 /\ e[2] = 0
  <2>1. CASE c[2] < Byte - 1
    BY <2>1 DEF Inc
  <2>2. CASE ~(c[2] < Byte - 1)
    <3>1. c[2] = Byte - 1 /\ e[1] = (c[1] + 1) % Byte /\ e[2] = 0
      <4>1. e = <<(c[1] + 1) % Byte, 0>>
        BY <2>2 DEF Inc
      <4>2. e[1] = (c[1] + 1) % Byte /\ e[2] = 0
        BY <4>1
      <4>3. c[2] = Byte - 1
        BY <1>2, <1>3, <2>2
      <4> QED
        BY <4>2, <4>3
    <3>2. c[1] < Byte - 1 => (c[1] + 1) % Byte = c[1] + 1
      BY <1>2, CountedOctet
    <3>3. c[1] = Byte - 1 => (c[1] + 1) % Byte = 0
      BY <1>2, CountedOctet
    <3>4. c[1] # Byte - 1
      <4>1. SUFFICES ASSUME c[1] = Byte - 1 PROVE FALSE
        OBVIOUS
      <4>2. e[1] = 0
        BY <3>1, <3>3, <4>1
      <4>3. ~Before(c, e)
        BY <1>2, <1>3, <3>1, <4>1, <4>2 DEF Before
      <4> QED
        BY <1>4, <4>3
    <3> QED
      BY <1>2, <1>3, <3>1, <3>2, <3>4
  <2> QED
    BY <2>1, <2>2
<1>7. Len(ips) = (c[1] - n[1]) * (Byte - 2) + LeastOf(c[2], Byte - 2)
  BY DEF Listing, HostsUpTo
<1>8. HostsUpTo(e, n) = (e[1] - n[1]) * (Byte - 2) + LeastOf(e[2], Byte - 2)
  BY DEF HostsUpTo
<1> HIDE DEF n, c
<1>9. CASE c[2] < Byte - 1 /\ e[1] = c[1] /\ e[2] = c[2] + 1
  <2>1. LeastOf(e[2], Byte - 2) = IF e[2] \in {0, Byte - 1} THEN LeastOf(c[2], Byte - 2)
                                                          ELSE LeastOf(c[2], Byte - 2) + 1
    BY <1>2, <1>3, <1>9 DEF LeastOf
  <2>2. LeastOf(c[2], Byte - 2) \in Int /\ (c[1] - n[1]) * (Byte - 2) \in Int
    BY <1>2, <1>3 DEF LeastOf
  <2> QED
    BY <1>3, <1>7, <1>8, <1>9, <2>1, <2>2 DEF n
<1>10. CASE c[2] = Byte - 1 /\ e[1] = c[1] + 1 /\ e[2] = 0
  <2>1. LeastOf(e[2], Byte - 2) = 0 /\ LeastOf(c[2], Byte - 2) = Byte - 2
    BY <1>2, <1>3, <1>10 DEF LeastOf
  <2>2. (c[1] + 1 - n[1]) * (Byte - 2) = (c[1] - n[1]) * (Byte - 2) + (Byte - 2)
    <3>1. \A x, y, z \in Int : (x + 1 - y) * z = (x - y) * z + z
      OBVIOUS
    <3>2. c[1] \in Int /\ n[1] \in Int /\ Byte - 2 \in Int
      BY <1>2, <1>3
    <3> QED
      BY <3>1, <3>2
  <2>3. HostsUpTo(e, n) = Len(ips)
    BY <1>2, <1>3, <1>7, <1>8, <1>10, <2>1, <2>2
  <2> QED
    BY <1>10, <2>3 DEF n
<1> QED
  BY <1>6, <1>9, <1>10

LEMMA GenerateListing ==
  ASSUME IInv, Listing, GenerateIP
  PROVE  Listing'
<1> DEFINE n == Mask(cidr.ip)
           e == Inc(cursor)
           host == IPNetContains(e) /\ e[2] \notin {0, Byte - 1}
<1>1. cidr \in Networks /\ cursor \in Address /\ ips \in Seq(Address) /\ probe = "generate"
  BY DEF IInv, ProbeTypeOK, GenerateIP
<1>2. /\ IPNetContains(cursor)
      /\ Range(ips) \subseteq Hosts
      /\ \A i, j \in DOMAIN ips : i < j => Before(ips[i], ips[j])
      /\ \A i \in DOMAIN ips : ~Before(cursor, ips[i])
      /\ \A a \in Hosts : ~Before(cursor, a) => a \in Range(ips)
      /\ cidr.mask[2] = Byte => Len(ips) = HostsUpTo(cursor, n)
  BY <1>1 DEF Listing
<1>3. /\ cursor' = e /\ cidr' = cidr
      /\ ips' = IF host THEN Append(ips, e) ELSE ips
      /\ probe' = "generate" => IPNetContains(e) /\ ~(Len(ips') >= MaxHosts)
      /\ probe' \in {"generate", "spawn", "failed"}
      /\ probe' = "spawn" => ~IPNetContains(e) \/ Len(ips') >= MaxHosts
  BY DEF GenerateIP
<1>4. e \in Address
  BY <1>1, IncOK
<1>5. /\ IPNetContains(e) =>
           /\ Before(cursor, e) /\ e # n
           /\ \A a \in Address : Before(cursor, a) => a = e \/ Before(e, a)
      /\ ~IPNetContains(e) => \A a \in Address : IPNetContains(a) => ~Before(cursor, a)
  BY <1>1, <1>2, NoWrap, Successor
<1>6. Hosts' = Hosts /\ Mask(cidr.ip)' = n /\ IPNetContains(cursor)' = IPNetContains(e)
  BY <1>3 DEF Hosts, IPNetContains, Mask
<1>7. Hosts \subseteq Address /\ \A a \in Hosts : IPNetContains(a) /\ a[2] \notin {0, Byte - 1}
  BY DEF Hosts
<1>8. host => e \in Hosts
  BY <1>4, <1>5 DEF Hosts
<1>9. /\ DOMAIN ips = 1..Len(ips) /\ Len(ips) \in Nat
      /\ \A i \in DOMAIN ips : ips[i] \in Address
  BY <1>1, LenProperties, ElementOfSeq
<1>10. Len(ips) < MaxHosts /\ MaxHosts \in Nat
  BY <1>1, ProbeAssumption DEF IInv, Room
<1> HIDE DEF n, e, host
<1>11. ASSUME host
       PROVE  /\ Len(ips') = Len(ips) + 1 /\ ips'[Len(ips) + 1] = e
              /\ DOMAIN ips' = DOMAIN ips \cup {Len(ips) + 1}
              /\ \A i \in DOMAIN ips : ips'[i] = ips[i] /\ i < Len(ips) + 1
  <2>1. ips' = Append(ips, e)
    BY <1>3, <1>11
  <2> QED
    BY <1>1, <1>4, <2>1, Appended
<1>12. /\ \A i \in DOMAIN ips : Before(cursor, e) => Before(ips[i], e) /\ ~Before(e, ips[i])
       /\ ~Before(e, e)
  <2>1. ASSUME NEW i \in DOMAIN ips, Before(cursor, e)
        PROVE  Before(ips[i], e) /\ ~Before(e, ips[i])
    <3>1. ~Before(cursor, ips[i]) /\ ips[i] \in Address
      BY <1>2, <1>9
    <3>2. ips[i] = cursor \/ Before(ips[i], cursor)
      BY <1>1, <3>1, Ordered
    <3>3. Before(ips[i], e)
      BY <1>1, <1>4, <2>1, <3>1, <3>2, Ordered
    <3> QED
      BY <1>4, <3>1, <3>3, Ordered
  <2> QED
    BY <1>4, <2>1, Ordered
<1>13. Range(ips') = IF host THEN Range(ips) \cup {e} ELSE Range(ips)
  <2>1. CASE host
    <3>1. \A i \in DOMAIN ips : ips'[i] = ips[i]
      BY <1>11, <2>1
    <3>2. DOMAIN ips' = DOMAIN ips \cup {Len(ips) + 1} /\ ips'[Len(ips) + 1] = e
      BY <1>11, <2>1
    <3>3. {ips'[i] : i \in DOMAIN ips'} = {ips[i] : i \in DOMAIN ips} \cup {e}
      BY <3>1, <3>2
    <3> QED
      BY <2>1, <3>3 DEF Range
  <2>2. CASE ~host
    BY <1>3, <2>2
  <2> QED
    BY <2>1, <2>2
<1>14. Range(ips') \subseteq Hosts'
  BY <1>2, <1>6, <1>8, <1>13
<1>15. \A i, j \in DOMAIN ips' : i < j => Before(ips'[i], ips'[j])
  <2>1. CASE host
    <3> SUFFICES ASSUME NEW i \in DOMAIN ips', NEW j \in DOMAIN ips', i < j
                 PROVE  Before(ips'[i], ips'[j])
      OBVIOUS
    <3>1. Before(cursor, e)
      BY <1>5, <2>1 DEF host
    <3>2. i \in DOMAIN ips
      BY <1>9, <1>11, <2>1
    <3>3. CASE j \in DOMAIN ips
      BY <1>2, <1>11, <2>1, <3>2, <3>3
    <3>4. CASE j = Len(ips) + 1
      BY <1>11, <1>12, <2>1, <3>1, <3>2, <3>4
    <3> QED
      BY <1>11, <2>1, <3>3, <3>4
  <2>2. CASE ~host
    BY <1>2, <1>3, <2>2
  <2> QED
    BY <2>1, <2>2
(* Every host up to the next address is listed. *)
<1>16. ASSUME NEW a \in Hosts, ~Before(e, a), IPNetContains(e) PROVE a \in Range(ips')
  <2>1. CASE Before(cursor, a)
    <3>1. a = e
      BY <1>5, <1>7, <1>16, <2>1
    <3>2. host
      BY <1>7, <1>16, <3>1 DEF host
    <3> QED
      BY <1>13, <3>1, <3>2
  <2>2. CASE ~Before(cursor, a)
    BY <1>2, <1>13, <2>2
  <2> QED
    BY <2>1, <2>2
<1>17. ASSUME probe' = "generate"
       PROVE  /\ IPNetContains(cursor)'
              /\ \A i \in DOMAIN ips' : ~Before(e, ips'[i])
              /\ \A a \in Hosts : ~Before(e, a) => a \in Range(ips')
              /\ cidr.mask[2] = Byte => Len(ips') = HostsUpTo(e, n)
  <2>1. IPNetContains(e) /\ Before(cursor, e)
    BY <1>3, <1>5, <1>17
  <2>2. \A i \in DOMAIN ips' : ~Before(e, ips'[i])
    <3>1. CASE host
      BY <1>11, <1>12, <2>1, <3>1
    <3>2. CASE ~host
      BY <1>3, <1>12, <2>1, <3>2
    <3> QED
      BY <3>1, <3>2
  <2>3. ASSUME cidr.mask[2] = Byte PROVE Len(ips') = HostsUpTo(e, n)
    <3>1. HostsUpTo(e, n) = IF e[2] \in {0, Byte - 1} THEN Len(ips) ELSE Len(ips) + 1
      BY <1>1, <2>1, <2>3, HostsUpToNext DEF e, n
    <3>2. host <=> e[2] \notin {0, Byte - 1}
      BY <2>1 DEF host
    <3> QED
      BY <1>3, <1>11, <3>1, <3>2
  <2> QED
    BY <1>6, <1>16, <2>1, <2>2, <2>3
<1>18. ASSUME probe' = "spawn", NEW a \in Hosts, a \notin Range(ips')
       PROVE  Len(ips') = MaxHosts /\ Before(ips'[MaxHosts], a)
  <2>1. IPNetContains(e)
    <3> SUFFICES ASSUME ~IPNetContains(e) PROVE FALSE
      OBVIOUS
    <3>1. ~Before(cursor, a)
      BY <1>5, <1>7
    <3> QED
      BY <1>2, <1>13, <1>18, <3>1
  <2>2. Len(ips') >= MaxHosts
    BY <1>3, <1>18, <2>1
  <2>3. host
    BY <1>3, <1>9, <1>10, <2>2
  <2>4. Len(ips') = MaxHosts /\ ips'[MaxHosts] = e
    BY <1>9, <1>10, <1>11, <2>2, <2>3
  <2>5. Before(e, a)
    BY <1>16, <1>18, <2>1
  <2> QED
    BY <2>4, <2>5
<1>19. probe' # "parse" /\ probe' # "returned"
  BY <1>3
<1>20. cidr' = cidr /\ cursor' = e /\ Hosts' = Hosts /\ Mask(cidr.ip)' = n
  BY <1>3, <1>6
<1> QED
  BY <1>14, <1>15, <1>17, <1>18, <1>19, <1>20 DEF Listing

(* From then on the list does not change. *)
LEMMA NextListing == IInv /\ Listing /\ [ProbeNext]_probeVars => Listing'
<1> SUFFICES ASSUME IInv, Listing, [ProbeNext]_probeVars PROVE Listing'
  OBVIOUS
<1>1. CASE ParseCIDR
  BY <1>1, ParseListing
<1>2. CASE GenerateIP
  BY <1>2, GenerateListing
<1>3. ASSUME UNCHANGED listVars,
             probe' = probe \/ (probe = "spawn" /\ probe' = "returned")
      PROVE  Listing'
  <2>1. cidr' = cidr /\ cursor' = cursor /\ ips' = ips
    BY <1>3 DEF listVars
  <2>2. Hosts' = Hosts /\ IPNetContains(cursor)' = IPNetContains(cursor)
        /\ Mask(cidr.ip)' = Mask(cidr.ip)
    BY <2>1 DEF Hosts, IPNetContains, Mask
  <2> QED
    BY <1>3, <2>1, <2>2 DEF Listing
<1>4. CASE Spawn \/ Wait \/ UNCHANGED probeVars
  BY <1>3, <1>4 DEF Spawn, Wait, probeVars
<1>5. ASSUME NEW w \in Workers, Probing(w) PROVE Listing'
  BY <1>3, <1>5 DEF Probing, Dial, LockFound, AppendFound, Release, Done
<1> QED
  BY <1>1, <1>2, <1>4, <1>5 DEF ProbeNext, ProbeMain

LEMMA InitProbe == ProbeInit => ProbeInv
BY InitIInv, InitListing DEF ProbeInv

LEMMA NextProbe == ProbeInv /\ [ProbeNext]_probeVars => ProbeInv'
BY NextIInv, NextListing DEF ProbeInv

(* Hosts that are listed in order are listed once. *)
LEMMA Distinct ==
  ASSUME Listing, ips \in Seq(Address), NEW v \in DOMAIN ips, NEW w \in DOMAIN ips,
         ips[v] = ips[w]
  PROVE  v = w
<1>1. v \in Nat /\ w \in Nat
  BY LenProperties
<1>2. ips[v] \in Address
  OBVIOUS
<1>3. ~Before(ips[v], ips[v])
  BY <1>2, ProbeAssumption DEF Before, Address, Octet
<1> QED
  BY <1>1, <1>3 DEF Listing

(* What the invariant says once main has waited: nobody runs, so all counters *)
(* are zero, every goroutine that could dial is past its append, and the hosts   *)
(* of different goroutines differ.                                             *)
LEMMA InvComplete == ProbeInv => ProbeComplete
<1> SUFFICES ASSUME ProbeInv PROVE ProbeComplete
  OBVIOUS
<1>1. ProbeTypeOK /\ Pool /\ Lock /\ Collecting /\ Listing
  BY DEF ProbeInv, IInv
<1>2. Cardinality(Active) <= Permits
  BY <1>1 DEF Pool
<1>3. ASSUME probe = "returned"
      PROVE  /\ \A w \in Workers : worker[w] = IF w <= Len(ips) THEN "done" ELSE "none"
             /\ sem = 0 /\ ~foundLock
             /\ Len(found) = Cardinality(Range(found))
             /\ {ips[w] : w \in answered} \subseteq Range(found)
             /\ Range(found) \subseteq {ips[w] : w \in sent}
  <2>1. spawned = Len(ips) /\ Cardinality(Running) = 0
    BY <1>1, <1>3 DEF Pool
  <2>2. Running = {}
    <3>1. IsFiniteSet(Running)
      BY FiniteWorkers DEF Running
    <3> QED
      BY <2>1, <3>1, FS_EmptySet
  <2>3. \A w \in Workers : worker[w] \in {"none", "done"}
    BY <2>2 DEF Running
  <2>4. \A w \in Workers : worker[w] = IF w <= Len(ips) THEN "done" ELSE "none"
    <3>1. ips \in Seq(Address)
      BY <1>1 DEF ProbeTypeOK
    <3>2. \A w \in Workers : w > Len(ips) <=> ~(w <= Len(ips))
      BY <3>1, LenProperties DEF Workers
    <3> QED
      BY <1>1, <2>1, <2>3, <3>2 DEF Pool
  <2>5. Active = {}
    BY <2>3 DEF Active
  <2>6. sem = 0
    BY <1>1, <2>5, FS_EmptySet DEF Pool
  <2>7. ~foundLock
    BY <1>1, <2>3 DEF Lock
  <2>8. Collected = sent
    BY <1>1, <2>3 DEF Collected, ProbeTypeOK
  <2>9. Len(found) = Cardinality(sent) /\ Range(found) = {ips[w] : w \in sent}
    BY <1>1, <2>8 DEF Collecting
  <2>10. answered \subseteq sent /\ sent \subseteq Workers
    BY <1>1 DEF ProbeTypeOK
  <2>11. Cardinality(Range(found)) = Cardinality(sent)
    <3>1. IsFiniteSet(sent)
      BY <2>10, FiniteWorkers
    <3>2. sent \subseteq DOMAIN ips
      BY <1>1, <2>4, <2>10 DEF Collecting, Workers, ProbeTypeOK
    <3>3. \A v, w \in sent : ips[v] = ips[w] => v = w
      <4>1. ips \in Seq(Address) /\ Listing
        BY <1>1 DEF ProbeTypeOK
      <4> QED
        BY <3>2, <4>1, Distinct
    <3> DEFINE host == [w \in sent |-> ips[w]]
    <3>4. host \in Bijection(sent, Range(found))
      <4>1. host \in [sent -> Range(found)]
        BY <2>9
      <4>2. \A v, w \in sent : host[v] = host[w] => v = w
        BY <3>3
      <4>3. \A t \in Range(found) : \E w \in sent : host[w] = t
        BY <2>9
      <4> HIDE DEF host
      <4> QED
        BY <4>1, <4>2, <4>3 DEF Bijection, Injection, Surjection, IsInjective
    <3> QED
      BY <3>1, <3>4, FS_Bijection DEF ExistsBijection
  <2> QED
    BY <2>4, <2>6, <2>7, <2>9, <2>10, <2>11
<1> QED
  BY <1>2, <1>3 DEF ProbeComplete, Active
------------------------------------------------------------------------------
(* Every variable of ProbeSubnet keeps its type: the counts never go below zero, *)
(* the cursor is always an address and no list grows past its limit.           *)
THEOREM ProbeTypeCorrect == ProbeSpec => []ProbeTypeOK
<1>1. IInv => ProbeTypeOK
  BY DEF IInv
<1> QED
  BY <1>1, Inductive, PTL

(* For every network, limit and number of permits, and every order in which the *)
(* goroutines dial, lock and finish: no more of them probe than there are      *)
(* permits, and what ProbeSubnet returns has each host that answered, none that  *)
(* could not be dialled, and none twice.                                        *)
THEOREM ResultComplete == ProbeSpec => []ProbeComplete
<1> QED
  BY InvComplete, InitProbe, NextProbe, PTL DEF ProbeSpec

(* For every CIDR and limit: the hosts that are probed are those of the network, *)
(* in ascending order and none twice, also where octets overflow; hosts are left  *)
(* out only beyond the limit.                                                   *)
THEOREM HostsListed == ProbeSpec => []HostsExact
<1>1. ProbeInv => HostsExact
  BY ListingHosts DEF ProbeInv
<1> QED
  BY <1>1, InitProbe, NextProbe, PTL DEF ProbeSpec
==============================================================================
