----------------------------- MODULE SubnetProbe -----------------------------
(***************************************************************************)
(* ProbeSubnet of internal/discovery/subnet_probe.go: main lists the hosts   *)
(* of a network, starts a goroutine for each, as many at a time as sem has   *)
(* permits, and waits for them all.  A goroutine sends an empty datagram to  *)
(* its host and, whether or not anything answers, appends it to found.       *)
(*                                                                         *)
(* An address has two octets, which stand for the four of IPv4: one that is  *)
(* counted up and skipped by value, and one that takes the carry.            *)
(***************************************************************************)
EXTENDS Naturals, Sequences, FiniteSets, Functions

CONSTANTS
  Byte,      \* values of an octet (256)
  Networks,  \* CIDRs to probe
  MaxHosts,  \* maxHosts, 254 in main
  Permits    \* capacity of sem, 20 in the code

Octet   == 0..Byte - 1
Address == Octet \X Octet

(* A CIDR: an address, its mask as how many values of each octet it does not tell *)
(* apart, and whether ParseCIDR accepts it.  A mask is a prefix: it tells no value *)
(* of the last octet apart unless it tells all of the first.                     *)
CIDR == [ip : Address, valid : BOOLEAN,
         mask : {m \in (1..Byte) \X (1..Byte) : m[1] = 1 \/ m[2] = Byte}]

ASSUME ProbeAssumption ==
  /\ Byte \in Nat \ {0, 1}
  /\ Networks \subseteq CIDR
  /\ MaxHosts \in Nat \ {0} /\ Permits \in Nat \ {0}
  /\ MaxHosts <= Byte * (Byte - 2)   \* the hosts of all addresses reach it

VARIABLES
  cidr,       \* the argument
  probe,      \* where ProbeSubnet is
  cursor,     \* ip of generateIPs
  ips,        \* the hosts to probe
  spawned,    \* goroutines started
  worker,     \* where the goroutine of each host is
  wg,         \* the wait group's counter
  sem,        \* permits taken
  foundLock,  \* foundMu is held
  seen,       \* found as the goroutine that appends to it has read it
  found,      \* the result
  sent,       \* history: goroutines whose DialContext succeeded
  answered    \* history: goroutines whose host answered their datagram

listVars  == <<cidr, cursor, ips>>
poolVars  == <<spawned, worker, wg, sem>>
foundVars == <<foundLock, seen, found, sent, answered>>
probeVars == <<probe, listVars, poolVars, foundVars>>

Workers == 1..MaxHosts

ProbeInit ==
  /\ cidr \in Networks
  /\ probe = "parse"
  /\ cursor = cidr.ip
  /\ ips = << >> /\ found = << >> /\ seen = << >>
  /\ spawned = 0 /\ wg = 0 /\ sem = 0
  /\ worker = [w \in Workers |-> "none"]
  /\ foundLock = FALSE
  /\ sent = {} /\ answered = {}

ProbeTypeOK ==
  /\ cidr \in Networks
  /\ probe \in {"parse", "generate", "spawn", "returned", "failed"}
  /\ cursor \in Address
  /\ ips \in Seq(Address) /\ Len(ips) <= MaxHosts
  /\ found \in Seq(Address) /\ seen \in Seq(Address)
  /\ spawned \in 0..Len(ips)
  /\ worker \in [Workers -> {"none", "dialing", "locking", "appending",
                             "releasing", "finishing", "done"}]
  /\ wg \in Nat /\ sem \in Nat
  /\ foundLock \in BOOLEAN
  /\ sent \subseteq Workers /\ answered \subseteq sent

------------------------------------------------------------------------------
(* generateIPs. *)

(* IP.Mask, octet by octet, and IPNet.Contains. *)
Mask(a) == <<a[1] - (a[1] % cidr.mask[1]), a[2] - (a[2] % cidr.mask[2])>>
IPNetContains(a) == Mask(a) = Mask(cidr.ip)

(* Mutant: an octet that overflows does not carry. *)
IncWithoutCarry(a) == <<a[1], (a[2] + 1) % Byte>>

(* Mutant: the first octet does not wrap. *)
IncUnwrapped(a) == IF a[2] < Byte - 1 THEN <<a[1], a[2] + 1>> ELSE <<a[1] + 1, 0>>

(* The last octet first; one that becomes 0 carries. *)
Inc(a) == IF a[2] < Byte - 1 THEN <<a[1], a[2] + 1>>
                             ELSE <<(a[1] + 1) % Byte, 0>>

(* ParseCIDR; the mask clears the bits of the host. *)
ParseCIDR ==
  /\ probe = "parse"
  /\ IF cidr.valid
     THEN /\ probe' = "generate"
          /\ cursor' = Mask(cidr.ip)
     ELSE probe' = "failed" /\ cursor' = cursor
  /\ UNCHANGED <<cidr, ips, poolVars, foundVars>>

(* One turn of the loop: the next address, if it is still in the network, is a   *)
(* host unless it ends like a network or a broadcast address of a /24.          *)
GenerateIP ==
  LET next == Inc(cursor)
      host == IPNetContains(next) /\ next[2] \notin {0, Byte - 1}
      over == ~IPNetContains(next) \/ Len(ips') >= MaxHosts
  IN  /\ probe = "generate"
      /\ cursor' = next
      /\ ips' = IF host THEN Append(ips, next) ELSE ips
      /\ probe' = IF ~over THEN "generate"
                  ELSE IF ips' # << >> THEN "spawn" ELSE "failed"
      /\ UNCHANGED <<cidr, poolVars, foundVars>>

------------------------------------------------------------------------------
(* The loop that starts the goroutines, and what they do. *)

At(w, place) == worker[w] = place
Goes(w, place) == worker' = [worker EXCEPT ![w] = place]

(* wg.Add, a permit, which the loop waits for, and the goroutine. *)
Spawn ==
  /\ probe = "spawn" /\ spawned < Len(ips)
  /\ sem < Permits
  /\ wg' = wg + 1
  /\ sem' = sem + 1
  /\ spawned' = spawned + 1
  /\ Goes(spawned', "dialing")
  /\ UNCHANGED <<probe, listVars, foundVars>>

(* DialContext gets a socket with a route to the host or fails, at the latest    *)
(* after 300 ms.  Then an empty datagram is written; the error of that Write is   *)
(* discarded and nothing is read, so it is the same to the code whether the       *)
(* datagram leaves, and whether the host answers it.                            *)
Dial(w) ==
  /\ At(w, "dialing")
  /\ \/ /\ Goes(w, "locking") /\ sent' = sent \cup {w}
        /\ answered' \in {answered, answered \cup {w}}
     \/ Goes(w, "releasing") /\ UNCHANGED <<sent, answered>>
  /\ UNCHANGED <<probe, listVars, spawned, wg, sem, foundLock, seen, found>>

(* Mutant: the append is not locked. *)
LockFoundNever(w) ==
  /\ At(w, "locking")
  /\ foundLock' = TRUE
  /\ seen' = found
  /\ Goes(w, "appending")
  /\ UNCHANGED <<probe, listVars, spawned, wg, sem, found, sent, answered>>

(* foundMu.Lock, and append reads the slice. *)
LockFound(w) ==
  /\ At(w, "locking") /\ ~foundLock
  /\ foundLock' = TRUE
  /\ seen' = found
  /\ Goes(w, "appending")
  /\ UNCHANGED <<probe, listVars, spawned, wg, sem, found, sent, answered>>

(* The longer slice is assigned, and the lock released. *)
AppendFound(w) ==
  /\ At(w, "appending")
  /\ found' = Append(seen, ips[w])
  /\ seen' = << >>
  /\ foundLock' = FALSE
  /\ Goes(w, "releasing")
  /\ UNCHANGED <<probe, listVars, spawned, wg, sem, sent, answered>>

(* Mutant: the permit is kept. *)
ReleaseNot(w) ==
  /\ At(w, "releasing")
  /\ sem' = sem
  /\ Goes(w, "finishing")
  /\ UNCHANGED <<probe, listVars, spawned, wg, foundVars>>

(* The deferred functions: the permit goes back first, then wg.Done. *)
Release(w) ==
  /\ At(w, "releasing")
  /\ sem' = sem - 1
  /\ Goes(w, "finishing")
  /\ UNCHANGED <<probe, listVars, spawned, wg, foundVars>>

Done(w) ==
  /\ At(w, "finishing")
  /\ wg' = wg - 1
  /\ Goes(w, "done")
  /\ UNCHANGED <<probe, listVars, spawned, sem, foundVars>>

(* wg.Wait and return. *)
Wait ==
  /\ probe = "spawn" /\ spawned = Len(ips)
  /\ wg = 0
  /\ probe' = "returned"
  /\ UNCHANGED <<listVars, poolVars, foundVars>>

ProbeMain == ParseCIDR \/ GenerateIP \/ Spawn \/ Wait
Probing(w) == Dial(w) \/ LockFound(w) \/ AppendFound(w) \/ Release(w) \/ Done(w)

ProbeNext == ProbeMain \/ \E w \in Workers : Probing(w)

ProbeSpec == ProbeInit /\ [][ProbeNext]_probeVars
------------------------------------------------------------------------------
(* Properties. *)

(* The addresses generateIPs may list, and their order. *)
Hosts == {a \in Address : IPNetContains(a) /\ a # Mask(cidr.ip)
                             /\ a[2] \notin {0, Byte - 1}}
Before(a, b) == a[1] < b[1] \/ (a[1] = b[1] /\ a[2] < b[2])

(* The hosts probed are those of the network in ascending order, none twice and  *)
(* none outside it, whatever octets the counting overflows; hosts are left out   *)
(* only beyond the limit.                                                       *)
HostsExact ==
  probe \in {"spawn", "returned"} =>
    /\ Range(ips) \subseteq Hosts
    /\ \A i, j \in DOMAIN ips : i < j => Before(ips[i], ips[j])
    /\ \A a \in Hosts \ Range(ips) :
         Len(ips) = MaxHosts /\ Before(ips[MaxHosts], a)

(* When ProbeSubnet returns, no goroutine still runs, every permit is back, and  *)
(* the result has each host that answered and none that could not be dialled,    *)
(* once, however the goroutines took turns; at no time do more than Permits of    *)
(* them probe.  Whether a host that is silent, or that the datagram did not       *)
(* reach, belongs in the result is left open.                                   *)
ProbeComplete ==
  /\ Cardinality({w \in Workers : worker[w] \notin {"none", "finishing", "done"}})
       <= Permits
  /\ probe = "returned" =>
       /\ \A w \in Workers : worker[w] = IF w <= Len(ips) THEN "done" ELSE "none"
       /\ sem = 0 /\ ~foundLock
       /\ Len(found) = Cardinality(Range(found))
       /\ {ips[w] : w \in answered} \subseteq Range(found)
       /\ Range(found) \subseteq {ips[w] : w \in sent}
==============================================================================
