----------------------------- MODULE PortsProofs -----------------------------
(***************************************************************************)
(* Proofs about the port pools, for any set of devices and any ranges.     *)
(***************************************************************************)
EXTENDS Ports, TLAPS, WellFoundedInduction, FiniteSetTheorems

(* Port ranges hold no 0, the value that says "no port". *)
LEMMA PortRangeNat ==
    \A p \in Pool : PortRange[p] \subseteq Nat /\ 0 \notin PortRange[p]
  BY PortRangeAssumption DEF Pool

(* A nonempty set of numbers has a least member, and Min is it. *)
LEMMA MinIsMember ==
    ASSUME NEW S, S \subseteq Nat, S # {}
    PROVE  Min(S) \in S /\ \A y \in S : Min(S) <= y
<1>. DEFINE Less == {ss \in Nat \X Nat : ss[1] < ss[2]}
<1>1. OpToRel(<, Nat) = Less
  BY Zenon DEF OpToRel
<1>2. IsWellFoundedOn(Less, Nat)
  BY <1>1, NatLessThanWellFounded, Zenon
<1>. HIDE DEF Less
<1>3. \E x \in S : \A y \in S : ~(<<y, x>> \in Less)
  BY <1>2, WFMin
<1>4. PICK x \in S : \A y \in S : <<y, x>> \notin Less
  BY <1>3
<1>5. \A y \in S : x =< y
  <2>1. SUFFICES ASSUME NEW y \in S, ~(x =< y) PROVE FALSE
    OBVIOUS
  <2>2. y \in Nat /\ x \in Nat /\ y < x
    BY <2>1
  <2>3. <<y, x>> \in Less
    BY <2>2 DEF Less
  <2>. QED
    BY <2>3, <1>4
<1>. QED
  BY <1>4, <1>5 DEF Min

(* assign_port answers 0 exactly when the pool is empty, and otherwise a   *)
(* port of the pool.                                                       *)
LEMMA AssignPort ==
    ASSUME NEW S, S \subseteq Nat, 0 \notin S
    PROVE  /\ assign_port(S) \in S \cup {0}
           /\ assign_port(S) = 0 <=> S = {}
           /\ After(S) \subseteq S
           /\ assign_port(S) \notin After(S)
  BY MinIsMember DEF assign_port, After

(* What a new device object is given, and what it leaves in the pools.     *)
LEMMA AssignPorts ==
    ASSUME NEW av \in [Pool -> SUBSET Nat], \A p \in Pool : 0 \notin av[p]
    PROVE  /\ assign_ports(av) \in [Slot -> Nat]
           /\ \A s \in Slot : assign_ports(av)[s] \in av[SlotPool(s)] \cup {0}
           /\ \A s \in Slot : assign_ports(av)[s] \notin Assigned(av)[SlotPool(s)]
           /\ assign_ports(av)["nanoOut"] # 0
                  => assign_ports(av)["nanoIn"] # assign_ports(av)["nanoOut"]
           /\ \A p \in FreedPool : assign_ports(av)[p] = 0 <=> av[p] = {}
           /\ Assigned(av) \in [Pool -> SUBSET Nat]
           /\ \A p \in Pool : Assigned(av)[p] \subseteq av[p]
           /\ \A p \in FreedPool : Assigned(av)[p] = av[p] \ {assign_ports(av)[p]}
<1>. DEFINE dec == av["decode"]
            out == assign_port(dec)
            in  == assign_port(After(dec))
<1>1. /\ dec \subseteq Nat /\ 0 \notin dec
      /\ After(dec) \subseteq Nat /\ 0 \notin After(dec)
  BY AssignPort DEF Pool
<1>2. /\ out \in dec \cup {0} /\ out \notin After(dec)
      /\ in \in After(dec) \cup {0} /\ in \notin After(After(dec))
      /\ After(dec) \subseteq dec /\ After(After(dec)) \subseteq After(dec)
  BY <1>1, AssignPort
<1>3. \A p \in FreedPool : /\ assign_port(av[p]) \in av[p] \cup {0}
                           /\ assign_port(av[p]) = 0 <=> av[p] = {}
                           /\ assign_port(av[p]) \notin After(av[p])
                           /\ After(av[p]) \subseteq av[p]
  BY AssignPort DEF Pool
<1>4. /\ \A p \in FreedPool : /\ assign_ports(av)[p] = assign_port(av[p])
                              /\ Assigned(av)[p] = After(av[p])
                              /\ SlotPool(p) = p
      /\ assign_ports(av)["nanoOut"] = out
      /\ assign_ports(av)["nanoIn"] = in
      /\ Assigned(av)["decode"] = After(After(dec))
      /\ SlotPool("nanoOut") = "decode" /\ SlotPool("nanoIn") = "decode"
  BY DEF assign_ports, Assigned, Slot, Pool, FreedPool, SlotPool
<1>5. \A s \in Slot : assign_ports(av)[s] \in av[SlotPool(s)] \cup {0}
  BY <1>2, <1>3, <1>4 DEF Slot
<1>6. \A s \in Slot : av[SlotPool(s)] \subseteq Nat
  BY <1>4 DEF Slot, Pool
<1>7. assign_ports(av) \in [Slot -> Nat]
  <2>1. assign_ports(av) = [s \in Slot |-> assign_ports(av)[s]]
    BY DEF assign_ports
  <2>2. \A s \in Slot : assign_ports(av)[s] \in Nat
    BY <1>5, <1>6
  <2>. QED
    BY <2>1, <2>2
<1>8. \A s \in Slot : assign_ports(av)[s] \notin Assigned(av)[SlotPool(s)]
  BY <1>2, <1>3, <1>4 DEF Slot
<1>9. \A p \in Pool : Assigned(av)[p] \subseteq av[p]
  BY <1>2, <1>3, <1>4 DEF Pool
<1>10. Assigned(av) \in [Pool -> SUBSET Nat]
  BY <1>9 DEF Assigned
<1>11. \A p \in FreedPool : Assigned(av)[p] = av[p] \ {assign_ports(av)[p]}
  BY <1>4 DEF After
<1>12. out # 0 => in # out
  BY <1>2
<1>. QED
  BY <1>3, <1>4, <1>5, <1>7, <1>8, <1>9, <1>10, <1>11, <1>12
-----------------------------------------------------------------------------
(* The inductive invariant: types, exclusive ports, held ports unavailable,*)
(* and the balance of the five pools.                                      *)
IInv == /\ TypeOK
        /\ ExclusivePorts
        /\ HeldIsTaken
        /\ FreedPoolsBalance

(* The full pools of a new coordinator satisfy the invariant.              *)
LEMMA InitIInv == Init => IInv
<1>. SUFFICES ASSUME Init PROVE IInv
  OBVIOUS
<1>1. TypeOK
  BY PortRangeAssumption DEF Init, construct_ports, NoLease, TypeOK
<1>2. ExclusivePorts /\ HeldIsTaken
  BY DEF Init, ExclusivePorts, HeldIsTaken
<1>3. FreedPoolsBalance
  <2>1. \A p \in FreedPool : Held(p) = {}
    BY DEF Init, Held
  <2>. QED
    BY <2>1 DEF Init, construct_ports, FreedPoolsBalance, Pool
<1>. QED
  BY <1>1, <1>2, <1>3 DEF IInv

(* Facts about the pools that every step starts from. *)
LEMMA AvailFacts ==
    ASSUME TypeOK
    PROVE  /\ avail \in [Pool -> SUBSET Nat]
           /\ \A p \in Pool : 0 \notin avail[p]
           /\ \A p \in Pool : PortRange[p] \subseteq Nat /\ 0 \notin PortRange[p]
           /\ \A s \in Slot : SlotPool(s) \in Pool
           /\ \A p \in FreedPool : p \in Pool /\ p \in Slot /\ SlotPool(p) = p /\ p # "decode"
           /\ \A s \in Slot : SlotPool(s) \in FreedPool => SlotPool(s) = s
           /\ \A s \in Slot : SlotPool(s) = "decode" <=> s \in {"nanoOut", "nanoIn"}
           /\ NoLease \in [Slot -> Nat] /\ \A s \in Slot : NoLease[s] = 0
  BY PortRangeNat DEF TypeOK, Pool, FreedPool, Slot, SlotPool, NoLease

(* Creating a device object preserves the invariant. *)
LEMMA CreateIInv ==
    ASSUME IInv, NEW d \in Device, d \notin running,
           avail' = Assigned(avail),
           running' = running \cup {d},
           lease' = [lease EXCEPT ![d] = assign_ports(avail)],
           panicked' \in BOOLEAN, created' \in Nat, serial' \in [Device -> Nat], peak' \in Nat
    PROVE  IInv'
<1>. DEFINE l == assign_ports(avail)
            a == Assigned(avail)
<1>1. TypeOK /\ ExclusivePorts /\ HeldIsTaken /\ FreedPoolsBalance
  BY DEF IInv
<1>2. /\ l \in [Slot -> Nat]
      /\ \A s \in Slot : l[s] \in avail[SlotPool(s)] \cup {0}
      /\ \A s \in Slot : l[s] \notin a[SlotPool(s)]
      /\ l["nanoOut"] # 0 => l["nanoIn"] # l["nanoOut"]
      /\ a \in [Pool -> SUBSET Nat]
      /\ \A p \in Pool : a[p] \subseteq avail[p]
      /\ \A p \in FreedPool : a[p] = avail[p] \ {l[p]}
  BY <1>1, AvailFacts, AssignPorts
<1>. HIDE DEF l, a
<1>3. /\ lease' \in [Device -> [Slot -> Nat]]
      /\ lease'[d] = l
      /\ \A e \in Device : e # d => lease'[e] = lease[e]
      /\ avail' = a
      /\ running \subseteq Device
      /\ \A e \in running : e \in Device /\ e # d
  BY <1>1, <1>2 DEF TypeOK, l, a
<1>4. \A p \in Pool : avail[p] \subseteq PortRange[p]
  BY <1>1 DEF TypeOK
<1>5. TypeOK'
  <2>1. \A e \in Device, s \in Slot : lease'[e][s] \in PortRange[SlotPool(s)] \cup {0}
    BY <1>1, <1>2, <1>3, <1>4, AvailFacts DEF TypeOK
  <2>2. \A p \in Pool : avail'[p] \subseteq PortRange[p]
    BY <1>2, <1>3, <1>4
  <2>. QED
    BY <2>1, <2>2, <1>2, <1>3, <1>1 DEF TypeOK
<1>6. HeldIsTaken'
  <2>1. ASSUME NEW e \in running', NEW s \in Slot
        PROVE  lease'[e][s] \notin avail'[SlotPool(s)]
    <3>1. CASE e = d
      BY <3>1, <1>2, <1>3
    <3>2. CASE e # d
      BY <3>2, <1>1, <1>2, <1>3, AvailFacts DEF HeldIsTaken
    <3>. QED
      BY <3>1, <3>2
  <2>. QED
    BY <2>1 DEF HeldIsTaken
<1>7. ExclusivePorts'
  <2>1. ASSUME NEW e \in running', NEW f \in running', NEW s \in Slot, NEW t \in Slot,
               <<e, s>> # <<f, t>>, SlotPool(s) = SlotPool(t), lease'[e][s] # 0
        PROVE  lease'[e][s] # lease'[f][t]
    <3>1. CASE e = d /\ f = d
      <4>1. s # t
        BY <2>1, <3>1
      <4>2. s \in {"nanoOut", "nanoIn"} /\ t \in {"nanoOut", "nanoIn"}
        BY <4>1, <2>1 DEF Slot, SlotPool, FreedPool
      <4>. QED
        BY <4>1, <4>2, <3>1, <2>1, <1>2, <1>3
    <3>2. CASE e = d /\ f # d
      <4>1. l[s] \in avail[SlotPool(t)]
        BY <3>2, <2>1, <1>2, <1>3
      <4>2. lease[f][t] \notin avail[SlotPool(t)]
        BY <3>2, <1>1 DEF HeldIsTaken
      <4>. QED
        BY <4>1, <4>2, <3>2, <1>3
    <3>3. CASE e # d /\ f = d
      <4>1. lease[e][s] \notin avail[SlotPool(s)] /\ lease[e][s] # 0
        BY <3>3, <2>1, <1>1, <1>3 DEF HeldIsTaken
      <4>2. l[t] \in avail[SlotPool(s)] \cup {0}
        BY <2>1, <1>2
      <4>. QED
        BY <4>1, <4>2, <3>3, <1>3
    <3>4. CASE e # d /\ f # d
      BY <3>4, <2>1, <1>1, <1>3 DEF ExclusivePorts
    <3>. QED
      BY <3>1, <3>2, <3>3, <3>4
  <2>. QED
    BY <2>1 DEF ExclusivePorts
<1>8. FreedPoolsBalance'
  <2>1. ASSUME NEW p \in FreedPool
        PROVE  avail'[p] = PortRange[p] \ Held(p)'
    <3>1. Held(p)' = Held(p) \cup ({l[p]} \ {0})
      BY <1>3 DEF Held
    <3>2. avail[p] = PortRange[p] \ Held(p) /\ 0 \notin PortRange[p]
      BY <1>1, AvailFacts DEF FreedPoolsBalance
    <3>. QED
      BY <3>1, <3>2, <1>2, <1>3
  <2>. QED
    BY <2>1 DEF FreedPoolsBalance
<1>. QED
  BY <1>5, <1>6, <1>7, <1>8 DEF IInv

(* Closing a device object preserves the invariant, when every port it     *)
(* gives back is a port of its pool.                                       *)
LEMMA CloseIInv ==
    ASSUME IInv, NEW d \in running, ~NilPortItem(lease[d]),
           avail' = free_ports(avail, lease[d]),
           running' = running \ {d},
           lease' = [lease EXCEPT ![d] = NoLease],
           panicked' \in BOOLEAN, created' \in Nat, serial' \in [Device -> Nat], peak' \in Nat
    PROVE  IInv'
<1>1. TypeOK /\ ExclusivePorts /\ HeldIsTaken /\ FreedPoolsBalance
  BY DEF IInv
<1>2. /\ d \in Device /\ running \subseteq Device
      /\ lease \in [Device -> [Slot -> Nat]]
      /\ lease' \in [Device -> [Slot -> Nat]]
      /\ lease'[d] = NoLease
      /\ \A e \in Device : e # d => lease'[e] = lease[e]
  BY <1>1, AvailFacts DEF TypeOK
<1>3. \A p \in FreedPool : lease[d][p] \in PortRange[p] /\ lease[d][p] # 0
  BY <1>1, AvailFacts DEF NilPortItem
<1>4. /\ \A p \in FreedPool : avail'[p] = avail[p] \cup {lease[d][p]}
      /\ avail'["decode"] = avail["decode"]
      /\ avail' \in [Pool -> SUBSET Nat]
      /\ \A p \in Pool : avail'[p] \subseteq PortRange[p]
  <2>1. /\ \A p \in FreedPool : avail'[p] = avail[p] \cup {lease[d][p]}
        /\ avail'["decode"] = avail["decode"]
    BY DEF free_ports, Pool, FreedPool
  <2>2. \A p \in Pool : avail'[p] \subseteq PortRange[p]
    BY <2>1, <1>1, <1>3 DEF TypeOK, Pool
  <2>3. avail' = [p \in Pool |-> avail'[p]]
    BY DEF free_ports
  <2>4. \A p \in Pool : avail'[p] \subseteq Nat
    BY <2>2, <1>1, AvailFacts
  <2>. QED
    BY <2>1, <2>2, <2>3, <2>4
<1>5. TypeOK'
  <2>1. \A e \in Device, s \in Slot : lease'[e][s] \in PortRange[SlotPool(s)] \cup {0}
    BY <1>1, <1>2, AvailFacts DEF TypeOK
  <2>. QED
    BY <2>1, <1>2, <1>4 DEF TypeOK
<1>6. HeldIsTaken'
  <2>1. ASSUME NEW e \in running', NEW s \in Slot
        PROVE  lease'[e][s] \notin avail'[SlotPool(s)]
    <3>1. e \in running /\ e # d /\ lease'[e] = lease[e] /\ lease[e][s] \notin avail[SlotPool(s)]
      BY <1>1, <1>2 DEF HeldIsTaken
    <3>2. CASE SlotPool(s) = "decode"
      BY <3>1, <3>2, <1>4
    <3>3. CASE SlotPool(s) # "decode"
      <4>1. s \in FreedPool /\ SlotPool(s) = s
        BY <3>3, AvailFacts, <1>1 DEF Slot
      <4>2. lease[d][s] # lease[e][s]
        BY <4>1, <3>1, <1>1, <1>3 DEF ExclusivePorts
      <4>. QED
        BY <4>1, <4>2, <3>1, <1>4
    <3>. QED
      BY <3>2, <3>3
  <2>. QED
    BY <2>1 DEF HeldIsTaken
<1>7. ExclusivePorts'
  BY <1>1, <1>2 DEF ExclusivePorts
<1>8. FreedPoolsBalance'
  <2>1. ASSUME NEW p \in FreedPool
        PROVE  avail'[p] = PortRange[p] \ Held(p)'
    <3>1. p \in Slot /\ SlotPool(p) = p
      BY <1>1, AvailFacts
    <3>2. \A e \in running : e # d => lease[e][p] # lease[d][p]
      BY <3>1, <1>1, <1>3 DEF ExclusivePorts
    <3>3. Held(p)' = Held(p) \ {lease[d][p]}
      BY <3>2, <1>2 DEF Held
    <3>4. avail[p] = PortRange[p] \ Held(p)
      BY <1>1 DEF FreedPoolsBalance
    <3>. QED
      BY <3>3, <3>4, <1>3, <1>4
  <2>. QED
    BY <2>1 DEF FreedPoolsBalance
<1>. QED
  BY <1>5, <1>6, <1>7, <1>8 DEF IInv

(* Giving back what was just assigned leaves the five pools as they were   *)
(* and the decode pool no larger.                                          *)
LEMMA AssignThenFree ==
    ASSUME IInv, ~NilPortItem(assign_ports(avail)),
           avail' = free_ports(Assigned(avail), assign_ports(avail)),
           UNCHANGED <<running, lease, panicked, serial>>,
           created' \in Nat, peak' \in Nat
    PROVE  IInv'
<1>. DEFINE l == assign_ports(avail)
            a == Assigned(avail)
<1>1. TypeOK /\ ExclusivePorts /\ HeldIsTaken /\ FreedPoolsBalance
  BY DEF IInv
<1>2. /\ \A s \in Slot : l[s] \in avail[SlotPool(s)] \cup {0}
      /\ \A p \in Pool : a[p] \subseteq avail[p]
      /\ \A p \in FreedPool : a[p] = avail[p] \ {l[p]}
  BY <1>1, AvailFacts, AssignPorts
<1>3. \A p \in FreedPool : l[p] \in avail[p]
  BY <1>1, <1>2, AvailFacts DEF NilPortItem
<1>4. avail' = [p \in Pool |-> IF p = "decode" THEN a[p] ELSE a[p] \cup {l[p]}]
  BY DEF free_ports
<1>. HIDE DEF l, a
<1>5. \A p \in FreedPool : avail'[p] = avail[p]
  <2>1. ASSUME NEW p \in FreedPool
        PROVE  avail'[p] = avail[p]
    <3>1. p \in Pool /\ p # "decode"
      BY <1>1, AvailFacts
    <3>2. avail'[p] = a[p] \cup {l[p]}
      BY <3>1, <1>4
    <3>. QED
      BY <3>2, <1>2, <1>3
  <2>. QED
    BY <2>1
<1>6. \A p \in Pool : avail'[p] \subseteq avail[p]
  BY <1>2, <1>4, <1>5 DEF Pool
<1>7. avail' \in [Pool -> SUBSET Nat]
  <2>1. \A p \in Pool : avail'[p] \subseteq Nat
    BY <1>6, <1>1, AvailFacts
  <2>. QED
    BY <2>1, <1>4
<1>8. TypeOK'
  BY <1>1, <1>6, <1>7 DEF TypeOK
<1>9. HeldIsTaken' /\ ExclusivePorts'
  BY <1>1, <1>6, AvailFacts DEF HeldIsTaken, ExclusivePorts
<1>10. FreedPoolsBalance'
  BY <1>1, <1>5 DEF FreedPoolsBalance, Held
<1>. QED
  BY <1>8, <1>9, <1>10 DEF IInv

(* The counters of device objects stay numbers.                            *)
LEMMA CountersTyped ==
    ASSUME TypeOK, NEW d \in Device
    PROVE  /\ created + 1 \in Nat
           /\ [serial EXCEPT ![d] = created + 1] \in [Device -> Nat]
           /\ [serial EXCEPT ![d] = 0] \in [Device -> Nat]
           /\ Cardinality(running) \in Nat
           /\ Larger(peak, Cardinality(running) + 1) \in Nat
           /\ Larger(peak, Cardinality(running) + 1) >= peak
           /\ Larger(peak, Cardinality(running) + 1) >= Cardinality(running) + 1
<1>1. Cardinality(running) \in Nat
  BY DeviceAssumption, FS_Subset, FS_CardinalityType DEF TypeOK
<1>. QED
  BY <1>1 DEF TypeOK, Larger

(* Every step of the event loop, and a relaunch, preserves the invariant.  *)
LEMMA NextIInv == IInv /\ [Next]_vars => IInv'
<1>. SUFFICES ASSUME IInv, [Next]_vars PROVE IInv'
  OBVIOUS
<1>1. TypeOK
  BY DEF IInv
<1>2. ASSUME NEW d \in Device, NewRunningDev(d) PROVE IInv'
  <2>1. /\ panicked' \in BOOLEAN /\ created' \in Nat
        /\ serial' \in [Device -> Nat] /\ peak' \in Nat
    BY <1>1, <1>2, CountersTyped DEF NewRunningDev, TypeOK
  <2>. QED
    BY <1>2, <2>1, CreateIInv DEF NewRunningDev
<1>3. ASSUME NEW d \in Device, closeRunningDev(d) PROVE IInv'
  <2>1. CASE NilPortItem(lease[d])
    <3>1. /\ UNCHANGED <<avail, running, lease, serial, created, peak>>
          /\ panicked' \in BOOLEAN
      BY <1>3, <2>1 DEF closeRunningDev
    <3>. QED
      BY <3>1 DEF IInv, TypeOK, ExclusivePorts, HeldIsTaken, FreedPoolsBalance, Held
  <2>2. CASE ~NilPortItem(lease[d])
    <3>1. /\ panicked' \in BOOLEAN /\ created' \in Nat
          /\ serial' \in [Device -> Nat] /\ peak' \in Nat
      BY <1>1, <1>3, <2>2, CountersTyped DEF closeRunningDev, TypeOK
    <3>. QED
      BY <1>3, <2>2, <3>1, CloseIInv DEF closeRunningDev
  <2>. QED
    BY <2>1, <2>2
<1>4. ASSUME NEW d \in Device, CloseUnknown(d) PROVE IInv'
  <2>1. created' \in Nat /\ peak' \in Nat
    BY <1>1, <1>4, CountersTyped DEF CloseUnknown
  <2>2. CASE NilPortItem(assign_ports(avail))
    <3>1. panicked' \in BOOLEAN /\ serial' \in [Device -> Nat]
      BY <1>1, <1>4, <2>2, CountersTyped DEF CloseUnknown
    <3>. QED
      BY <1>4, <2>1, <2>2, <3>1, CreateIInv DEF CloseUnknown
  <2>3. CASE ~NilPortItem(assign_ports(avail))
    BY <1>4, <2>1, <2>3, AssignThenFree DEF CloseUnknown
  <2>. QED
    BY <2>2, <2>3
<1>5. CASE Relaunch
  <2>1. TypeOK'
    BY <1>5, PortRangeAssumption DEF Relaunch, construct_ports, NoLease, TypeOK
  <2>2. ExclusivePorts' /\ HeldIsTaken'
    BY <1>5 DEF Relaunch, ExclusivePorts, HeldIsTaken
  <2>3. \A p \in FreedPool : Held(p)' = {}
    BY <1>5 DEF Relaunch, Held
  <2>4. FreedPoolsBalance'
    BY <1>5, <2>3 DEF Relaunch, construct_ports, FreedPoolsBalance, Pool
  <2>. QED
    BY <2>1, <2>2, <2>4 DEF IInv
<1>6. CASE UNCHANGED vars
  BY <1>6 DEF vars, IInv, TypeOK, ExclusivePorts, HeldIsTaken, FreedPoolsBalance, Held
<1>. QED
  BY <1>2, <1>3, <1>4, <1>5, <1>6 DEF Next

(* The pools, leases and counters keep their types in every behaviour.     *)
THEOREM TypeCorrect == Spec => []TypeOK
<1>1. IInv => TypeOK
  BY DEF IInv
<1>. QED
  BY InitIInv, NextIInv, <1>1, PTL DEF Spec

(* No port is ever in the hands of two running devices, and no device uses *)
(* one decode port twice, whatever the ranges and the order of events.     *)
THEOREM PortsExclusive == Spec => []ExclusivePorts
<1>1. IInv => ExclusivePorts
  BY DEF IInv
<1>. QED
  BY InitIInv, NextIInv, <1>1, PTL DEF Spec

(* The five pools that are given back never leak and never lend twice.     *)
THEOREM FreedPoolsNeverLeak == Spec => []FreedPoolsBalance
<1>1. IInv => FreedPoolsBalance
  BY DEF IInv
<1>. QED
  BY InitIInv, NextIInv, <1>1, PTL DEF Spec
-----------------------------------------------------------------------------
(* Panics. *)

(* An exhausted pool is in the hands of as many devices as it has ports.   *)
LEMMA ExhaustedPool ==
    ASSUME IInv, NEW p \in FreedPool, avail[p] = {}
    PROVE  Cardinality(PortRange[p]) <= Cardinality(running)
<1>. DEFINE image == {lease[d][p] : d \in running}
            f == [d \in running |-> lease[d][p]]
<1>1. IsFiniteSet(running)
  BY DeviceAssumption, FS_Subset DEF IInv, TypeOK
<1>2. f \in Surjection(running, image)
  BY DEF Surjection
<1>3. IsFiniteSet(image) /\ Cardinality(image) <= Cardinality(running)
  <2>. HIDE DEF f, image
  <2>. QED
    BY <1>1, <1>2, FS_Surjection
<1>4. PortRange[p] \subseteq image
  BY DEF IInv, FreedPoolsBalance, Held
<1>5. /\ Cardinality(PortRange[p]) <= Cardinality(image)
      /\ Cardinality(image) \in Nat /\ Cardinality(running) \in Nat
      /\ Cardinality(PortRange[p]) \in Nat
  <2>. HIDE DEF image
  <2>. QED
    BY <1>1, <1>3, <1>4, FS_Subset, FS_CardinalityType
<1>. QED
  BY <1>3, <1>5

(* A device object with a nil PortItem has port 0 in one of the pools. *)
LEMMA NilIsZero ==
    ASSUME TypeOK, NEW d \in Device, NilPortItem(lease[d])
    PROVE  \E p \in FreedPool : lease[d][p] = 0
  BY AvailFacts DEF TypeOK, NilPortItem

(* A device object gets port 0 of a pool only when as many devices as the  *)
(* pool has ports are running already.                                     *)
LEMMA CreateOversubscribed ==
    ASSUME IInv, OversubscribedWhenZero, NEW d \in Device, d \notin running, ~panicked,
           running' = running \cup {d},
           lease' = [lease EXCEPT ![d] = assign_ports(avail)],
           peak' = Larger(peak, Cardinality(running) + 1)
    PROVE  /\ (peak >= Cardinality(running))'
           /\ \A e \in running', p \in FreedPool :
                 lease'[e][p] = 0 => peak' > Cardinality(PortRange[p])
<1>1. TypeOK
  BY DEF IInv
<1>2. /\ Cardinality(running) \in Nat /\ peak \in Nat /\ peak' \in Nat
      /\ peak' >= peak /\ peak' >= Cardinality(running) + 1
  BY <1>1, CountersTyped DEF TypeOK
<1>3. Cardinality(running') = Cardinality(running) + 1
  BY <1>1, DeviceAssumption, FS_Subset, FS_AddElement DEF TypeOK
<1>4. ASSUME NEW e \in running', NEW p \in FreedPool, lease'[e][p] = 0
      PROVE  peak' > Cardinality(PortRange[p])
  <2>1. Cardinality(PortRange[p]) \in Nat
    BY PortRangeAssumption, FS_CardinalityType DEF Pool
  <2>2. CASE e = d
    <3>1. assign_ports(avail)[p] = 0
      BY <1>1, <1>4, <2>2 DEF TypeOK
    <3>2. avail[p] = {}
      BY <1>1, <3>1, AvailFacts, AssignPorts
    <3>. QED
      BY <3>2, <2>1, <1>2, ExhaustedPool
  <2>3. CASE e # d
    <3>1. e \in running /\ lease[e][p] = 0
      BY <1>1, <1>4, <2>3 DEF TypeOK
    <3>. QED
      BY <3>1, <2>1, <1>2 DEF OversubscribedWhenZero
  <2>. QED
    BY <2>2, <2>3
<1>. QED
  BY <1>2, <1>3, <1>4

(* Every step keeps the account of how pools came to be oversubscribed.    *)
LEMMA NextOversubscribed ==
    IInv /\ OversubscribedWhenZero /\ [Next]_vars => OversubscribedWhenZero'
<1>. SUFFICES ASSUME IInv, OversubscribedWhenZero, [Next]_vars
              PROVE  OversubscribedWhenZero'
  OBVIOUS
<1>1. TypeOK
  BY DEF IInv
<1>2. ASSUME NEW d \in Device, NewRunningDev(d) PROVE OversubscribedWhenZero'
  <2>1. ~panicked'
    BY <1>2 DEF NewRunningDev
  <2>. QED
    BY <1>2, <2>1, CreateOversubscribed DEF NewRunningDev, OversubscribedWhenZero
<1>3. ASSUME NEW d \in Device, closeRunningDev(d) PROVE OversubscribedWhenZero'
  <2>1. CASE NilPortItem(lease[d])
    BY <1>3, <2>1 DEF closeRunningDev, OversubscribedWhenZero, NilPortItem
  <2>2. CASE ~NilPortItem(lease[d])
    <3>1. /\ Cardinality(running') \in Nat /\ Cardinality(running) \in Nat
          /\ Cardinality(running') <= Cardinality(running)
      <4>1. IsFiniteSet(running) /\ running' \in SUBSET running
        BY <1>1, <1>3, <2>2, DeviceAssumption, FS_Subset DEF TypeOK, closeRunningDev
      <4>. QED
        BY <4>1, FS_Subset, FS_CardinalityType
    <3>2. \A e \in running' : e \in running /\ lease'[e] = lease[e]
      BY <1>1, <1>3, <2>2 DEF TypeOK, closeRunningDev
    <3>3. ~panicked' /\ peak' = peak /\ peak \in Nat
      BY <1>1, <1>3, <2>2 DEF TypeOK, closeRunningDev
    <3>. QED
      BY <3>1, <3>2, <3>3 DEF OversubscribedWhenZero
  <2>. QED
    BY <2>1, <2>2
<1>4. ASSUME NEW d \in Device, CloseUnknown(d) PROVE OversubscribedWhenZero'
  <2>1. CASE NilPortItem(assign_ports(avail))
    <3>1. d \in running' /\ lease'[d] = assign_ports(avail)
      BY <1>1, <1>4, <2>1 DEF CloseUnknown, TypeOK
    <3>2. \E e \in running' : NilPortItem(lease'[e])
      BY <3>1, <2>1
    <3>. QED
      BY <1>4, <2>1, <3>2, CreateOversubscribed
        DEF CloseUnknown, OversubscribedWhenZero, NilPortItem
  <2>2. CASE ~NilPortItem(assign_ports(avail))
    <3>1. /\ Cardinality(running) \in Nat /\ peak \in Nat /\ peak' \in Nat
          /\ peak' >= peak /\ UNCHANGED <<running, lease, panicked>>
      BY <1>1, <1>4, <2>2, CountersTyped DEF CloseUnknown, TypeOK
    <3>2. \A p \in FreedPool : Cardinality(PortRange[p]) \in Nat
      BY PortRangeAssumption, FS_CardinalityType DEF Pool
    <3>. QED
      BY <1>4, <3>1, <3>2 DEF OversubscribedWhenZero, CloseUnknown
  <2>. QED
    BY <2>1, <2>2
<1>5. CASE Relaunch
  BY <1>5, FS_EmptySet DEF Relaunch, OversubscribedWhenZero
<1>6. CASE UNCHANGED vars
  BY <1>6 DEF vars, OversubscribedWhenZero, NilPortItem
<1>. QED
  BY <1>2, <1>3, <1>4, <1>5, <1>6 DEF Next

(* As long as no pool is oversubscribed the coordinator never dies of a    *)
(* nil PortItem, however often devices come and go.                        *)
THEOREM PanicOnlyOversubscribed == Spec => []PanicNeedsOversubscription
<1>1. Init => OversubscribedWhenZero
  BY FS_EmptySet DEF Init, OversubscribedWhenZero
<1>2. IInv /\ OversubscribedWhenZero => PanicNeedsOversubscription
  <2>. SUFFICES ASSUME IInv, OversubscribedWhenZero, panicked
                PROVE  \E p \in FreedPool : peak > Cardinality(PortRange[p])
    BY DEF PanicNeedsOversubscription
  <2>1. PICK d \in running : NilPortItem(lease[d])
    BY DEF OversubscribedWhenZero
  <2>2. PICK p \in FreedPool : lease[d][p] = 0
    BY <2>1, NilIsZero DEF IInv, TypeOK
  <2>. QED
    BY <2>2 DEF OversubscribedWhenZero
<1>. QED
  BY InitIInv, NextIInv, NextOversubscribed, <1>1, <1>2, PTL DEF Spec
-----------------------------------------------------------------------------
(* The decode pool. *)
DecodeLaw == DecodePoolDrains /\ DecodeServesEarlyDevices

(* The lesser of two numbers.                                              *)
LEMMA MinOfTwo ==
    ASSUME NEW m \in Nat, NEW n \in Nat
    PROVE  Min({m, n}) = IF m <= n THEN m ELSE n
<1>1. /\ Min({m, n}) \in {m, n}
      /\ Min({m, n}) <= m /\ Min({m, n}) <= n
  BY MinIsMember
<1>. QED
  BY <1>1

(* Taking a port from a pool raises the number of ports taken by one,      *)
(* unless they are all taken.                                              *)
LEMMA TakenGrows ==
    ASSUME NEW R, IsFiniteSet(R), R \subseteq Nat, 0 \notin R, NEW S, S \subseteq R
    PROVE  /\ Cardinality(R) \in Nat
           /\ Cardinality(R \ S) \in Nat /\ Cardinality(R \ S) <= Cardinality(R)
           /\ S = {} <=> Cardinality(R \ S) = Cardinality(R)
           /\ Cardinality(R \ After(S)) = IF Cardinality(R \ S) = Cardinality(R)
                                         THEN Cardinality(R) ELSE Cardinality(R \ S) + 1
<1>1. /\ Cardinality(R) \in Nat /\ Cardinality(R \ S) \in Nat
      /\ Cardinality(R \ S) <= Cardinality(R)
      /\ IsFiniteSet(R \ S)
      /\ Cardinality(R) = Cardinality(R \ S) => R = R \ S
  BY FS_Subset, FS_CardinalityType
<1>2. S = {} <=> Cardinality(R \ S) = Cardinality(R)
  BY <1>1
<1>3. CASE S = {}
  BY <1>1, <1>2, <1>3 DEF After
<1>4. CASE S # {}
  <2>1. assign_port(S) \in S
    BY <1>4, AssignPort
  <2>2. R \ After(S) = (R \ S) \cup {assign_port(S)} /\ assign_port(S) \notin R \ S
    BY <2>1 DEF After
  <2>3. Cardinality(R \ After(S)) = Cardinality(R \ S) + 1
    BY <2>2, <1>1, FS_AddElement
  <2>. QED
    BY <2>3, <1>1, <1>2, <1>4
<1>. QED
  BY <1>3, <1>4

(* One more device object takes two more decode ports, as far as there are *)
(* any, and gets both exactly when there are two left.                     *)
LEMMA CreateDrains ==
    ASSUME IInv, DecodePoolDrains
    PROVE  LET R == PortRange["decode"]
               n == Cardinality(R)
           IN /\ Cardinality(R \ Assigned(avail)["decode"]) = Min({2 * (created + 1), n})
              /\ assign_ports(avail)["nanoIn"] # 0 <=> 2 * (created + 1) <= n
<1>. DEFINE R == PortRange["decode"]
            n == Cardinality(R)
            dec == avail["decode"]
            u == Cardinality(R \ dec)
<1>1. IsFiniteSet(R) /\ R \subseteq Nat /\ 0 \notin R /\ dec \subseteq R
  BY PortRangeAssumption DEF IInv, TypeOK, Pool
<1>2. After(dec) \subseteq dec /\ After(After(dec)) \subseteq After(dec)
  BY DEF After
<1>3. created \in Nat
  BY DEF IInv, TypeOK
<1>4. /\ assign_ports(avail)["nanoIn"] = assign_port(After(dec))
      /\ Assigned(avail)["decode"] = After(After(dec))
  BY DEF assign_ports, Assigned, Slot, Pool, FreedPool
<1>5. u = Min({2 * created, n})
  BY DEF DecodePoolDrains
<1>. HIDE DEF R, dec
<1>6. /\ n \in Nat /\ u \in Nat /\ u <= n
      /\ Cardinality(R \ After(dec)) = IF u = n THEN n ELSE u + 1
  BY <1>1, TakenGrows
<1>7. LET v == Cardinality(R \ After(dec))
      IN /\ v \in Nat
         /\ After(dec) = {} <=> v = n
         /\ Cardinality(R \ After(After(dec))) = IF v = n THEN n ELSE v + 1
  BY <1>1, <1>2, TakenGrows
<1>8. assign_port(After(dec)) = 0 <=> After(dec) = {}
  BY <1>1, <1>2, AssignPort
<1>9. u = IF 2 * created <= n THEN 2 * created ELSE n
  BY <1>3, <1>5, <1>6, MinOfTwo
<1>10. Min({2 * (created + 1), n}) = IF 2 * (created + 1) <= n THEN 2 * (created + 1) ELSE n
  BY <1>3, <1>6, MinOfTwo
<1>. HIDE DEF n, u
<1>11. Cardinality(R \ After(After(dec))) = Min({2 * (created + 1), n})
  BY <1>3, <1>6, <1>7, <1>9, <1>10
<1>12. assign_port(After(dec)) # 0 <=> 2 * (created + 1) <= n
  BY <1>3, <1>6, <1>7, <1>8, <1>9
<1>. QED
  BY <1>4, <1>11, <1>12 DEF R, n

(* Every step keeps the count of decode ports in step with the count of    *)
(* device objects.                                                         *)
LEMMA NextDecodeLaw == IInv /\ DecodeLaw /\ [Next]_vars => DecodeLaw'
<1>. SUFFICES ASSUME IInv, DecodeLaw, [Next]_vars PROVE DecodeLaw'
  OBVIOUS
<1>. DEFINE n == Cardinality(PortRange["decode"])
<1>1. TypeOK /\ DecodePoolDrains /\ DecodeServesEarlyDevices
  BY DEF IInv, DecodeLaw
<1>2. /\ Cardinality(PortRange["decode"] \ Assigned(avail)["decode"]) = Min({2 * (created + 1), n})
      /\ assign_ports(avail)["nanoIn"] # 0 <=> 2 * (created + 1) <= n
  BY <1>1, CreateDrains
<1>3. \A a, l : free_ports(a, l)["decode"] = a["decode"]
  BY DEF free_ports, Pool
<1>4. ASSUME NEW d \in Device, d \notin running,
             avail'["decode"] = Assigned(avail)["decode"], created' = created + 1,
             running' = running \cup {d},
             lease' = [lease EXCEPT ![d] = assign_ports(avail)],
             serial' = [serial EXCEPT ![d] = created + 1]
      PROVE  DecodeLaw'
  <2>1. DecodePoolDrains'
    BY <1>2, <1>4 DEF DecodePoolDrains
  <2>2. /\ lease'[d] = assign_ports(avail) /\ serial'[d] = created + 1
        /\ \A e \in running : lease'[e] = lease[e] /\ serial'[e] = serial[e]
    BY <1>1, <1>4 DEF TypeOK
  <2>3. DecodeServesEarlyDevices'
    BY <1>1, <1>2, <1>4, <2>2 DEF DecodeServesEarlyDevices
  <2>. QED
    BY <2>1, <2>3 DEF DecodeLaw
<1>5. ASSUME NEW d \in Device, NewRunningDev(d) PROVE DecodeLaw'
  BY <1>4, <1>5 DEF NewRunningDev
<1>6. ASSUME NEW d \in Device, closeRunningDev(d) PROVE DecodeLaw'
  <2>1. avail'["decode"] = avail["decode"] /\ created' = created
    BY <1>3, <1>6 DEF closeRunningDev
  <2>2. /\ running' \subseteq running
        /\ \A e \in running' : lease'[e] = lease[e] /\ serial'[e] = serial[e]
    BY <1>1, <1>6 DEF closeRunningDev, TypeOK
  <2>. QED
    BY <1>1, <2>1, <2>2 DEF DecodeLaw, DecodePoolDrains, DecodeServesEarlyDevices
<1>7. ASSUME NEW d \in Device, CloseUnknown(d) PROVE DecodeLaw'
  <2>1. CASE NilPortItem(assign_ports(avail))
    BY <1>4, <1>7, <2>1 DEF CloseUnknown
  <2>2. CASE ~NilPortItem(assign_ports(avail))
    <3>1. /\ avail'["decode"] = Assigned(avail)["decode"] /\ created' = created + 1
          /\ UNCHANGED <<running, lease, serial>>
      BY <1>3, <1>7, <2>2 DEF CloseUnknown
    <3>. QED
      BY <1>1, <1>2, <3>1 DEF DecodeLaw, DecodePoolDrains, DecodeServesEarlyDevices
  <2>. QED
    BY <2>1, <2>2
<1>8. CASE Relaunch
  <2>1. PortRange["decode"] \ avail'["decode"] = {} /\ created' = 0 /\ running' = {}
    BY <1>8 DEF Relaunch, construct_ports, Pool
  <2>2. n \in Nat
    BY PortRangeAssumption, FS_CardinalityType DEF Pool
  <2>3. Min({2 * 0, n}) = 0
    BY <2>2, MinOfTwo
  <2>. QED
    BY <2>1, <2>3, FS_EmptySet DEF DecodeLaw, DecodePoolDrains, DecodeServesEarlyDevices
<1>9. CASE UNCHANGED vars
  BY <1>1, <1>9 DEF vars, DecodeLaw, DecodePoolDrains, DecodeServesEarlyDevices
<1>. QED
  BY <1>5, <1>6, <1>7, <1>8, <1>9 DEF Next

(* The decode pool loses two ports for every device object ever made, and  *)
(* a device object is fully served only while the pool lasts.              *)
THEOREM DecodeLeak == Spec => [](DecodePoolDrains /\ DecodeServesEarlyDevices)
<1>1. Init => DecodeLaw
  <2>. SUFFICES ASSUME Init PROVE DecodeLaw
    OBVIOUS
  <2>1. PortRange["decode"] \ avail["decode"] = {} /\ created = 0 /\ running = {}
    BY DEF Init, construct_ports, Pool
  <2>2. Cardinality(PortRange["decode"]) \in Nat
    BY PortRangeAssumption, FS_CardinalityType DEF Pool
  <2>3. Min({2 * 0, Cardinality(PortRange["decode"])}) = 0
    BY <2>2, MinOfTwo
  <2>. QED
    BY <2>1, <2>3, FS_EmptySet DEF DecodeLaw, DecodePoolDrains, DecodeServesEarlyDevices
<1>. QED
  BY InitIInv, NextIInv, NextDecodeLaw, <1>1, PTL DEF Spec, DecodeLaw
-----------------------------------------------------------------------------
(* Leases. *)

(* The ports of a device object never change while the device runs. *)
THEOREM LeasesStable == Spec => LeaseIsStable
<1>1. ASSUME TypeOK, [Next]_vars
      PROVE  [\A d \in running \cap running' : lease'[d] = lease[d]]_vars
  <2>1. ASSUME NEW d \in Device, NewRunningDev(d) \/ closeRunningDev(d) \/ CloseUnknown(d)
        PROVE  \A e \in running \cap running' : lease'[e] = lease[e]
    BY <1>1, <2>1 DEF TypeOK, NewRunningDev, closeRunningDev, CloseUnknown
  <2>2. CASE Relaunch
    BY <2>2 DEF Relaunch
  <2>. QED
    BY <1>1, <2>1, <2>2 DEF Next
<1>. QED
  BY TypeCorrect, <1>1, PTL DEF Spec, LeaseIsStable

(* Each port of a lease lies in the range of its pool.                     *)
LEMMA LeasedFacts ==
    ASSUME NEW l, \A s \in Slot : l[s] \in PortRange[SlotPool(s)] \cup {0}
    PROVE  {<<SlotPool(s), l[s]>> : s \in {x \in Slot : l[x] # 0}} \subseteq
              {<<p, n>> : p \in Pool, n \in UNION {PortRange[q] : q \in Pool}}
<1>. SUFFICES ASSUME NEW s \in Slot, l[s] # 0
              PROVE  /\ SlotPool(s) \in Pool
                     /\ l[s] \in UNION {PortRange[q] : q \in Pool}
  OBVIOUS
<1>1. SlotPool(s) \in Pool
  BY DEF Slot, SlotPool, Pool
<1>. QED
  BY <1>1

(* Creating a device object is an Acquire of the abstract allocator.       *)
LEMMA CreateIsAcquire ==
    ASSUME IInv, IInv', NEW d \in Device, d \notin running,
           running' = running \cup {d},
           lease' = [lease EXCEPT ![d] = assign_ports(avail)]
    PROVE  Abstract!Acquire(d)
<1>. DEFINE resource == {<<p, n>> : p \in Pool, n \in UNION {PortRange[q] : q \in Pool}}
            h == [e \in Device |-> Leased(e)]
<1>1. TypeOK /\ TypeOK' /\ ExclusivePorts'
  BY DEF IInv
<1>2. \A e \in Device \ {d} : lease'[e] = lease[e]
  BY <1>1 DEF TypeOK
<1>3. \A e \in Device \ {d} : Leased(e)' = Leased(e)
  BY <1>2 DEF Leased
<1>4. \A e \in Device : Leased(e)' \subseteq resource
  <2>1. \A e \in Device, s \in Slot : lease'[e][s] \in PortRange[SlotPool(s)] \cup {0}
    BY <1>1 DEF TypeOK
  <2>. QED
    BY <2>1, LeasedFacts DEF Leased
<1>5. h' = [e \in Device |-> Leased(e)'] /\ h' \in [Device -> SUBSET resource]
  BY <1>4
<1>6. running \subseteq Device
  BY <1>1 DEF TypeOK
<1>7. \A e \in running : Leased(d)' \cap Leased(e)' = {}
  <2>1. SUFFICES ASSUME NEW e \in running, NEW s \in Slot, NEW t \in Slot,
                        lease'[d][s] # 0, SlotPool(s) = SlotPool(t)
                 PROVE  lease'[d][s] # lease'[e][t]
    BY DEF Leased
  <2>2. d \in running' /\ e \in running' /\ d # e
    OBVIOUS
  <2>. QED
    BY <2>1, <2>2, <1>1 DEF ExclusivePorts
<1>8. h'[d] \cap UNION {h[e] : e \in running} = {}
  <2>1. \A e \in running : h[e] = Leased(e)'
    BY <1>3, <1>6
  <2>2. h'[d] = Leased(d)'
    BY <1>5
  <2>3. \A e \in running : h'[d] \cap h[e] = {}
    BY <1>7, <2>1, <2>2
  <2>. HIDE DEF h
  <2>. QED
    BY <2>3
<1>9. \A e \in Device \ {d} : h'[e] = h[e]
  BY <1>3, <1>5
<1>. QED
  BY <1>5, <1>8, <1>9 DEF Abstract!Acquire, Abstract!Taken

(* Every step of the pools is a step of the abstract allocator, or leaves  *)
(* its state alone.                                                        *)
LEMMA StepSimulation ==
    ASSUME IInv, IInv', [Next]_vars
    PROVE  [Abstract!Next]_Abstract!vars
<1>1. TypeOK
  BY DEF IInv
<1>2. ASSUME NEW d \in Device, NewRunningDev(d) PROVE Abstract!Next
  BY <1>2, CreateIsAcquire DEF NewRunningDev, Abstract!Next
<1>3. ASSUME UNCHANGED <<lease, running>> PROVE UNCHANGED Abstract!vars
  BY <1>3 DEF Abstract!vars, Leased
<1>4. ASSUME NEW d \in Device, closeRunningDev(d) PROVE [Abstract!Next]_Abstract!vars
  <2>1. CASE NilPortItem(lease[d])
    BY <1>3, <1>4, <2>1 DEF closeRunningDev
  <2>2. CASE ~NilPortItem(lease[d])
    <3>1. /\ lease' = [lease EXCEPT ![d] = NoLease] /\ lease'[d] = NoLease
          /\ \A e \in Device \ {d} : lease'[e] = lease[e]
      BY <1>1, <1>4, <2>2 DEF closeRunningDev, TypeOK
    <3>2. Leased(d)' = {} /\ \A e \in Device \ {d} : Leased(e)' = Leased(e)
      BY <3>1, <1>1, AvailFacts DEF Leased
    <3>3. [e \in Device |-> Leased(e)]' = [[e \in Device |-> Leased(e)] EXCEPT ![d] = {}]
      BY <3>2
    <3>4. Abstract!Release(d)
      BY <1>4, <2>2, <3>3 DEF closeRunningDev, Abstract!Release
    <3>. QED
      BY <3>4 DEF Abstract!Next
  <2>. QED
    BY <2>1, <2>2
<1>5. ASSUME NEW d \in Device, CloseUnknown(d) PROVE [Abstract!Next]_Abstract!vars
  <2>1. CASE NilPortItem(assign_ports(avail))
    BY <1>5, <2>1, CreateIsAcquire DEF CloseUnknown, Abstract!Next
  <2>2. CASE ~NilPortItem(assign_ports(avail))
    BY <1>3, <1>5, <2>2 DEF CloseUnknown
  <2>. QED
    BY <2>1, <2>2
<1>6. CASE Relaunch
  <2>1. \A d \in Device : Leased(d)' = {}
    BY <1>6, <1>1, AvailFacts DEF Relaunch, Leased
  <2>2. [d \in Device |-> Leased(d)]' = [d \in Device |-> {}]
    BY <2>1
  <2>. QED
    BY <1>6, <2>2 DEF Relaunch, Abstract!Reset, Abstract!Next
<1>7. CASE UNCHANGED vars
  BY <1>3, <1>7 DEF vars
<1>. QED
  BY <1>2, <1>4, <1>5, <1>6, <1>7 DEF Next

(* The port pools implement exclusive leases: what ports.go does is what   *)
(* PortLease promises, for any devices and any port ranges.                *)
THEOREM PortsImplementLease == Spec => ImplementsLease
<1>1. Init => Abstract!Init
  <2>. SUFFICES ASSUME Init PROVE Abstract!Init
    OBVIOUS
  <2>1. \A d \in Device : Leased(d) = {}
    BY DEF Init, NoLease, Leased
  <2>. QED
    BY <2>1 DEF Init, Abstract!Init
<1>. QED
  BY InitIInv, NextIInv, StepSimulation, <1>1, PTL DEF Spec, ImplementsLease, Abstract!Spec
=============================================================================
