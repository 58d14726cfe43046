-------------------------------- MODULE Ports --------------------------------
(***************************************************************************)
(* The port pools of the coordinator (src/coordinator/ports.go) and the    *)
(* two handlers that use them: NewRunningDev, which the event loop calls   *)
(* for the first event of an unknown device, and closeRunningDev, which it *)
(* calls for a disconnect.  Both run in the event loop's goroutine, so     *)
(* each is one step.                                                       *)
(***************************************************************************)
EXTENDS Naturals, FiniteSets, FiniteSetsExt

CONSTANTS Device,     \* the phones that may be plugged in
          PortRange,  \* the configured "from-to" range of each pool
          MaxCreated  \* bound on the device objects created by one launch

FreedPool == {"wda", "vid", "devIos", "vnc", "usbmuxd"}
Pool == FreedPool \cup {"decode"}

(* What a device object is given: one port of five pools, two of the sixth *)
Slot == FreedPool \cup {"nanoOut", "nanoIn"}

ASSUME DeviceAssumption == IsFiniteSet(Device)
ASSUME PortRangeAssumption ==
    /\ PortRange \in [Pool -> SUBSET (Nat \ {0})]
    /\ \A p \in Pool : IsFiniteSet(PortRange[p])
ASSUME MaxCreatedAssumption == MaxCreated \in Nat

VARIABLES avail,     \* per pool, the ports whose PortItem is available
          running,   \* runningDevs: the devices that have a device object
          lease,     \* the ports in the device object of a running device
          panicked,  \* the process died of a nil PortItem
          created,   \* device objects created since the launch
          serial,    \* the value of created when a device's object was made
          peak       \* the most devices that ran together since the launch

vars == <<avail, running, lease, panicked, created, serial, peak>>

(* Slot values of a device that has no device object. *)
NoLease == [s \in Slot |-> 0]

construct_ports == [p \in Pool |-> PortRange[p]]

Init == /\ avail = construct_ports
        /\ running = {}
        /\ lease = [d \in Device |-> NoLease]
        /\ panicked = FALSE
        /\ created = 0
        /\ serial = [d \in Device |-> 0]
        /\ peak = 0
-----------------------------------------------------------------------------
(* The lowest available port of a pool, 0 when there is none. *)
assign_port(S) == IF S = {} THEN 0 ELSE Min(S)

(* What is left of a pool after assign_port. *)
After(S) == S \ {assign_port(S)}

assign_ports(av) ==
    [s \in Slot |-> CASE s = "nanoOut" -> assign_port(av["decode"])
                      [] s = "nanoIn"  -> assign_port(After(av["decode"]))
                      [] OTHER         -> assign_port(av[s])]

Assigned(av) ==
    [p \in Pool |-> IF p = "decode" THEN After(After(av[p])) ELSE After(av[p])]

(* The change that would stop the decode leak, made for one port only. *)
free_ports_Decode(av, l) ==
    [p \in Pool |-> IF p = "decode" THEN av[p] \cup ({l["nanoOut"]} \ {0})
                    ELSE av[p] \cup {l[p]}]

(* portMap.xPorts[port].available = true, for five of the six pools: a nil *)
(* dereference when the map has no such port.                              *)
free_ports(av, l) ==
    [p \in Pool |-> IF p = "decode" THEN av[p] ELSE av[p] \cup {l[p]}]

(* The bug of a free_ports that serves the decode pool too. *)
NilPortItem_Decode(l) == \E s \in Slot : l[s] = 0

NilPortItem(l) == \E p \in FreedPool : l[p] \notin PortRange[p]

Larger(m, n) == IF m >= n THEN m ELSE n
-----------------------------------------------------------------------------
(* The first event of a device the event loop does not know, unless it is  *)
(* a disconnect.                                                           *)
NewRunningDev(d) ==
    /\ ~panicked
    /\ d \notin running
    /\ created < MaxCreated
    /\ running' = running \cup {d}
    /\ lease' = [lease EXCEPT ![d] = assign_ports(avail)]
    /\ avail' = Assigned(avail)
    /\ created' = created + 1
    /\ serial' = [serial EXCEPT ![d] = created + 1]
    /\ peak' = Larger(peak, Cardinality(running) + 1)
    /\ UNCHANGED panicked

(* The bug of a disconnect that leaves the device in runningDevs. *)
closeRunningDev_Keeps(d) ==
    /\ ~panicked
    /\ d \in running
    /\ IF NilPortItem(lease[d])
       THEN panicked' = TRUE /\ UNCHANGED avail
       ELSE avail' = free_ports(avail, lease[d]) /\ UNCHANGED panicked
    /\ UNCHANGED <<running, lease, serial, created, peak>>

(* A disconnect of a known device. *)
closeRunningDev(d) ==
    /\ ~panicked
    /\ d \in running
    /\ IF NilPortItem(lease[d])
       THEN /\ panicked' = TRUE
            /\ UNCHANGED <<avail, running, lease, serial>>
       ELSE /\ avail' = free_ports(avail, lease[d])
            /\ running' = running \ {d}
            /\ lease' = [lease EXCEPT ![d] = NoLease]
            /\ serial' = [serial EXCEPT ![d] = 0]
            /\ UNCHANGED panicked
    /\ UNCHANGED <<created, peak>>

(* A disconnect of a device the event loop does not know: the handler      *)
(* first creates a device object for it, then closes that object.          *)
CloseUnknown(d) ==
    LET l  == assign_ports(avail)
        av == Assigned(avail)
    IN /\ ~panicked
       /\ d \notin running
       /\ created < MaxCreated
       /\ created' = created + 1
       /\ peak' = Larger(peak, Cardinality(running) + 1)
       /\ IF NilPortItem(l)
          THEN /\ panicked' = TRUE
               /\ avail' = av
               /\ running' = running \cup {d}
               /\ lease' = [lease EXCEPT ![d] = l]
               /\ serial' = [serial EXCEPT ![d] = created + 1]
          ELSE /\ avail' = free_ports(av, l)
               /\ UNCHANGED <<running, lease, serial, panicked>>

(* launchd keeps the runner alive and the runner starts a new coordinator. *)
Relaunch ==
    /\ panicked
    /\ avail' = construct_ports
    /\ running' = {}
    /\ lease' = [d \in Device |-> NoLease]
    /\ panicked' = FALSE
    /\ created' = 0
    /\ serial' = [d \in Device |-> 0]
    /\ peak' = 0

Next == \/ \E d \in Device : NewRunningDev(d) \/ closeRunningDev(d) \/ CloseUnknown(d)
        \/ Relaunch

Spec == Init /\ [][Next]_vars
-----------------------------------------------------------------------------
SlotPool(s) == IF s \in {"nanoOut", "nanoIn"} THEN "decode" ELSE s

(* Every variable has its type. *)
TypeOK ==
    /\ avail \in [Pool -> SUBSET Nat]
    /\ \A p \in Pool : avail[p] \subseteq PortRange[p]
    /\ running \subseteq Device
    /\ lease \in [Device -> [Slot -> Nat]]
    /\ \A d \in Device, s \in Slot : lease[d][s] \in PortRange[SlotPool(s)] \cup {0}
    /\ panicked \in BOOLEAN
    /\ created \in Nat
    /\ serial \in [Device -> Nat]
    /\ peak \in Nat

(* Two running devices never hold the same port, in whatever order devices *)
(* come, go and come back, and the two decode ports of one device differ   *)
(* (ports.go:86-133).                                                      *)
ExclusivePorts ==
    /\ \A d, e \in running, s, t \in Slot :
          /\ <<d, s>> # <<e, t>>
          /\ SlotPool(s) = SlotPool(t)
          /\ lease[d][s] # 0
          => lease[d][s] # lease[e][t]

Held(p) == {lease[d][p] : d \in running} \ {0}

(* In the five pools free_ports serves, a port is unavailable exactly when *)
(* some running device holds it: nothing leaks over any number of          *)
(* connects and disconnects, and nothing held is handed out again          *)
(* (ports.go:112-133).                                                     *)
FreedPoolsBalance ==
    \A p \in FreedPool : avail[p] = PortRange[p] \ Held(p)

(* The decode pool only shrinks: free_ports has no line for it, so after n *)
(* device objects, however few are left, 2n of its ports are gone          *)
(* (ports.go:104-105, 112-133).                                            *)
DecodePoolDrains ==
    Cardinality(PortRange["decode"] \ avail["decode"])
        = Min({2 * created, Cardinality(PortRange["decode"])})

(* A device gets both decode ports exactly when it is early enough in the  *)
(* life of the process; a later one runs with DecodeInPort 0, even when it *)
(* is the only device (ports.go:83, 104-107).                              *)
DecodeServesEarlyDevices ==
    \A d \in running :
        lease[d]["nanoIn"] # 0 <=> 2 * serial[d] <= Cardinality(PortRange["decode"])

(* The coordinator dies in free_ports only if more devices than one of the *)
(* five pools has ports ran together at some time since the launch         *)
(* (ports.go:119-132).                                                     *)
PanicNeedsOversubscription ==
    panicked => \E p \in FreedPool : peak > Cardinality(PortRange[p])

(* The rest is the inductive strengthening of the invariants above.        *)
(* A port some running device holds is marked unavailable, decode ports    *)
(* included.                                                               *)
HeldIsTaken ==
    \A d \in running, s \in Slot : lease[d][s] \notin avail[SlotPool(s)]

(* A device without a port of a pool was created when that pool was        *)
(* exhausted, that is, by as many devices as the pool has ports.           *)
OversubscribedWhenZero ==
    /\ peak >= Cardinality(running)
    /\ \A d \in running, p \in FreedPool :
          lease[d][p] = 0 => peak > Cardinality(PortRange[p])
    /\ panicked => \E d \in running : NilPortItem(lease[d])

(* A running device keeps the ports it was created with until it is closed *)
(* (coordinator.go:475-486).                                               *)
LeaseIsStable ==
    [][\A d \in running \cap running' : lease'[d] = lease[d]]_vars
-----------------------------------------------------------------------------
(* The promise of the allocator, kept by the code. *)
Leased(d) == {<<SlotPool(s), lease[d][s]>> : s \in {x \in Slot : lease[d][x] # 0}}

Abstract == INSTANCE PortLease
    WITH Client   <- Device,
         Resource <- {<<p, n>> : p \in Pool, n \in UNION {PortRange[q] : q \in Pool}},
         held     <- [d \in Device |-> Leased(d)],
         member   <- running

(* The pools implement exclusive leases that last as long as the device    *)
(* object (ports.go, coordinator.go:475).                                  *)
ImplementsLease == Abstract!Spec
=============================================================================
