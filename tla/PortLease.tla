------------------------------ MODULE PortLease ------------------------------
(***************************************************************************)
(* What the port allocator of the coordinator promises its clients: a      *)
(* resource is never held by two clients at once, a client holds resources *)
(* from the moment it is created to the moment it is closed, and holds the *)
(* same ones all that time.  Which resources a client receives, and how    *)
(* many, is left open.                                                     *)
(***************************************************************************)
CONSTANTS Client, Resource

VARIABLES held,    \* what each client holds
          member   \* the clients that exist

vars == <<held, member>>

Taken == UNION {held[c] : c \in member}

Init == /\ held = [c \in Client |-> {}]
        /\ member = {}

(* A new client receives any resources nobody holds. *)
Acquire(c) ==
    /\ c \notin member
    /\ held' \in [Client -> SUBSET Resource]
    /\ held'[c] \cap Taken = {}
    /\ \A e \in Client \ {c} : held'[e] = held[e]
    /\ member' = member \cup {c}

(* A client that goes gives back everything. *)
Release(c) ==
    /\ c \in member
    /\ held' = [held EXCEPT ![c] = {}]
    /\ member' = member \ {c}

(* The allocator dies and is started again: every client is forgotten. *)
Reset == /\ held' = [c \in Client |-> {}]
         /\ member' = {}

Next == \/ \E c \in Client : Acquire(c) \/ Release(c)
        \/ Reset

Spec == Init /\ [][Next]_vars

Exclusive == \A c, d \in member : c # d => held[c] \cap held[d] = {}
=============================================================================
