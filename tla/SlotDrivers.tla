----------------------------- MODULE SlotDrivers -----------------------------
(***************************************************************************)
(* The serial, DIO and EtherCAT drivers, simrt_serial.c, simrt_dio.c and   *)
(* simrt_ethercat.c: a table of slots (EtherCAT: one master) in which an   *)
(* open device is found by its token.                                      *)
(*                                                                         *)
(* An open holds the lock through all its system calls, any of which may   *)
(* fail; close waits for the lock, a step call does not.  The kernel hands *)
(* out file descriptor numbers again once they are closed, and the token   *)
(* counter wraps.  A refused call changes nothing and is no step.          *)
(***************************************************************************)
EXTENDS Naturals, FiniteSets

CONSTANTS
    Drivers,      \* "serial", "dio", "ethercat": the driver looked at
    Clients,      \* blocks of the model, each opening one device
    Devices,      \* device files and interfaces
    Nobody,       \* holder of the free lock
    SlotCount,    \* SLOT_COUNT
    TokenCount    \* 2^32: tokens are 0..TokenCount-1, and 0 is none

SlotAssumption ==
    /\ Drivers \subseteq {"serial", "dio", "ethercat"}
    /\ Nobody \notin Clients \union Devices
    /\ IsFiniteSet(Clients)
    /\ SlotCount \in Nat \ {0}
    /\ TokenCount \in Nat /\ TokenCount > SlotCount + 1

VARIABLES
    driver,       \* which of the three drivers
    lock,         \* holder of the lock
    slots,        \* token, descriptor and device of each slot
    nextToken,    \* next_token
    open,         \* device behind each descriptor of the process, or Nobody
    client        \* step, device, slot, descriptors and token of each block

vars == <<driver, lock, slots, nextToken, open, client>>

Fds == 1..(SlotCount + 2)
Slots == 1..(IF driver = "ethercat" THEN 1 ELSE SlotCount)

Free == [token |-> 0, fd |-> 0, device |-> Nobody]
AtRest == [pc |-> "rest", device |-> Nobody, slot |-> 0, fd |-> 0, token |-> 0]

Init ==
    /\ driver \in Drivers
    /\ lock = Nobody
    /\ slots = [s \in 1..SlotCount |-> Free]
    /\ nextToken = 0
    /\ open = [f \in Fds |-> Nobody]
    /\ client = [c \in Clients |-> AtRest]

FreeSlots == {s \in Slots : slots[s].token = 0}
InUse(t) == \E s \in Slots : slots[s].token = t

\* find_slot, or the test of active_token.
Found(t) == {s \in Slots : t # 0 /\ slots[s].token = t}

\* Serial takes the last free slot, DIO the first.
SlotTaken ==
    IF driver = "serial" THEN CHOOSE s \in FreeSlots : \A r \in FreeSlots : r <= s
                         ELSE CHOOSE s \in FreeSlots : \A r \in FreeSlots : s <= r

\* Mutant: the counter is only incremented.
MutantPlainCounter == (nextToken + 1) % TokenCount

\* The next token that is neither 0 nor in use.
FreshToken ==
    LET after(k) == (nextToken + k) % TokenCount
        fresh(k) == after(k) # 0 /\ ~InUse(after(k))
        k == CHOOSE i \in 1..TokenCount : fresh(i) /\ \A j \in 1..(i-1) : ~fresh(j)
    IN after(k)

Returns(c, token) ==
    /\ client' = [client EXCEPT ![c] =
           IF token = 0 THEN AtRest ELSE [AtRest EXCEPT !.token = token, !.device = client[c].device]]
    /\ lock' = Nobody

-----------------------------------------------------------------------------
(* simrt_serial_open, simrt_dio_open, simrt_ethercat_open.                 *)

\* Under the lock: a slot is free and, for serial, no slot has the device.
OpenCheck(c, d) ==
    /\ client[c] = AtRest /\ lock = Nobody /\ FreeSlots # {}
    /\ driver = "serial" => \A s \in Slots : slots[s].token = 0 \/ slots[s].device # d
    /\ lock' = c
    /\ client' = [client EXCEPT ![c] = [AtRest EXCEPT !.pc = "open", !.device = d, !.slot = SlotTaken]]
    /\ UNCHANGED <<driver, slots, nextToken, open>>

NewFd(f) == open[f] = Nobody /\ \A g \in 1..(f-1) : open[g] # Nobody

\* open or ec_init.
OpenDevice(c) ==
    /\ client[c].pc = "open"
    /\ \/ Returns(c, 0) /\ UNCHANGED open
       \/ \E f \in Fds :
             /\ NewFd(f)
             /\ open' = [open EXCEPT ![f] = client[c].device]
             /\ client' = [client EXCEPT ![c].pc = IF driver = "dio" THEN "lines" ELSE "setup",
                                         ![c].fd = f]
             /\ UNCHANGED lock
    /\ UNCHANGED <<driver, slots, nextToken>>

\* Mutant: the chip stays open when its lines are refused.
MutantChipLeft(c) ==
    /\ client[c].pc = "lines"
    /\ \/ Returns(c, 0) /\ UNCHANGED open
       \/ \E f \in Fds :
             /\ NewFd(f)
             /\ open' = [open EXCEPT ![f] = client[c].device, ![client[c].fd] = Nobody]
             /\ client' = [client EXCEPT ![c].pc = "commit", ![c].fd = f]
             /\ UNCHANGED lock
    /\ UNCHANGED <<driver, slots, nextToken>>

\* DIO: the lines are requested from the chip, which gives a descriptor of
\* their own; the chip is closed either way.
RequestLines(c) ==
    /\ client[c].pc = "lines"
    /\ \/ Returns(c, 0) /\ open' = [open EXCEPT ![client[c].fd] = Nobody]
       \/ \E f \in Fds :
             /\ NewFd(f)
             /\ open' = [open EXCEPT ![f] = client[c].device, ![client[c].fd] = Nobody]
             /\ client' = [client EXCEPT ![c].pc = "commit", ![c].fd = f]
             /\ UNCHANGED lock
    /\ UNCHANGED <<driver, slots, nextToken>>

\* Serial: exclusive use, line settings, RS-485 mode; EtherCAT: slaves, map,
\* SAFE_OP and OP.  Any of them may fail, and the device is closed then.
SetUp(c) ==
    /\ client[c].pc = "setup"
    /\ \/ Returns(c, 0) /\ open' = [open EXCEPT ![client[c].fd] = Nobody]
       \/ client' = [client EXCEPT ![c].pc = "commit"] /\ UNCHANGED <<open, lock>>
    /\ UNCHANGED <<driver, slots, nextToken>>

Commit(c) ==
    /\ client[c].pc = "commit"
    /\ nextToken' = FreshToken
    /\ slots' = [slots EXCEPT ![client[c].slot] =
           [token |-> FreshToken, fd |-> client[c].fd, device |-> client[c].device]]
    /\ Returns(c, FreshToken)
    /\ UNCHANGED <<driver, open>>

-----------------------------------------------------------------------------
(* simrt_serial_close, simrt_dio_close, simrt_ethercat_close, once for     *)
(* every open; and the device a step call would reach.                     *)

Close(c) ==
    /\ client[c].pc = "rest" /\ client[c].token # 0 /\ lock = Nobody
    /\ open' = [f \in Fds |-> IF \E s \in Found(client[c].token) : slots[s].fd = f
                               THEN Nobody ELSE open[f]]
    /\ slots' = [s \in 1..SlotCount |-> IF s \in Found(client[c].token) THEN Free ELSE slots[s]]
    /\ client' = [client EXCEPT ![c] = AtRest]
    /\ UNCHANGED <<driver, lock, nextToken>>

\* Send, receive, read, write and exchange: nothing while the lock is taken
\* (EAGAIN) or for an unknown token (EBADF).
Reached(t) == IF lock = Nobody THEN {slots[s].fd : s \in Found(t)} ELSE {}

Next ==
    \E c \in Clients :
        \/ \E d \in Devices : OpenCheck(c, d)
        \/ OpenDevice(c) \/ RequestLines(c) \/ SetUp(c) \/ Commit(c)
        \/ Close(c)

Spec == Init /\ [][Next]_vars

-----------------------------------------------------------------------------
(* Properties.                                                             *)

Holders == {c \in Clients : client[c].pc = "rest" /\ client[c].token # 0}

\* A block reaches the device it opened and no other, also after the token
\* counter wrapped and descriptor numbers were used again; no two blocks
\* share a descriptor.
ReachesOwnDevice ==
    lock = Nobody =>
        \A c \in Holders :
            \E f \in Fds :
                /\ Reached(client[c].token) = {f}
                /\ open[f] = client[c].device
                /\ \A e \in Holders \ {c} : f \notin Reached(client[e].token)

\* Nothing stays open that nobody can close: every open descriptor belongs
\* to a slot, or to the open under way; and a failed open lets go the lock.
NothingLeaked ==
    /\ \A f \in Fds : open[f] # Nobody =>
        \/ \E s \in Slots : slots[s].token # 0 /\ slots[s].fd = f
        \/ lock # Nobody /\ client[lock].fd = f
    /\ lock # Nobody => client[lock].pc # "rest"
    /\ Cardinality(Slots \ FreeSlots) = Cardinality(Holders)

=============================================================================
