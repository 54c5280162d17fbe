------------------------- MODULE IdentifierClaims -------------------------
(***************************************************************************)
(* Which handset a number belongs to: the rows of device_identifier and    *)
(* the trigger of migration 0029 that makes their released_at follow       *)
(* device_unit.status, with createDevice (device.service.ts),              *)
(* createPurchase and reversePurchase (purchase.service.ts) and every      *)
(* handler that changes the status of a handset.                           *)
(*                                                                         *)
(* Booking a handset in looks for duplicates without a lock, and inserts   *)
(* later.  A change of status is a conditional UPDATE whose trigger looks  *)
(* for other holders of the numbers on the snapshot of its own statement   *)
(* and takes those it finds free: the index may then make it wait for a    *)
(* transaction that has written the same number and not committed.  Both   *)
(* are two actions, the look and the commit: of two that write a number    *)
(* the one that commits has written first, and the other fails.            *)
(***************************************************************************)
EXTENDS DeviceLifecycle

CONSTANTS
    Devices,        \* rows of device_unit that there may be
    Numbers,        \* IMEIs and serial numbers
    Purchases,      \* rows of purchase that there may be
    Clients,        \* requests that can be in flight at the same time
    None            \* neither a device nor a purchase

ASSUME NoneAssumption == None \notin Purchases

VARIABLES
    status,     \* device_unit.status; NONE before the row exists
    carries,    \* device_identifier.value of each device
    claim,      \* those of them whose released_at IS NULL
    purchase,   \* purchase.status, and the handsets it brought in
    left,       \* history: handsets that have been out of the shop
    booking,    \* what each client is booking in: the numbers of each handset
    move        \* the change of status of each handset that is not committed yet

vars == <<status, carries, claim, purchase, left, booking, move>>

NoUnits == [d \in Devices |-> {}]
NoBooking == [units |-> NoUnits, purchase |-> None]
Still == [to |-> "NONE", take |-> {}]
Units(f) == {d \in Devices : f[d] # {}}

Init ==
    /\ status = [d \in Devices |-> "NONE"]
    /\ carries = NoUnits
    /\ claim = NoUnits
    /\ purchase = [p \in Purchases |-> [status |-> "NONE", devices |-> {}]]
    /\ left = {}
    /\ booking = [c \in Clients |-> NoBooking]
    /\ move = [d \in Devices |-> Still]

-----------------------------------------------------------------------------
(* The database.                                                           *)

Claimed(n) == \E d \in Devices : n \in claim[d]

\* Mutant of HeldOnce: the index is gone and the check stands alone.
NoIndex(held) == TRUE

\* The partial unique index on the numbers that are not released.
HeldOnce(held) == \A d, e \in Devices : d # e => held[d] \intersect held[e] = {}

\* Mutants of Gone: a status is forgotten; a handset on its way counts as gone.
GoneButLost == {"SOLD", "SOLD_PENDING_IMPORT", "VOIDED"}
GoneInTransit == {"SOLD", "SOLD_PENDING_IMPORT", "VOIDED", "LOST", "IN_TRANSIT"}

Gone == {"SOLD", "SOLD_PENDING_IMPORT", "VOIDED", "LOST"}

\* The numbers of a handset that nothing else holds, as committed by now.
FreeNumbers(d) == {n \in carries[d] : ~Claimed(n)}

\* setDeviceStatus up to the end of its UPDATE: it waits for another change of the same row,
\* the row is as expected, the transition is one of the table.  The trigger,
\* device_identifier_follow_status, finds the numbers that a handset in the shop may take.
SetDeviceStatus(d, expected, next) ==
    /\ move[d] = Still
    /\ status[d] = expected
    /\ CanTransition(expected, next)
    /\ move' = [move EXCEPT ![d] =
           [to |-> next, take |-> IF next \in Gone THEN {} ELSE FreeNumbers(d)]]
    /\ UNCHANGED <<status, carries, claim, purchase, left, booking>>

\* What the trigger leaves of the claims: a handset that goes gives up its numbers.
FollowStatus(d) == IF move[d].to \in Gone THEN {} ELSE claim[d] \union move[d].take

\* The transaction of the change commits, if the index takes what the trigger wrote.
CommitStatus(d) ==
    /\ move[d] # Still
    /\ status' = [status EXCEPT ![d] = move[d].to]
    /\ claim' = [claim EXCEPT ![d] = FollowStatus(d)]
    /\ HeldOnce(claim')
    /\ left' = IF move[d].to \in {"SOLD", "SOLD_PENDING_IMPORT", "LOST"} THEN left \union {d} ELSE left
    /\ move' = [move EXCEPT ![d] = Still]
    /\ UNCHANGED <<carries, purchase, booking>>

\* The index refuses it, or the handler fails later on.
AbortStatus(d) ==
    /\ move[d] # Still
    /\ move' = [move EXCEPT ![d] = Still]
    /\ UNCHANGED <<status, carries, claim, purchase, left, booking>>

-----------------------------------------------------------------------------
(* Booking in.                                                             *)

\* assertIdentifiersFree of each handset in turn, which sees the ones before it.
BeginBooking(c) ==
    /\ booking[c] = NoBooking
    /\ \E f \in [Devices -> SUBSET Numbers], p \in Purchases \union {None} :
           /\ Units(f) # {}
           /\ \A d \in Units(f) : status[d] = "NONE" /\ \A o \in Clients : d \notin Units(booking[o].units)
           /\ HeldOnce(f)
           /\ \A d \in Units(f) : \A n \in f[d] : ~Claimed(n)
           /\ IF p = None
              THEN \A d, e \in Units(f) : d = e
              ELSE purchase[p].status = "NONE" /\ \A o \in Clients : booking[o].purchase # p
           /\ booking' = [booking EXCEPT ![c] = [units |-> f, purchase |-> p]]
    /\ UNCHANGED <<status, carries, claim, purchase, left, move>>

\* createDevice of a trade-in, an import or a manual entry, or all those of one
\* createPurchase: the units and their numbers, if the index takes them.
CommitBooking(c) ==
    LET f == booking[c].units
        p == booking[c].purchase
    IN
    /\ booking[c] # NoBooking
    /\ status' = [d \in Devices |-> IF d \in Units(f) THEN "IN_STOCK" ELSE status[d]]
    /\ carries' = [d \in Devices |-> IF d \in Units(f) THEN f[d] ELSE carries[d]]
    /\ claim' = [d \in Devices |-> IF d \in Units(f) THEN f[d] ELSE claim[d]]
    /\ HeldOnce(claim')
    /\ purchase' = [q \in Purchases |->
           IF q = p THEN [status |-> "CONFIRMED", devices |-> Units(f)] ELSE purchase[q]]
    /\ booking' = [booking EXCEPT ![c] = NoBooking]
    /\ UNCHANGED <<left, move>>

\* A duplicate refused by the check or by the index, or a failure: all of it rolls back.
Abort(c) ==
    /\ booking[c] # NoBooking
    /\ booking' = [booking EXCEPT ![c] = NoBooking]
    /\ UNCHANGED <<status, carries, claim, purchase, left, move>>

\* Mutant of Kept: the identifiers of a voided handset are released and stay.
KeptReleased(D) == carries

\* What reversePurchase leaves of device_identifier.
Kept(D) == [d \in Devices |-> IF d \in D THEN {} ELSE carries[d]]

\* reversePurchase voids every handset the purchase brought in, if all are in stock, and
\* deletes their identifiers.  It waits for a change of theirs that is not committed.
ReversePurchase(p) ==
    LET D == purchase[p].devices IN
    /\ purchase[p].status = "CONFIRMED"
    /\ \A d \in D : status[d] = "IN_STOCK" /\ move[d] = Still
    /\ status' = [d \in Devices |-> IF d \in D THEN "VOIDED" ELSE status[d]]
    /\ carries' = Kept(D)
    /\ claim' = [d \in Devices |-> IF d \in D THEN {} ELSE claim[d]]
    /\ purchase' = [purchase EXCEPT ![p].status = "REVERSED"]
    /\ UNCHANGED <<left, booking, move>>

-----------------------------------------------------------------------------
(* The handlers that change the status of a handset.                       *)

SellDevice(d) == SetDeviceStatus(d, "IN_STOCK", "SOLD")
MarkSoldExternally(d) == SetDeviceStatus(d, "IN_STOCK", "SOLD_PENDING_IMPORT")
CreateReturn(d) == SetDeviceStatus(d, "SOLD", "RETURNED")
InspectDevice(d) ==
    \E next \in {"IN_STOCK", "DAMAGED", "REPAIR"} : SetDeviceStatus(d, "RETURNED", next)
DispatchDevice(d) == SetDeviceStatus(d, "IN_STOCK", "IN_TRANSIT")

\* receiveTransfer, of a handset that arrived and of one that did not; cancelTransfer.
EndTransit(d) == \E next \in {"IN_STOCK", "LOST"} : SetDeviceStatus(d, "IN_TRANSIT", next)

AdjustDevice(d) ==
    \E next \in {"DAMAGED", "LOST"} : status[d] # "NONE" /\ SetDeviceStatus(d, status[d], next)

DeviceStep(d) ==
    \/ SellDevice(d) \/ MarkSoldExternally(d) \/ CreateReturn(d) \/ InspectDevice(d)
    \/ DispatchDevice(d) \/ EndTransit(d) \/ AdjustDevice(d)

Next ==
    \/ \E d \in Devices : DeviceStep(d) \/ CommitStatus(d) \/ AbortStatus(d)
    \/ \E c \in Clients : BeginBooking(c) \/ CommitBooking(c) \/ Abort(c)
    \/ \E p \in Purchases : ReversePurchase(p)

Spec == Init /\ [][Next]_vars

-----------------------------------------------------------------------------
InTheShop(d) == status[d] \in {"IN_STOCK", "RETURNED", "IN_TRANSIT", "DAMAGED", "REPAIR"}

\* Rows of their types; a handset carries a number from its booking until it is voided.
TypeOK ==
    /\ status \in [Devices -> DeviceStatus \union {"NONE"}]
    /\ carries \in [Devices -> SUBSET Numbers]
    /\ claim \in [Devices -> SUBSET Numbers]
    /\ purchase \in [Purchases -> [status : {"NONE", "CONFIRMED", "REVERSED"},
                                   devices : SUBSET Devices]]
    /\ left \subseteq Devices
    /\ booking \in [Clients -> [units : [Devices -> SUBSET Numbers], purchase : Purchases \union {None}]]
    /\ move \in [Devices -> [to : DeviceStatus \union {"NONE"}, take : SUBSET Numbers]]
    /\ \A d \in Devices : carries[d] = {} <=> status[d] \in {"NONE", "VOIDED"}

\* A claim is that of a handset the shop has: one that was sold, written off or voided never
\* blocks a purchase of its number (the trigger, whichever handler changed the status).
ClaimsAreInTheShop ==
    \A d \in Devices : claim[d] # {} => InTheShop(d) /\ claim[d] \subseteq carries[d]

\* A handset that has not been out of the shop holds every number it came with, through
\* transfers, damage and repair: a second one cannot be booked in under any of them.
StaysClaimed ==
    \A d \in Devices \ left : InTheShop(d) => claim[d] = carries[d]

\* The rows and the trigger keep the promise of the registry.
Registry == INSTANCE NumberRegistry
                WITH holders <- [n \in Numbers |-> {d \in Devices : n \in claim[d]}]
RegistrySpec == Registry!Spec

-----------------------------------------------------------------------------
(* What the documents say and the code does not do.                        *)

\* "Reversing a purchase whose device was sold is refused" (docs/02, M3): none of the
\* handsets that reversePurchase voids has been out of the shop.
SoldIsNotReversed ==
    [][\A p \in Purchases :
           purchase[p].status = "CONFIRMED" /\ purchase'[p].status = "REVERSED"
               => purchase[p].devices \intersect left = {}]_vars

\* "The old sale comes back. It must not throw" (m2.integration.test.ts:557), "without this
\* guard the partial index would reject the return outright" (migration 0029): the index takes
\* what the trigger found free.  It does not when the number is booked in, or comes back with
\* another handset, between the look and the commit.
ReturnNeverRefused ==
    \A d \in Devices : status[d] = "SOLD" /\ move[d].to = "RETURNED"
        => HeldOnce([claim EXCEPT ![d] = FollowStatus(d)])
=============================================================================
