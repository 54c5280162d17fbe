----------------------- MODULE IdentifierClaimsProofs -----------------------
(***************************************************************************)
(* Any number of handsets, numbers, purchases and requests: claims follow  *)
(* the handsets, and the rows keep the promise of NumberRegistry.          *)
(***************************************************************************)
EXTENDS IdentifierClaims, TLAPS

\* What is being booked in is not there yet, and nobody else books it in.
BookingOK ==
    /\ \A c \in Clients, d \in Devices : booking[c].units[d] # {} => status[d] = "NONE"
    /\ \A c, o \in Clients, d \in Devices :
           booking[c].units[d] # {} /\ booking[o].units[d] # {} => c = o

\* A handset that is out of the shop has been seen to leave.
LeftOK == \A d \in Devices : status[d] \in {"SOLD", "SOLD_PENDING_IMPORT", "LOST"} => d \in left

\* A handset on the move is where the handler found it, may go where it goes, and takes only
\* numbers of its own: its row is locked.
MoveOK ==
    \A d \in Devices : move[d] # Still =>
        /\ status[d] \notin {"NONE", "VOIDED"}
        /\ move[d].to \notin {"NONE", "VOIDED"}
        /\ move[d].take \subseteq carries[d]

IInv == /\ TypeOK /\ BookingOK /\ LeftOK /\ MoveOK
        /\ HeldOnce(claim) /\ ClaimsAreInTheShop /\ StaysClaimed

-----------------------------------------------------------------------------
LEMMA NoBookingType ==
    NoBooking \in [units : [Devices -> SUBSET Numbers], purchase : Purchases \union {None}]
BY DEF NoBooking, NoUnits

LEMMA InitIInv == Init => IInv
<1> SUFFICES ASSUME Init PROVE IInv
  OBVIOUS
<1>1. TypeOK
  BY NoBookingType DEF Init, TypeOK, NoUnits, Still
<1>2. BookingOK
  BY DEF Init, BookingOK, NoBooking, NoUnits
<1>3. LeftOK /\ MoveOK /\ HeldOnce(claim) /\ ClaimsAreInTheShop /\ StaysClaimed
  BY DEF Init, LeftOK, MoveOK, HeldOnce, ClaimsAreInTheShop, StaysClaimed, InTheShop, NoUnits
<1>4. QED
  BY <1>1, <1>2, <1>3 DEF IInv

\* Nothing but what is on its way changes.
LEMMA SetDeviceStatusStep ==
    ASSUME IInv, NEW d \in Devices, NEW expected \in DeviceStatus, NEW next \in DeviceStatus,
           SetDeviceStatus(d, expected, next), next # "VOIDED"
    PROVE  IInv'
<1> DEFINE new == [to |-> next, take |-> IF next \in Gone THEN {} ELSE FreeNumbers(d)]
<1>1. /\ status[d] = expected /\ CanTransition(expected, next)
      /\ move' = [move EXCEPT ![d] = new]
      /\ UNCHANGED <<status, carries, claim, purchase, left, booking>>
  BY DEF SetDeviceStatus
<1>2. expected \notin {"NONE", "VOIDED"}
  BY <1>1 DEF DeviceStatus, CanTransition
<1>3. /\ new \in [to : DeviceStatus \union {"NONE"}, take : SUBSET Numbers]
      /\ new.to = next /\ new.take \subseteq carries[d]
  BY DEF FreeNumbers, IInv, TypeOK
<1> HIDE DEF new
<1>4. \A e \in Devices : move'[e] = IF e = d THEN new ELSE move[e]
  BY <1>1 DEF IInv, TypeOK
<1>5. TypeOK'
  BY <1>1, <1>3 DEF IInv, TypeOK
<1>6. MoveOK'
  BY <1>1, <1>2, <1>3, <1>4 DEF IInv, MoveOK, DeviceStatus
<1>7. QED
  BY <1>1, <1>5, <1>6 DEF IInv, BookingOK, LeftOK, HeldOnce, ClaimsAreInTheShop, StaysClaimed,
                          InTheShop

LEMMA DeviceStepIsSet ==
    ASSUME IInv, NEW d \in Devices, DeviceStep(d)
    PROVE  \E expected \in DeviceStatus, next \in DeviceStatus :
               next # "VOIDED" /\ SetDeviceStatus(d, expected, next)
<1>1. CASE SellDevice(d) \/ MarkSoldExternally(d) \/ CreateReturn(d) \/ DispatchDevice(d)
  BY <1>1 DEF SellDevice, MarkSoldExternally, CreateReturn, DispatchDevice, DeviceStatus
<1>2. CASE InspectDevice(d) \/ EndTransit(d)
  BY <1>2 DEF InspectDevice, EndTransit, DeviceStatus
<1>3. CASE AdjustDevice(d)
  <2>1. status[d] \in DeviceStatus
    BY <1>3 DEF AdjustDevice, IInv, TypeOK
  <2>2. QED
    BY <1>3, <2>1 DEF AdjustDevice, DeviceStatus
<1>4. QED
  BY <1>1, <1>2, <1>3 DEF DeviceStep

\* What the index lets through: the trigger's look may be stale by now.
LEMMA CommitStatusStep == ASSUME IInv, NEW d \in Devices, CommitStatus(d) PROVE IInv'
<1> DEFINE next == move[d].to
           now == FollowStatus(d)
<1>1. /\ status' = [status EXCEPT ![d] = next]
      /\ claim' = [claim EXCEPT ![d] = now]
      /\ HeldOnce(claim')
      /\ left' = IF next \in {"SOLD", "SOLD_PENDING_IMPORT", "LOST"} THEN left \union {d} ELSE left
      /\ move' = [move EXCEPT ![d] = Still]
      /\ UNCHANGED <<carries, purchase, booking>>
  BY DEF CommitStatus
<1>2. status[d] \notin {"NONE", "VOIDED"} /\ next \in DeviceStatus /\ next # "VOIDED"
  BY DEF CommitStatus, IInv, TypeOK, MoveOK
<1>3. claim[d] \subseteq carries[d] /\ move[d].take \subseteq carries[d]
  BY DEF CommitStatus, IInv, ClaimsAreInTheShop, MoveOK, TypeOK
<1>4. /\ now \subseteq carries[d]
      /\ next \in Gone => now = {}
      /\ next \notin Gone /\ claim[d] = carries[d] => now = carries[d]
  BY <1>3 DEF FollowStatus
<1> HIDE DEF next, now
<1>5. \A e \in Devices : /\ status'[e] = IF e = d THEN next ELSE status[e]
                         /\ claim'[e] = IF e = d THEN now ELSE claim[e]
                         /\ move'[e] = IF e = d THEN Still ELSE move[e]
  BY <1>1 DEF IInv, TypeOK
<1>6. TypeOK'
  <2>1. status' \in [Devices -> DeviceStatus \union {"NONE"}] /\ left' \subseteq Devices
    BY <1>1, <1>2 DEF IInv, TypeOK
  <2>2. claim' \in [Devices -> SUBSET Numbers]
    BY <1>1, <1>4 DEF IInv, TypeOK
  <2>3. \A e \in Devices : carries'[e] = {} <=> status'[e] \in {"NONE", "VOIDED"}
    BY <1>1, <1>2, <1>5 DEF IInv, TypeOK, DeviceStatus
  <2>4. move' \in [Devices -> [to : DeviceStatus \union {"NONE"}, take : SUBSET Numbers]]
    BY <1>1 DEF IInv, TypeOK, Still
  <2>5. QED
    BY <1>1, <2>1, <2>2, <2>3, <2>4 DEF IInv, TypeOK
<1>7. BookingOK'
  BY <1>1, <1>2, <1>5 DEF IInv, BookingOK
<1>8. LeftOK'
  BY <1>1, <1>5 DEF IInv, LeftOK
<1>9. MoveOK'
  BY <1>1, <1>5 DEF IInv, MoveOK
<1>10. ClaimsAreInTheShop'
  BY <1>1, <1>2, <1>4, <1>5 DEF IInv, ClaimsAreInTheShop, InTheShop, Gone, DeviceStatus
<1>11. StaysClaimed'
  <2>1. ASSUME NEW e \in Devices, e \notin left', InTheShop(e)'
        PROVE  claim'[e] = carries'[e]
    <3>1. CASE e = d
      <4>1. next \notin Gone /\ d \notin left
        BY <1>1, <1>5, <2>1, <3>1 DEF InTheShop, Gone
      <4>2. InTheShop(d)
        BY <1>2, <4>1 DEF IInv, LeftOK, InTheShop, DeviceStatus, TypeOK
      <4>3. QED
        BY <1>1, <1>4, <1>5, <3>1, <4>1, <4>2 DEF IInv, StaysClaimed
    <3>2. CASE e # d
      BY <1>1, <1>5, <2>1, <3>2 DEF IInv, StaysClaimed, InTheShop
    <3>3. QED
      BY <3>1, <3>2
  <2>2. QED
    BY <2>1 DEF StaysClaimed
<1>12. QED
  BY <1>1, <1>6, <1>7, <1>8, <1>9, <1>10, <1>11 DEF IInv

LEMMA AbortStatusStep == ASSUME IInv, NEW d \in Devices, AbortStatus(d) PROVE IInv'
<1>1. /\ move' = [move EXCEPT ![d] = Still]
      /\ UNCHANGED <<status, carries, claim, purchase, left, booking>>
  BY DEF AbortStatus
<1>2. TypeOK'
  BY <1>1 DEF IInv, TypeOK, Still
<1>3. \A e \in Devices : move'[e] = IF e = d THEN Still ELSE move[e]
  BY <1>1 DEF IInv, TypeOK
<1>4. MoveOK'
  BY <1>1, <1>3 DEF IInv, MoveOK
<1>5. QED
  BY <1>1, <1>2, <1>4 DEF IInv, BookingOK, LeftOK, HeldOnce, ClaimsAreInTheShop, StaysClaimed,
                          InTheShop

LEMMA BeginBookingStep == ASSUME IInv, NEW c \in Clients, BeginBooking(c) PROVE IInv'
<1>1. PICK f \in [Devices -> SUBSET Numbers], p \in Purchases \union {None} :
         /\ \A d \in Units(f) : status[d] = "NONE" /\ \A o \in Clients : d \notin Units(booking[o].units)
         /\ booking' = [booking EXCEPT ![c] = [units |-> f, purchase |-> p]]
  BY DEF BeginBooking
<1>2. UNCHANGED <<status, carries, claim, purchase, left, move>>
  BY DEF BeginBooking
<1>3. TypeOK'
  BY <1>1, <1>2 DEF IInv, TypeOK
<1>4. \A o \in Clients : booking'[o] = IF o = c THEN [units |-> f, purchase |-> p] ELSE booking[o]
  BY <1>1 DEF IInv, TypeOK
<1>5. \A d \in Devices : f[d] # {} => status[d] = "NONE" /\ \A o \in Clients : booking[o].units[d] = {}
  BY <1>1 DEF Units
<1>6. BookingOK'
  BY <1>2, <1>4, <1>5 DEF IInv, BookingOK
<1>7. QED
  BY <1>2, <1>3, <1>6 DEF IInv, LeftOK, MoveOK, HeldOnce, ClaimsAreInTheShop, StaysClaimed, InTheShop

LEMMA AbortStep == ASSUME IInv, NEW c \in Clients, Abort(c) PROVE IInv'
<1>1. /\ UNCHANGED <<status, carries, claim, purchase, left, move>>
      /\ booking' = [booking EXCEPT ![c] = NoBooking]
  BY DEF Abort
<1>2. TypeOK'
  BY <1>1, NoBookingType DEF IInv, TypeOK
<1>3. \A o \in Clients, d \in Devices :
         booking'[o].units[d] = IF o = c THEN {} ELSE booking[o].units[d]
  BY <1>1 DEF IInv, TypeOK, NoBooking, NoUnits
<1>4. BookingOK'
  BY <1>1, <1>3 DEF IInv, BookingOK
<1>5. QED
  BY <1>1, <1>2, <1>4 DEF IInv, LeftOK, MoveOK, HeldOnce, ClaimsAreInTheShop, StaysClaimed,
                          InTheShop

\* The handsets of a booking had no row, so no other handset's row is touched.
LEMMA CommitBookingStep == ASSUME IInv, NEW c \in Clients, CommitBooking(c) PROVE IInv'
<1> DEFINE f == booking[c].units
           p == booking[c].purchase
<1>1. /\ status' = [d \in Devices |-> IF d \in Units(f) THEN "IN_STOCK" ELSE status[d]]
      /\ carries' = [d \in Devices |-> IF d \in Units(f) THEN f[d] ELSE carries[d]]
      /\ claim' = [d \in Devices |-> IF d \in Units(f) THEN f[d] ELSE claim[d]]
      /\ HeldOnce(claim')
      /\ purchase' = [q \in Purchases |->
             IF q = p THEN [status |-> "CONFIRMED", devices |-> Units(f)] ELSE purchase[q]]
      /\ booking' = [booking EXCEPT ![c] = NoBooking]
      /\ UNCHANGED <<left, move>>
  BY Zenon DEF CommitBooking
<1>2. f \in [Devices -> SUBSET Numbers] /\ Units(f) \subseteq Devices
  BY DEF IInv, TypeOK, Units
<1>3. \A d \in Devices : (d \in Units(f)) = (f[d] # {})
  BY DEF Units
<1>4. \A d \in Units(f) : status[d] = "NONE"
  BY <1>2, <1>3 DEF IInv, BookingOK
<1>5. \A o \in Clients, d \in Devices :
         booking'[o].units[d] = IF o = c THEN {} ELSE booking[o].units[d]
  BY <1>1 DEF IInv, TypeOK, NoBooking, NoUnits
<1>6. \A o \in Clients, d \in Devices : d \in Units(f) /\ booking[o].units[d] # {} => o = c
  BY <1>3 DEF IInv, BookingOK
<1> HIDE DEF f, p
<1>7. TypeOK'
  <2>1. /\ status' \in [Devices -> DeviceStatus \union {"NONE"}]
        /\ carries' \in [Devices -> SUBSET Numbers]
        /\ claim' \in [Devices -> SUBSET Numbers]
        /\ left' \subseteq Devices
    BY <1>1, <1>2 DEF IInv, TypeOK, DeviceStatus
  <2>2. purchase' \in [Purchases -> [status : {"NONE", "CONFIRMED", "REVERSED"},
                                     devices : SUBSET Devices]]
    BY <1>1, <1>2 DEF IInv, TypeOK
  <2>3. booking' \in [Clients -> [units : [Devices -> SUBSET Numbers],
                                  purchase : Purchases \union {None}]]
    BY <1>1, NoBookingType DEF IInv, TypeOK
  <2>4. \A d \in Devices : carries'[d] = {} <=> status'[d] \in {"NONE", "VOIDED"}
    BY <1>1, <1>3 DEF IInv, TypeOK
  <2>5. QED
    BY <1>1, <2>1, <2>2, <2>3, <2>4 DEF IInv, TypeOK
<1>8. BookingOK'
  <2>1. \A o \in Clients, d \in Devices : booking'[o].units[d] # {} => status'[d] = "NONE"
    BY <1>1, <1>5, <1>6 DEF IInv, BookingOK
  <2>2. \A o, q \in Clients, d \in Devices :
           booking'[o].units[d] # {} /\ booking'[q].units[d] # {} => o = q
    BY <1>5 DEF IInv, BookingOK
  <2>3. QED
    BY <2>1, <2>2 DEF BookingOK
<1>9. LeftOK'
  BY <1>1, <1>3 DEF IInv, LeftOK
<1>10. ClaimsAreInTheShop'
  BY <1>1, <1>3 DEF IInv, ClaimsAreInTheShop, InTheShop
<1>11. StaysClaimed'
  BY <1>1, <1>3 DEF IInv, StaysClaimed, InTheShop
<1>12. MoveOK'
  BY <1>1, <1>4 DEF IInv, MoveOK
<1>13. QED
  BY <1>1, <1>7, <1>8, <1>9, <1>10, <1>11, <1>12 DEF IInv

LEMMA ReversePurchaseStep == ASSUME IInv, NEW p \in Purchases, ReversePurchase(p) PROVE IInv'
<1> DEFINE D == purchase[p].devices
<1>1. /\ \A d \in D : status[d] = "IN_STOCK" /\ move[d] = Still
      /\ status' = [d \in Devices |-> IF d \in D THEN "VOIDED" ELSE status[d]]
      /\ carries' = [d \in Devices |-> IF d \in D THEN {} ELSE carries[d]]
      /\ claim' = [d \in Devices |-> IF d \in D THEN {} ELSE claim[d]]
      /\ purchase' = [purchase EXCEPT ![p].status = "REVERSED"]
      /\ UNCHANGED <<left, booking, move>>
  BY Zenon DEF ReversePurchase, Kept
<1>2. D \subseteq Devices
  BY DEF IInv, TypeOK
<1>3. purchase' \in [Purchases -> [status : {"NONE", "CONFIRMED", "REVERSED"},
                                   devices : SUBSET Devices]]
  BY <1>1 DEF IInv, TypeOK
<1> HIDE DEF D
<1>4. TypeOK'
  <2>1. /\ status' \in [Devices -> DeviceStatus \union {"NONE"}]
        /\ carries' \in [Devices -> SUBSET Numbers]
        /\ claim' \in [Devices -> SUBSET Numbers]
    BY <1>1 DEF IInv, TypeOK, DeviceStatus
  <2>2. \A d \in Devices : carries'[d] = {} <=> status'[d] \in {"NONE", "VOIDED"}
    BY <1>1 DEF IInv, TypeOK
  <2>3. QED
    BY <1>1, <1>3, <2>1, <2>2 DEF IInv, TypeOK
<1>5. BookingOK'
  BY <1>1 DEF IInv, BookingOK
<1>6. LeftOK'
  BY <1>1 DEF IInv, LeftOK
<1>7. HeldOnce(claim')
  BY <1>1 DEF IInv, HeldOnce
<1>8. ClaimsAreInTheShop'
  BY <1>1 DEF IInv, ClaimsAreInTheShop, InTheShop
<1>9. StaysClaimed'
  BY <1>1 DEF IInv, StaysClaimed, InTheShop
<1>10. MoveOK'
  BY <1>1 DEF IInv, MoveOK
<1>11. QED
  BY <1>4, <1>5, <1>6, <1>7, <1>8, <1>9, <1>10 DEF IInv

LEMMA NextIInv == IInv /\ [Next]_vars => IInv'
<1> SUFFICES ASSUME IInv, [Next]_vars PROVE IInv'
  OBVIOUS
<1>1. CASE UNCHANGED vars
  BY <1>1 DEF vars, IInv, TypeOK, BookingOK, LeftOK, MoveOK, HeldOnce, ClaimsAreInTheShop, StaysClaimed,
              InTheShop
<1>2. ASSUME NEW d \in Devices, DeviceStep(d) \/ CommitStatus(d) \/ AbortStatus(d) PROVE IInv'
  BY <1>2, DeviceStepIsSet, SetDeviceStatusStep, CommitStatusStep, AbortStatusStep
<1>3. ASSUME NEW c \in Clients, BeginBooking(c) \/ CommitBooking(c) \/ Abort(c) PROVE IInv'
  BY <1>3, BeginBookingStep, CommitBookingStep, AbortStep
<1>4. ASSUME NEW p \in Purchases, ReversePurchase(p) PROVE IInv'
  BY <1>4, ReversePurchaseStep
<1>5. QED
  BY <1>1, <1>2, <1>3, <1>4 DEF Next

LEMMA Inductive == Spec => []IInv
BY InitIInv, NextIInv, PTL DEF Spec

-----------------------------------------------------------------------------
(* Every step is one of the registry's or changes nothing of it.           *)

Holders == [n \in Numbers |-> {d \in Devices : n \in claim[d]}]

\* The index alone makes this a Take: what the trigger found free may be held by now.
LEMMA CommitStatusRefines == ASSUME IInv, NEW d \in Devices, CommitStatus(d) PROVE Registry!Next
<1>1. /\ claim' = [claim EXCEPT ![d] = FollowStatus(d)]
      /\ HeldOnce(claim')
  BY DEF CommitStatus
<1>2. \A e \in Devices : claim'[e] = IF e = d THEN FollowStatus(d) ELSE claim[e]
  BY <1>1 DEF IInv, TypeOK
<1>3. CASE move[d].to \in Gone
  <2>1. Holders' = [n \in Numbers |-> Holders[n] \ {d}]
    BY <1>2, <1>3 DEF Holders, FollowStatus
  <2>2. {d} \in SUBSET Devices
    OBVIOUS
  <2>3. Registry!GiveUp
    BY <2>1, <2>2 DEF Registry!GiveUp, Holders
  <2>4. QED
    BY <2>3 DEF Registry!Next
<1>4. CASE move[d].to \notin Gone
  <2> DEFINE T == move[d].take \ claim[d]
             f == [n \in T |-> d]
  <2>1. T \in SUBSET Numbers /\ f \in [T -> Devices]
    BY DEF IInv, TypeOK
  <2>2. claim'[d] = claim[d] \union T
    BY <1>2, <1>4 DEF FollowStatus
  <2>3. \A n \in T : Holders[n] = {}
    <3>1. ASSUME NEW n \in T, NEW e \in Devices, n \in claim[e] PROVE FALSE
      <4>1. e # d /\ n \in claim'[e] /\ n \in claim'[d]
        BY <1>2, <2>2, <3>1
      <4>2. QED
        BY <1>1, <4>1 DEF HeldOnce
    <3>2. QED
      BY <2>1, <3>1 DEF Holders
  <2>4. Holders' = [n \in Numbers |-> IF n \in T THEN {f[n]} ELSE Holders[n]]
    <3>1. ASSUME NEW n \in Numbers
          PROVE  {e \in Devices : n \in claim'[e]} = IF n \in T THEN {d} ELSE Holders[n]
      <4>1. CASE n \in T
        BY <1>2, <2>2, <2>3, <4>1 DEF Holders
      <4>2. CASE n \notin T
        BY <1>2, <2>2, <4>2 DEF Holders
      <4>3. QED
        BY <4>1, <4>2
    <3>2. QED
      BY <3>1 DEF Holders
  <2> HIDE DEF T, f
  <2>5. Registry!Take
    BY <2>1, <2>3, <2>4 DEF Registry!Take, Holders
  <2>6. QED
    BY <2>5 DEF Registry!Next
<1>5. QED
  BY <1>3, <1>4

\* The check of assertIdentifiersFree may be stale by now: the index alone makes this a Take.
LEMMA CommitBookingRefines == ASSUME IInv, NEW c \in Clients, CommitBooking(c) PROVE Registry!Next
<1> DEFINE f == booking[c].units
           T == UNION {f[d] : d \in Devices}
           g == [n \in T |-> CHOOSE d \in Devices : n \in f[d]]
<1>1. f \in [Devices -> SUBSET Numbers]
  BY DEF IInv, TypeOK
<1>2. \A d \in Devices : claim'[d] = IF f[d] # {} THEN f[d] ELSE claim[d]
  BY DEF CommitBooking, Units
<1>3. \A d, e \in Devices : d # e => claim'[d] \intersect claim'[e] = {}
  BY DEF CommitBooking, HeldOnce
<1>4. \A d \in Devices : f[d] # {} => claim[d] = {}
  <2>1. \A d \in Devices : f[d] # {} => status[d] = "NONE"
    BY DEF IInv, BookingOK
  <2>2. QED
    BY <2>1 DEF IInv, ClaimsAreInTheShop, InTheShop
<1> HIDE DEF f
<1>5. T \in SUBSET Numbers /\ \A n \in T : g[n] \in Devices /\ n \in f[g[n]]
  BY <1>1
<1>6. g \in [T -> Devices]
  BY <1>5
<1>7. \A n \in Numbers \ T : \A d \in Devices : n \notin f[d]
  OBVIOUS
<1> HIDE DEF T, g
<1>8. \A n \in T : Holders[n] = {}
  <2>1. ASSUME NEW n \in T, NEW e \in Devices, n \in claim[e] PROVE FALSE
    <3>1. f[e] = {} /\ n \in claim'[e] /\ n \in claim'[g[n]]
      BY <1>2, <1>4, <1>5, <2>1
    <3>2. e = g[n]
      BY <1>3, <1>5, <3>1
    <3>3. QED
      BY <1>5, <3>1, <3>2
  <2>2. QED
    BY <1>5, <2>1 DEF Holders
<1>9. Holders' = [n \in Numbers |-> IF n \in T THEN {g[n]} ELSE Holders[n]]
  <2>1. ASSUME NEW n \in Numbers
        PROVE  {e \in Devices : n \in claim'[e]} = IF n \in T THEN {g[n]} ELSE Holders[n]
    <3>1. CASE n \in T
      <4>1. n \in claim'[g[n]]
        BY <1>2, <1>5, <3>1
      <4>2. QED
        BY <1>3, <1>5, <3>1, <4>1
    <3>2. CASE n \notin T
      BY <1>2, <1>4, <1>7, <3>2 DEF Holders
    <3>3. QED
      BY <3>1, <3>2
  <2>2. QED
    BY <2>1 DEF Holders
<1>10. Registry!Take
  BY <1>5, <1>6, <1>8, <1>9 DEF Registry!Take, Holders
<1>11. QED
  BY <1>10 DEF Registry!Next

LEMMA ReversePurchaseRefines ==
    ASSUME IInv, NEW p \in Purchases, ReversePurchase(p) PROVE Registry!Next
<1>1. purchase[p].devices \in SUBSET Devices
  BY DEF IInv, TypeOK
<1>2. claim' = [d \in Devices |-> IF d \in purchase[p].devices THEN {} ELSE claim[d]]
  BY DEF ReversePurchase
<1>3. Holders' = [n \in Numbers |-> Holders[n] \ purchase[p].devices]
  BY <1>2 DEF Holders
<1>4. Registry!GiveUp
  BY <1>1, <1>3 DEF Registry!GiveUp, Holders
<1>5. QED
  BY <1>4 DEF Registry!Next

LEMMA StepRefines == IInv /\ [Next]_vars => [Registry!Next]_Holders
<1> SUFFICES ASSUME IInv, [Next]_vars PROVE [Registry!Next]_Holders
  OBVIOUS
<1>1. CASE UNCHANGED claim
  BY <1>1 DEF Holders
<1>2. ASSUME NEW d \in Devices, CommitStatus(d) PROVE Registry!Next
  BY <1>2, CommitStatusRefines
<1>3. /\ \A c \in Clients : BeginBooking(c) \/ Abort(c) => UNCHANGED claim
      /\ \A d \in Devices : DeviceStep(d) \/ AbortStatus(d) => UNCHANGED claim
  <2>1. \A c \in Clients : BeginBooking(c) \/ Abort(c) => UNCHANGED claim
    BY DEF BeginBooking, Abort
  <2>2. \A d \in Devices : AbortStatus(d) => UNCHANGED claim
    BY DEF AbortStatus
  <2>3. ASSUME NEW d \in Devices, DeviceStep(d) PROVE UNCHANGED claim
    BY <2>3, DeviceStepIsSet DEF SetDeviceStatus
  <2>4. QED
    BY <2>1, <2>2, <2>3
<1>4. ASSUME NEW c \in Clients, CommitBooking(c) PROVE Registry!Next
  BY <1>4, CommitBookingRefines
<1>5. ASSUME NEW p \in Purchases, ReversePurchase(p) PROVE Registry!Next
  BY <1>5, ReversePurchaseRefines
<1>6. QED
  BY <1>1, <1>2, <1>3, <1>4, <1>5 DEF Next, vars

-----------------------------------------------------------------------------
(* The results.                                                            *)

\* Every state has rows of their types, and a handset carries a number exactly from its
\* booking until it is voided (createDevice, reversePurchase).
THEOREM Types == Spec => []TypeOK
BY Inductive, PTL DEF IInv

\* A number is held by at most one handset, however bookings and returns of it overlap
\* (migration 0029).
THEOREM OneHolder == Spec => []HeldOnce(claim)
BY Inductive, PTL DEF IInv

\* A handset that is sold, written off or voided blocks the purchase of no number,
\* whichever handler put it there.
THEOREM ClaimsFollowTheHandset == Spec => []ClaimsAreInTheShop
BY Inductive, PTL DEF IInv

\* A handset that never left the shop holds all of its numbers.
THEOREM NeverLeftStaysClaimed == Spec => []StaysClaimed
BY Inductive, PTL DEF IInv

\* The rows, the index, the trigger and the handlers implement the registry: a number has one
\* holder, only free numbers are taken, and who goes gives up all of them.
THEOREM ImplementsRegistry == Spec => RegistrySpec
<1>1. Init => Registry!Init
  BY DEF Init, NoUnits, Registry!Init
<1>2. IInv /\ [Next]_vars => [Registry!Next]_Holders
  BY StepRefines
<1>3. QED
  BY <1>1, <1>2, Inductive, PTL DEF Spec, RegistrySpec, Registry!Spec, Holders
=============================================================================
