--------------------------- MODULE NumberRegistry ---------------------------
(***************************************************************************)
(* What the shop is promised of IMEIs and serial numbers: a number is held *)
(* by one device at a time, only a free number is taken, and a device      *)
(* that goes gives up everything it holds (migration 0029, first comment). *)
(***************************************************************************)
CONSTANTS Devices, Numbers

VARIABLE holders    \* for each number, the devices that hold it

Init == holders = [n \in Numbers |-> {}]

\* Devices take numbers, each of them free and for one device only.
Take ==
    \E T \in SUBSET Numbers : \E f \in [T -> Devices] :
        /\ \A n \in T : holders[n] = {}
        /\ holders' = [n \in Numbers |-> IF n \in T THEN {f[n]} ELSE holders[n]]

\* Some devices give up their numbers, all of them.
GiveUp ==
    \E S \in SUBSET Devices : holders' = [n \in Numbers |-> holders[n] \ S]

Next == Take \/ GiveUp

Spec == Init /\ [][Next]_holders
=============================================================================
