----------------------------- MODULE MCBilling -----------------------------
(* Two keyed requests and one without a key, numbered in two series.       *)
EXTENDS Billing, TLC

CONSTANTS r1, r2, r3, s1, s2

MCRequests == {r1, r2, r3}
MCKeyed == {r1, r2}
MCSeries == {s1, s2}
MCSeriesOf == (r1 :> s1) @@ (r2 :> s1) @@ (r3 :> s2)
=============================================================================
