--------------------------- MODULE MCSubscription ---------------------------
(* Instances of Subscription for TLC: one own key and one or two others.   *)
EXTENDS Subscription

CONSTANTS own, k1, k2

TwoKeys   == {own, k1}
ThreeKeys == {own, k1, k2}
OneOwn    == {own}
=============================================================================
