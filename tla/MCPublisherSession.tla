------------------------- MODULE MCPublisherSession -------------------------
(* Instances of PublisherSession for TLC: two pages of one account. *)
EXTENDS PublisherSession

CONSTANTS u1, t1, t2, s1, s2

OneUser == {u1}
TwoTabs == {t1, t2}
TwoSids == {s1, s2}
Owners  == [t \in TwoTabs |-> u1]
=============================================================================
