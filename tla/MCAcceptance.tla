----------------------------- MODULE MCAcceptance -----------------------------
(***************************************************************************)
(* Two workbooks that restate one another, uploaded one by one, together   *)
(* against the order of their names, or once more by force.                *)
(***************************************************************************)
EXTENDS Acceptance

Sent(files, force) == [files |-> files, force |-> force]
PartsDef == {Sent(<<1>>, FALSE), Sent(<<2>>, FALSE), Sent(<<2, 1>>, FALSE), Sent(<<2>>, TRUE)}
=============================================================================
