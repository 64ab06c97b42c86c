---------------------------- MODULE MCLightning ----------------------------
(***************************************************************************)
(* Two channels for TLC: one closed by a commitment that was revoked,      *)
(* whose outputs are spent by an ordinary script and by a penalty; and one *)
(* by a commitment that was not, with one output.                             *)
(***************************************************************************)
EXTENDS Lightning

Penalty == [commitment |-> TRUE, outputs |-> {"lightning", "revocation"}]
Forced == [commitment |-> TRUE, outputs |-> {"lightning"}]

InstanceClosing == [c \in Channels |-> IF c = 1 THEN Penalty ELSE Forced]
=============================================================================
