---------------------------- MODULE MCMessengers ----------------------------
(* Two calls over every channel, one of which may cancel what the other reserved. *)
EXTENDS Messengers, TLC

CONSTANTS c1, c2

SmallCall == {c1, c2}
=============================================================================
