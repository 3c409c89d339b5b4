----------------------------- MODULE MCReceive -----------------------------
(* Receive on bodies of a few bytes, cut into chunks of three.              *)
EXTENDS Receive

AnyWay   == {"whole", "short", "closed", "reset"}
CutShort == {"whole", "closed"}
=============================================================================
