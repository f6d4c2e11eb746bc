----------------------- MODULE MCPublicationPipeline -----------------------
(* Two products of the same project version, the second with a new Xen     *)
(* Orchestra pin.                                                          *)
EXTENDS PublicationPipeline

CONSTANTS p1, p2, xo, version

MCXoTag == [p \in Product |-> IF p = p2 THEN xo ELSE None]
MCProjectTag == [p \in Product |-> version]
=============================================================================
