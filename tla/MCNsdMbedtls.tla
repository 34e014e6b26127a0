--------------------------- MODULE MCNsdMbedtls ---------------------------
(* Model values for the driver objects and peer names, and the global    *)
(* default credential files the objects fall back to.                    *)
EXTENDS NsdMbedtls

CONSTANTS c1, l1, a1, n1, n2

MCClients == {c1}
MCNoClients == {}
MCListeners == {l1}
MCNoListeners == {}
MCAccepted == {a1}
MCNoAccepted == {}
MCNames == {n1, n2}
(* Default key, certificate and CA parse; no default CRL. *)
MCDflt == [key |-> "good", cert |-> "good", ca |-> "good", crl |-> None]
(* Verify depths for the client run: SetTlsVerifyDepth takes any int, *)
(* and a negative one makes the callback reject every chain.          *)
MCClientDepths == {-1, 0, 1}
=============================================================================
