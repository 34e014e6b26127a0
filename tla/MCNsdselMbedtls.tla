-------------------------- MODULE MCNsdselMbedtls --------------------------
(* Two TLS sessions and one plain session, records of two units read one  *)
(* unit at a time, so a record always leaves plaintext buffered.          *)
EXTENDS NsdselMbedtls
CONSTANTS d1, d2, d3
MCDrivers == {d1, d2, d3}
MCiMode == [d \in MCDrivers |-> IF d = d3 THEN 0 ELSE 1]
(* d1 is a server session that may arrive with its handshake pending. *)
MCMayPend == {d1}
(* Two TLS sessions sending two records each, so that a record arrives *)
(* while part of the previous one is still buffered.                   *)
MCTlsDrivers == {d1, d2}
MCTlsMode == [d \in MCTlsDrivers |-> 1]
MCTlsMayPend == MCTlsDrivers
=============================================================================
