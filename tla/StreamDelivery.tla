--------------------------- MODULE StreamDelivery ---------------------------
(***************************************************************************)
(* What the driver's read path and the select layer together promise each  *)
(* session's reader: the units the peer sent are handed over in order,     *)
(* none lost and none twice, every unit sent is eventually handed over,    *)
(* and the session is closed only after the peer ended its stream and     *)
(* every unit it sent was handed over; a stream the peer ended is          *)
(* eventually closed.  Data is counted in units: in-order delivery of a    *)
(* byte stream is the growth of a prefix, so a count is enough.            *)
(***************************************************************************)
EXTENDS Naturals

CONSTANTS
  Drivers,   \* the sessions
  Chunk,     \* units the peer sends at a time
  MaxSent    \* bound: chunks one peer sends

VARIABLES
  sent,      \* [Drivers -> Nat] units the peer has sent
  rcvd,      \* [Drivers -> Nat] units handed to the reader: a prefix of them
  ended,     \* [Drivers -> BOOLEAN] the peer ended its stream
  closed     \* [Drivers -> BOOLEAN] the reader has given the session up

svars == <<sent, rcvd, ended, closed>>

StreamTypeOK ==
  /\ sent \in [Drivers -> 0..MaxSent * Chunk]
  /\ rcvd \in [Drivers -> 0..MaxSent * Chunk]
  /\ ended \in [Drivers -> BOOLEAN] /\ closed \in [Drivers -> BOOLEAN]

SInit ==
  /\ sent = [d \in Drivers |-> 0] /\ rcvd = [d \in Drivers |-> 0]
  /\ ended = [d \in Drivers |-> FALSE] /\ closed = [d \in Drivers |-> FALSE]

PeerWrites(d) ==
  /\ ~ended[d] /\ sent[d] < MaxSent * Chunk
  /\ sent' = [sent EXCEPT ![d] = @ + Chunk]
  /\ UNCHANGED <<rcvd, ended, closed>>

PeerEnds(d) ==
  /\ ~ended[d]
  /\ ended' = [ended EXCEPT ![d] = TRUE]
  /\ UNCHANGED <<sent, rcvd, closed>>

(* The reader is handed the next one or more units, in order. *)
Hand(d) ==
  /\ ~closed[d] /\ rcvd[d] < sent[d]
  /\ \E n \in 1..(sent[d] - rcvd[d]) : rcvd' = [rcvd EXCEPT ![d] = @ + n]
  /\ UNCHANGED <<sent, ended, closed>>

(* The session is closed once the stream ended and was read to its end. *)
Close(d) ==
  /\ ~closed[d] /\ ended[d] /\ rcvd[d] = sent[d]
  /\ closed' = [closed EXCEPT ![d] = TRUE]
  /\ UNCHANGED <<sent, rcvd, ended>>

SNext == \E d \in Drivers : PeerWrites(d) \/ PeerEnds(d) \/ Hand(d) \/ Close(d)

(* The reader serves every session: what can be handed over is, and an   *)
(* ended stream read to its end is closed.  The peers owe nothing.       *)
SSpec ==
  /\ SInit /\ [][SNext]_svars
  /\ \A d \in Drivers : WF_svars(Hand(d)) /\ WF_svars(Close(d))

=============================================================================
