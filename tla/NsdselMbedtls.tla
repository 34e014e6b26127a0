---------------------------- MODULE NsdselMbedtls ----------------------------
(***************************************************************************)
(* The select() layer of the Mbed TLS stream driver                        *)
(* (runtime/nsdsel_mbedtls.c: Add, Select, IsReady) composed with the read *)
(* path of the driver it serves (runtime/nsd_mbedtls.c: Rcv) and with the  *)
(* poll loop that uses both.                                               *)
(*                                                                         *)
(* One nsdsel_mbedtls object lives for one polling round: the interface    *)
(* has no way to remove a socket from the aggregated nsdsel_ptcp set, so   *)
(* the loop constructs a fresh object (iBufferRcvReady = 0, empty set),    *)
(* Adds every open session, Selects once, asks IsReady for every session   *)
(* it added and calls Rcv on each one reported ready, then destructs it.   *)
(*                                                                         *)
(* A TLS session may hold decrypted plaintext (mbedtls_ssl_get_bytes_avail)*)
(* that the OS cannot see.  Such sessions are not registered with the      *)
(* nested poll; they are counted in iBufferRcvReady and Select returns     *)
(* without waiting ("dummy select").                                       *)
(*                                                                         *)
(* Data is abstracted to counts of units.  A TLS peer sends records of     *)
(* RecLen units, a plain peer sends segments of RecLen units; Rcv returns  *)
(* at most RcvLen units, so RcvLen < RecLen leaves plaintext buffered.     *)
(* The aggregated nsdsel_ptcp and nsd_ptcp are not part of this            *)
(* repository; PtcpIsReady and RcvPlain follow the spec's description.     *)
(*                                                                         *)
(* AcceptConnReq hands a TLS session over with its handshake still        *)
(* pending when mbedtls_ssl_handshake wanted more input (nsd_mbedtls.c     *)
(* line 771); the next Rcv's mbedtls_ssl_read then drives the handshake   *)
(* before it reads any record.  The peer's remaining handshake flight is   *)
(* one message in the socket, good or bad (a certificate the verify       *)
(* callback or the library rejects); the peer sends application data only *)
(* once the handshake is done, as TLS requires.                            *)
(***************************************************************************)
EXTENDS Naturals, FiniteSets

CONSTANTS
  Drivers,   \* the sessions (nsd_mbedtls_t objects) served by the loop
  iMode,     \* [Drivers -> {0, 1}]: 0 plain tcp, 1 TLS
  RecLen,    \* plaintext units in one TLS record or one plain segment
  RcvLen,    \* the buffer size Rcv is called with (*pLenBuf on entry)
  MaxSent,   \* bound: records or segments one peer sends
  MayPend,   \* the TLS sessions that may be handed over mid-handshake
  None       \* no session

ASSUME iMode \in [Drivers -> {0, 1}]
ASSUME RecLen \in Nat \ {0} /\ RcvLen \in Nat \ {0} /\ MaxSent \in Nat
ASSUME None \notin Drivers
ASSUME \A d \in MayPend : iMode[d] = 1

(* How a peer ends its stream: still open, TLS close_notify then FIN,     *)
(* FIN without close_notify, or a connection reset.                        *)
Tails == {"open", "notify", "fin", "reset"}

(* Rcv return codes (rsRetVal) that the model tells apart. *)
RetVals == {"OK", "RETRY", "CLOSED", "EOF", "RCV_ERR", "IO_ERR"}

(* The session's handshake state, and the peer flight in the socket. *)
HsStates == {"pending", "done", "failed"}
Flights == {"none", "good", "bad"}

VARIABLES
  sock,      \* [Drivers -> Nat] records/units unread in the OS socket
  tail,      \* [Drivers -> Tails] what follows them on the connection
  sslBuf,    \* [Drivers -> Nat] mbedtls_ssl_get_bytes_avail(&ssl)
  sent,      \* history: units each peer has sent
  rcvd,      \* history: units Rcv has returned to the caller
  hs,        \* [Drivers -> HsStates] the ssl context's handshake state
  hsIn,      \* [Drivers -> Flights] peer handshake flight unread in the socket
  open,      \* [Drivers -> BOOLEAN] the loop still serves the session
  lastRet,   \* the rsRetVal of the most recent Rcv
  iBufferRcvReady, \* nsdsel_mbedtls_t.iBufferRcvReady
  tcpSet,    \* sessions registered with the nested nsdsel_ptcp (pTcp)
  polled,    \* TRUE once the nested nsdsel_ptcp.Select ran this round
  revents,   \* sessions the nested poll reported readable
  phase,     \* poll loop: "add" (Add, then Select) or "check" (IsReady/Rcv)
  toAdd,     \* sessions still to be Added this round
  toCheck,   \* sessions still to be asked IsReady this round
  dummy,     \* history: sessions Add counted in iBufferRcvReady this round
  rdy        \* the session IsReady just reported ready, awaiting Rcv

net  == <<sock, tail, sslBuf, sent, rcvd, hs, hsIn, open, lastRet>>
sel  == <<iBufferRcvReady, tcpSet, polled, revents>>
loop == <<phase, toAdd, toCheck, dummy, rdy>>
vars == <<net, sel, loop>>

Smaller(a, b) == IF a < b THEN a ELSE b

(* The OS reports the socket readable: unread data or the end of stream. *)
OSReadable(d) == sock[d] > 0 \/ hsIn[d] # "none" \/ tail[d] # "open"

TypeOK ==
  /\ sock \in [Drivers -> 0..MaxSent * RecLen]
  /\ tail \in [Drivers -> Tails]
  /\ sslBuf \in [Drivers -> 0..RecLen]
  /\ sent \in [Drivers -> 0..MaxSent * RecLen]
  /\ rcvd \in [Drivers -> 0..MaxSent * RecLen]
  /\ hs \in [Drivers -> HsStates] /\ hsIn \in [Drivers -> Flights]
  /\ open \in [Drivers -> BOOLEAN]
  /\ lastRet \in RetVals \cup {None}
  /\ iBufferRcvReady \in Nat
  /\ tcpSet \subseteq Drivers /\ revents \subseteq tcpSet
  /\ polled \in BOOLEAN
  /\ phase \in {"add", "check"}
  /\ toAdd \subseteq Drivers /\ toCheck \subseteq Drivers
  /\ dummy \subseteq Drivers
  /\ rdy \in Drivers \cup {None}

-----------------------------------------------------------------------------
(* nsdsel_mbedtls.c                                                        *)

(* Construct: iBufferRcvReady = 0 and a fresh nsdsel_ptcp. *)
Construct ==
  /\ iBufferRcvReady' = 0
  /\ tcpSet' = {}
  /\ polled' = FALSE
  /\ revents' = {}

(* Fault variant: the buffered-bytes test off by one. *)
AddSeesBufferedBug(d) == iMode[d] = 1 /\ sslBuf[d] > 1

(* Add, line 72-73: TLS mode, waitOp == NSDSEL_RD, bytes already buffered. *)
AddSeesBuffered(d) == iMode[d] = 1 /\ sslBuf[d] # 0

Add(d) ==
  /\ phase = "add" /\ d \in toAdd
  /\ toAdd' = toAdd \ {d}
  /\ IF AddSeesBuffered(d)
       THEN /\ iBufferRcvReady' = iBufferRcvReady + 1
            /\ dummy' = dummy \cup {d}
            /\ UNCHANGED tcpSet
       ELSE /\ tcpSet' = tcpSet \cup {d}
            /\ UNCHANGED <<iBufferRcvReady, dummy>>
  /\ UNCHANGED <<net, polled, revents, phase, toCheck, rdy>>

(* Fault variant: the dummy branch taken on a zero count. *)
HaveDummyReadyBug == iBufferRcvReady >= 0

(* Select, line 101: a dummy select is done while the count is positive. *)
HaveDummyReady == iBufferRcvReady > 0

(* Select: the dummy branch returns at once; otherwise nsdsel_ptcp.Select *)
(* polls the registered sockets with no timeout, i.e. it returns only     *)
(* once one of them is readable.                                          *)
Select ==
  /\ phase = "add" /\ toAdd = {}
  /\ \/ /\ HaveDummyReady
        /\ UNCHANGED <<polled, revents>>
     \/ /\ ~HaveDummyReady
        /\ \E d \in tcpSet : OSReadable(d)
        /\ polled' = TRUE
        /\ revents' = {d \in tcpSet : OSReadable(d)}
  /\ phase' = "check"
  /\ toCheck' = dummy \cup tcpSet
  /\ UNCHANGED <<net, iBufferRcvReady, tcpSet, toAdd, dummy, rdy>>

(* Fault variants: the buffered-bytes test off by one, or always true. *)
IsReadySeesBufferedOffByOne(d) == iMode[d] = 1 /\ sslBuf[d] > 1
IsReadySeesBufferedAny(d) == iMode[d] = 1 /\ sslBuf[d] >= 0

(* IsReady, line 123-124: TLS mode, NSDSEL_RD, bytes available > 0. *)
IsReadySeesBuffered(d) == iMode[d] = 1 /\ sslBuf[d] > 0

(* nsdsel_ptcp.IsReady reads the poll result of the round; when the      *)
(* nested poll was skipped that result is whatever the descriptor array  *)
(* held, so any answer is possible.                                       *)
PtcpIsReady(d) == IF polled THEN {d \in revents} ELSE BOOLEAN

IsReady(d) ==
  /\ phase = "check" /\ rdy = None /\ d \in toCheck
  /\ toCheck' = toCheck \ {d}
  /\ IF IsReadySeesBuffered(d)
       THEN /\ iBufferRcvReady' = iBufferRcvReady - 1
            /\ rdy' = d
       ELSE /\ UNCHANGED iBufferRcvReady
            /\ IF iBufferRcvReady # 0
                 THEN rdy' = None
                 ELSE \E r \in PtcpIsReady(d) : rdy' = IF r THEN d ELSE None
  /\ UNCHANGED <<net, tcpSet, polled, revents, phase, toAdd, dummy>>

-----------------------------------------------------------------------------
(* nsd_mbedtls.c Rcv, TLS mode: mbedtls_ssl_read() returns buffered       *)
(* plaintext first, else decrypts the next record and buffers what does   *)
(* not fit, else reports the end of the stream, else wants more input.    *)

Deliver(d, n) == rcvd' = [rcvd EXCEPT ![d] = @ + n]

(* The next record is decrypted; the part beyond *pLenBuf stays buffered. *)
ReadRecord(d) ==
  /\ sslBuf[d] = 0 /\ sock[d] > 0
  /\ sock' = [sock EXCEPT ![d] = @ - 1]
  /\ sslBuf' = [sslBuf EXCEPT ![d] = RecLen - Smaller(RecLen, RcvLen)]
  /\ Deliver(d, Smaller(RecLen, RcvLen))

(* Fault variant: WANT_READ not taken as a retry but as an error. *)
NoInputNoRetry(d) ==
  CASE tail[d] = "notify" -> "CLOSED"
    [] tail[d] = "fin"    -> "EOF"
    [] OTHER              -> "RCV_ERR"

(* Rcv line 808-820 when mbedtls_ssl_read on an established session      *)
(* finds no record to read: wants more input (RETRY), the peer's         *)
(* close_notify alert (CLOSED), the connection's EOF, which mbedtlsNetRecv *)
(* passes up as 0 and mbedtls_ssl_read returns as 0 (EOF, line 819), or   *)
(* a reset (MBEDTLS_ERR_NET_CONN_RESET, RCV_ERR).                         *)
NoInput(d) ==
  CASE tail[d] = "open"   -> "RETRY"
    [] tail[d] = "notify" -> "CLOSED"
    [] tail[d] = "fin"    -> "EOF"
    [] OTHER              -> "RCV_ERR"

(* The same inside mbedtls_ssl_handshake, which returns the connection's *)
(* EOF as the negative MBEDTLS_ERR_SSL_CONN_EOF (RCV_ERR, line 814).     *)
HandshakeNoInput(d) == IF tail[d] = "fin" THEN "RCV_ERR" ELSE NoInput(d)

(* mbedtls_ssl_read on a session whose handshake is pending first runs  *)
(* mbedtls_ssl_handshake: a good flight completes it and the read goes  *)
(* on to find no record yet (the peer waits for our Finished); a bad one *)
(* fails it (RCV_ERR); without the flight the handshake wants input.     *)
HandshakeStep(d) ==
  /\ hs[d] = "pending"
  /\ \/ /\ hsIn[d] = "good"
        /\ hs' = [hs EXCEPT ![d] = "done"]
        /\ lastRet' = NoInput(d)
     \/ /\ hsIn[d] = "bad"
        /\ hs' = [hs EXCEPT ![d] = "failed"]
        /\ lastRet' = "RCV_ERR"
     \/ /\ hsIn[d] = "none"
        /\ lastRet' = HandshakeNoInput(d)
        /\ UNCHANGED hs
  /\ hsIn' = [hsIn EXCEPT ![d] = "none"]
  /\ UNCHANGED <<sock, sslBuf, rcvd>>

RcvRecords(d) ==
  \/ /\ sslBuf[d] > 0
     /\ sslBuf' = [sslBuf EXCEPT ![d] = @ - Smaller(@, RcvLen)]
     /\ Deliver(d, Smaller(sslBuf[d], RcvLen))
     /\ lastRet' = "OK"
     /\ UNCHANGED sock
  \/ ReadRecord(d) /\ lastRet' = "OK"
  \/ /\ sslBuf[d] = 0 /\ sock[d] = 0
     /\ lastRet' = NoInput(d)
     /\ UNCHANGED <<sock, sslBuf, rcvd>>

RcvTls(d) ==
  \/ HandshakeStep(d)
  \/ /\ hs[d] = "done"
     /\ RcvRecords(d)
     /\ UNCHANGED <<hs, hsIn>>

(* nsd_ptcp.Rcv, to which Rcv delegates in mode 0. *)
RcvPlain(d) ==
  /\ \/ /\ sock[d] > 0
        /\ sock' = [sock EXCEPT ![d] = @ - Smaller(@, RcvLen)]
        /\ Deliver(d, Smaller(sock[d], RcvLen))
        /\ lastRet' = "OK"
     \/ /\ sock[d] = 0
        /\ lastRet' = CASE tail[d] = "open" -> "RETRY"
                        [] tail[d] = "fin"  -> "CLOSED"
                        [] OTHER            -> "IO_ERR"
        /\ UNCHANGED <<sock, rcvd>>
  /\ UNCHANGED <<sslBuf, hs, hsIn>>

(* Rcv on the session reported ready; bAbortConn is never set in this     *)
(* driver, so the abort check at line 797 never fires.  The loop closes   *)
(* the session on every result other than OK and RETRY.                   *)
Rcv ==
  /\ rdy # None
  /\ IF iMode[rdy] = 1 THEN RcvTls(rdy) ELSE RcvPlain(rdy)
  /\ open' = [open EXCEPT ![rdy] = lastRet' \in {"OK", "RETRY"}]
  /\ rdy' = None
  /\ UNCHANGED <<tail, sent, sel, phase, toAdd, toCheck, dummy>>

-----------------------------------------------------------------------------
(* The poll loop *)

(* Destruct the round's object once every session was checked, then      *)
(* construct the next one and start adding the open sessions.            *)
NewRound ==
  /\ phase = "check" /\ toCheck = {} /\ rdy = None
  /\ Construct
  /\ phase' = "add"
  /\ toAdd' = {d \in Drivers : open[d]}
  /\ dummy' = {}
  /\ UNCHANGED <<net, toCheck, rdy>>

(* The peers *)

(* A TLS peer sends its remaining handshake flight, good or bad. *)
PeerHandshake(d) ==
  /\ tail[d] = "open" /\ hs[d] = "pending" /\ hsIn[d] = "none"
  /\ \E f \in Flights \ {"none"} : hsIn' = [hsIn EXCEPT ![d] = f]
  /\ UNCHANGED <<sock, tail, sslBuf, sent, rcvd, hs, open, lastRet, sel, loop>>

PeerSend(d) ==
  /\ tail[d] = "open" /\ sent[d] < MaxSent * RecLen /\ hs[d] = "done"
  /\ sock' = [sock EXCEPT ![d] = @ + (IF iMode[d] = 1 THEN 1 ELSE RecLen)]
  /\ sent' = [sent EXCEPT ![d] = @ + RecLen]
  /\ UNCHANGED <<tail, sslBuf, rcvd, hs, hsIn, open, lastRet, sel, loop>>

PeerEnd(d) ==
  /\ tail[d] = "open"
  /\ \E t \in (IF iMode[d] = 1 THEN Tails ELSE Tails \ {"notify"}) \ {"open"} :
       tail' = [tail EXCEPT ![d] = t]
  /\ UNCHANGED <<sock, sslBuf, sent, rcvd, hs, hsIn, open, lastRet, sel, loop>>

(* Every session is closed: the loop blocks in poll() for good. *)
Terminated ==
  /\ \A d \in Drivers : ~open[d]
  /\ UNCHANGED vars

-----------------------------------------------------------------------------
Init ==
  /\ sock = [d \in Drivers |-> 0]
  /\ tail = [d \in Drivers |-> "open"]
  /\ sslBuf = [d \in Drivers |-> 0]
  /\ sent = [d \in Drivers |-> 0]
  /\ rcvd = [d \in Drivers |-> 0]
  /\ hs \in {h \in [Drivers -> {"pending", "done"}] :
              \A d \in Drivers \ MayPend : h[d] = "done"}
  /\ hsIn = [d \in Drivers |-> "none"]
  /\ open = [d \in Drivers |-> TRUE]
  /\ lastRet = None
  /\ iBufferRcvReady = 0 /\ tcpSet = {} /\ polled = FALSE /\ revents = {}
  /\ phase = "add" /\ toAdd = Drivers /\ toCheck = {} /\ dummy = {}
  /\ rdy = None

LoopStep ==
  \/ \E d \in Drivers : Add(d)
  \/ Select
  \/ \E d \in Drivers : IsReady(d)
  \/ Rcv
  \/ NewRound

Next ==
  \/ LoopStep
  \/ \E d \in Drivers : PeerHandshake(d) \/ PeerSend(d) \/ PeerEnd(d)
  \/ Terminated

(* The poll loop is one thread that never stops while it can proceed;    *)
(* the peers may stop sending at any time.                               *)
Spec == Init /\ [][Next]_vars /\ WF_vars(LoopStep)

-----------------------------------------------------------------------------
(* Properties *)

(* iBufferRcvReady counts exactly the sessions Add found with buffered   *)
(* plaintext that IsReady has not yet reported this round; so it is zero *)
(* once the round is drained (Add line 74, IsReady line 126).            *)
CounterMatchesDummies ==
  iBufferRcvReady = Cardinality(IF phase = "add" THEN dummy
                                ELSE dummy \cap toCheck)

(* Select never blocks in the OS poll while a session holds decrypted   *)
(* plaintext that poll() cannot see (Add line 73, Select line 101).      *)
NoWaitWithBufferedPlaintext ==
  [][~polled /\ polled' => \A d \in Drivers : open[d] => sslBuf[d] = 0]_vars

(* A peer has ended its stream when its tail left "open" or when its     *)
(* handshake flight is bad: nothing it sends after that is read.         *)
PeerEnded(d) == tail[d] # "open" \/ hsIn[d] = "bad" \/ hs[d] = "failed"

(* The select layer and Rcv implement StreamDelivery: units reach the    *)
(* reader in order, none lost or repeated; whatever was sent is          *)
(* eventually read, so dummy selects never starve a socket and buffered  *)
(* plaintext is never stranded; a session is closed only once its peer   *)
(* ended the stream and all of it was read, and then it is (Add, Select, *)
(* IsReady, and Rcv line 806-822).  The reader's "closed" is the loop    *)
(* giving the session up, the peer's "ended" is PeerEnded.               *)
Stream == INSTANCE StreamDelivery
            WITH Chunk <- RecLen,
                 ended <- [d \in Drivers |-> PeerEnded(d)],
                 closed <- [d \in Drivers |-> ~open[d]]

ImplementsStreamDelivery == Stream!SSpec

(* A handshake AcceptConnReq left pending is completed once the peer's   *)
(* good flight arrives: the pending session is added to the nested poll, *)
(* reported ready, and its Rcv drives mbedtls_ssl_handshake (Add,        *)
(* Select, IsReady, Rcv line 806-809); no dummy select or WANT_READ      *)
(* result leaves it waiting or closes it first.                          *)
PendingHandshakeServed ==
  \A d \in Drivers : hsIn[d] = "good" ~> hs[d] = "done"

(* IsReady reports a session ready only when it has something to read:  *)
(* buffered plaintext or a readable socket.  The comment at line 133-137 *)
(* says IsReady must not fall back to nsdsel_ptcp after a dummy select.  *)
NoSpuriousReady ==
  rdy # None => (sslBuf[rdy] > 0 \/ OSReadable(rdy))

=============================================================================
