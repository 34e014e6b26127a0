----------------------------- MODULE NsdMbedtls -----------------------------
(***************************************************************************)
(* The Mbed TLS network stream driver object (runtime/nsd_mbedtls.c):      *)
(* option setters, credential loading (mbedtlsInitCred), client Connect,   *)
(* server LstnInit/AcceptConnReq, Rcv, Send, Abort and Destruct.           *)
(*                                                                         *)
(* Every driver object is owned by one thread, so each call is one atomic  *)
(* step.  Mbed TLS is a black box: a handshake call either wants more I/O  *)
(* (the socket is non-blocking), or completes, succeeding only when the    *)
(* library's checks of the peer certificate pass under the configuration  *)
(* this driver built, or fails (the peer may also reject us).  Calls into  *)
(* nsd_ptcp and library setup calls that can fail are nondeterministic.    *)
(* Data contents are not modelled; rcvdData records that Rcv returned data.*)
(***************************************************************************)
EXTENDS Integers, FiniteSets

CONSTANTS
  Clients,    \* objects the caller constructs and Connects
  Listeners,  \* objects the caller constructs and listens on
  Accepted,   \* objects AcceptConnReq may create
  Names,      \* certificate subject names / permitted peer ids
  Host,       \* the host Connect is called with
  Dflt,       \* [Creds -> Files \cup {None}]: the global default files
  Depths,     \* values SetTlsVerifyDepth is called with
  MaxDepth,   \* deepest peer certificate chain
  None        \* NULL

Objs == Clients \cup Listeners \cup Accepted
Creds == {"key", "cert", "ca", "crl"}
CredIndex == [key |-> 1, cert |-> 2, ca |-> 3, crl |-> 4]  \* mbedtlsInitCred order
Files == {"good", "bad"}      \* a file that parses, or one that does not

ASSUME Host \in Names /\ None \notin Names \cup Files
ASSUME Dflt \in [Creds -> Files \cup {None}]
ASSUME Depths \subseteq Int /\ MaxDepth \in Nat

(* The peer's certificate chain: leaf name, validity (dates, signature    *)
(* chaining to the CA), whether the CRL lists it, and its depth.          *)
Certs == [name : Names, valid : BOOLEAN, revoked : BOOLEAN, depth : 0..MaxDepth]

(* The configuration fields of nsd_mbedtls_t. *)
Cfgs == [iMode : {0, 1}, authMode : {"VERIFY_NONE", "VERIFY_REQUIRED"},
         bChkName : BOOLEAN, pPermPeer : Names \cup {None},
         DrvrVerifyDepth : Depths, path : [Creds -> Files \cup {None}]]

(* The zeroed object: iMode 0, authMode 0 (MBEDTLS_SSL_VERIFY_NONE). *)
DefaultCfg == [iMode |-> 0, authMode |-> "VERIFY_NONE", bChkName |-> FALSE,
               pPermPeer |-> None, DrvrVerifyDepth |-> 0,
               path |-> [c \in Creds |-> None]]

States == {"free", "constructed", "listening", "open", "failed", "destructed"}
Ops == {"none", "SetMode", "SetAuthMode", "SetPermPeers", "SetTlsFile",
        "SetTlsVerifyDepth", "LstnInit", "Connect", "AcceptConnReq", "Rcv",
        "Send", "Abort", "Destruct", "Construct", "SetPermitExpiredCerts",
        "SetGnutlsPriorityString", "SetCheckExtendedKeyUsage", "SetPrioritizeSAN"}

VARIABLES
  st,         \* [Objs -> States] object lifecycle
  cfg,        \* [Objs -> Cfgs]
  have,       \* [Objs -> [Creds -> BOOLEAN]] bHaveKey, bHaveCert, bHaveCaCert, bHaveCrl
  hs,         \* [Objs -> {"none","pending","done","failed"}] handshake in ssl
  hostname,   \* [Objs -> Names \cup {None}] mbedtls_ssl_set_hostname()
  bHaveSess,  \* [Objs -> BOOLEAN]
  bAbortConn, \* [Objs -> BOOLEAN]
  peer,       \* [Objs -> Certs \cup {None}] the remote certificate chain
  policy,     \* history: the configuration that governs the session
  rcvdData,   \* history: Rcv has returned data
  abortReq,   \* history: Abort was called
  last,       \* [op, o, ret] the most recent call and its rsRetVal
  busy,       \* [Objs -> {"none","send"}] a call looping in the library
  peerIO      \* [Objs -> BOOLEAN] the peer takes part in I/O during that call

io == <<busy, peerIO>>
vars == <<st, cfg, have, hs, hostname, bHaveSess, bAbortConn, peer, policy,
          rcvdData, abortReq, last, io>>

TypeOK ==
  /\ st \in [Objs -> States]
  /\ cfg \in [Objs -> Cfgs]
  /\ have \in [Objs -> [Creds -> BOOLEAN]]
  /\ hs \in [Objs -> {"none", "pending", "done", "failed"}]
  /\ hostname \in [Objs -> Names \cup {None}]
  /\ bHaveSess \in [Objs -> BOOLEAN] /\ bAbortConn \in [Objs -> BOOLEAN]
  /\ peer \in [Objs -> Certs \cup {None}]
  /\ policy \in [Objs -> Cfgs \cup {None}]
  /\ rcvdData \in [Objs -> BOOLEAN] /\ abortReq \in [Objs -> BOOLEAN]
  /\ last.op \in Ops /\ last.o \in Objs \cup {None}
  /\ busy \in [Objs -> {"none", "send"}] /\ peerIO \in [Objs -> BOOLEAN]

Done(op, o, ret) == last' = [op |-> op, o |-> o, ret |-> ret]

-----------------------------------------------------------------------------
(* Option setters; the caller calls them before Connect or LstnInit. *)

Configure(o, c) ==
  /\ cfg' = [cfg EXCEPT ![o] = c]
  /\ UNCHANGED <<st, have, hs, hostname, bHaveSess, bAbortConn, peer, policy,
                 rcvdData, abortReq, io>>

(* Fault variant: the mode range check dropped. *)
SetModeNoCheck(o, mode) ==
  /\ st[o] = "constructed"
  /\ Configure(o, [cfg[o] EXCEPT !.iMode = mode]) /\ Done("SetMode", o, "OK")

SetMode(o, mode) ==
  /\ st[o] = "constructed"
  /\ IF mode \notin {0, 1}
       THEN Configure(o, cfg[o]) /\ Done("SetMode", o, "INVALID_DRVR_MODE")
       ELSE Configure(o, [cfg[o] EXCEPT !.iMode = mode]) /\ Done("SetMode", o, "OK")

(* bChkName is cleared before the mode string is looked at (line 304). *)
SetAuthMode(o, mode) ==
  /\ st[o] = "constructed"
  /\ LET c == [cfg[o] EXCEPT !.bChkName = FALSE] IN
     CASE mode \in {None, "x509/name"} ->
            Configure(o, [c EXCEPT !.authMode = "VERIFY_REQUIRED", !.bChkName = TRUE])
            /\ Done("SetAuthMode", o, "OK")
       [] mode = "x509/certvalid" ->
            Configure(o, [c EXCEPT !.authMode = "VERIFY_REQUIRED"])
            /\ Done("SetAuthMode", o, "OK")
       [] mode = "anon" ->
            Configure(o, [c EXCEPT !.authMode = "VERIFY_NONE"])
            /\ Done("SetAuthMode", o, "OK")
       [] OTHER ->
            Configure(o, c) /\ Done("SetAuthMode", o, "VALUE_NOT_SUPPORTED")

(* pp is None or the first entry of the permitted-peers list; oom models *)
(* strdup failing after the old value was freed.                          *)
SetPermPeers(o, pp, oom) ==
  /\ st[o] = "constructed"
  /\ CASE pp = None ->
            Configure(o, [cfg[o] EXCEPT !.pPermPeer = None]) /\ Done("SetPermPeers", o, "OK")
       [] cfg[o].authMode # "VERIFY_REQUIRED" \/ ~cfg[o].bChkName ->
            Configure(o, cfg[o]) /\ Done("SetPermPeers", o, "VALUE_NOT_IN_THIS_MODE")
       [] pp.type # "plain" ->
            Configure(o, cfg[o]) /\ Done("SetPermPeers", o, "VALUE_NOT_SUPPORTED")
       [] oom ->
            Configure(o, [cfg[o] EXCEPT !.pPermPeer = None]) /\ Done("SetPermPeers", o, "OUT_OF_MEMORY")
       [] OTHER ->
            Configure(o, [cfg[o] EXCEPT !.pPermPeer = pp.id]) /\ Done("SetPermPeers", o, "OK")

SetTlsVerifyDepth(o, n) ==
  /\ st[o] = "constructed"
  /\ Configure(o, [cfg[o] EXCEPT !.DrvrVerifyDepth = n])
  /\ Done("SetTlsVerifyDepth", o, "OK")

(* SetTlsCAFile, SetTlsCRLFile, SetTlsKeyFile, SetTlsCertFile. *)
SetTlsFile(o, cred, f, oom) ==
  /\ st[o] = "constructed"
  /\ Configure(o, [cfg[o] EXCEPT !.path[cred] = IF oom THEN None ELSE f])
  /\ Done("SetTlsFile", o, IF oom /\ f # None THEN "OUT_OF_MEMORY" ELSE "OK")

(* SetPermitExpiredCerts, line 329-345: only "off" (or NULL) is accepted; *)
(* the driver never permits expired certificates.                        *)
SetPermitExpiredCerts(o, mode) ==
  /\ st[o] = "constructed" /\ Configure(o, cfg[o])
  /\ Done("SetPermitExpiredCerts", o,
          IF mode \in {None, "off"} THEN "OK" ELSE "VALUE_NOT_SUPPORTED")

(* SetGnutlsPriorityString, line 389-406: any string is rejected. *)
SetGnutlsPriorityString(o, prio) ==
  /\ st[o] = "constructed" /\ Configure(o, cfg[o])
  /\ Done("SetGnutlsPriorityString", o, IF prio = None THEN "OK" ELSE "VALUE_NOT_SUPPORTED")

(* SetCheckExtendedKeyUsage, line 413-426, and SetPrioritizeSAN, line     *)
(* 433-446: a value other than 1 is only warned about; nothing is stored. *)
SetCheckExtendedKeyUsage(o, v) ==
  /\ st[o] = "constructed" /\ Configure(o, cfg[o])
  /\ Done("SetCheckExtendedKeyUsage", o, "OK")

SetPrioritizeSAN(o, v) ==
  /\ st[o] = "constructed" /\ Configure(o, cfg[o])
  /\ Done("SetPrioritizeSAN", o, "OK")

-----------------------------------------------------------------------------
(* Session bootstrap helpers *)

(* The file mbedtlsInitCred parses for a credential: the driver's own or *)
(* the global default.                                                   *)
ResolvedFile(c, cred) == IF c.path[cred] = None THEN Dflt[cred] ELSE c.path[cred]

(* mbedtlsInitCred parses key, cert, CA, CRL in this order and stops at  *)
(* the first failure; FirstBad is 5 when every file parses.              *)
FirstBad(c) ==
  LET bad == {CredIndex[x] : x \in {x \in Creds : ResolvedFile(c, x) = "bad"}}
  IN IF bad = {} THEN 5 ELSE CHOOSE i \in bad : \A j \in bad : i <= j

(* Fault variant: the CRL parse result not checked. *)
InitCredOkNoCrl(c) == FirstBad(c) >= 4

InitCredOk(c) == FirstBad(c) = 5

(* The presence flags after mbedtlsInitCred: set for each file parsed    *)
(* before the failure, left as they were otherwise.                      *)
InitCredHave(c, h) ==
  [x \in Creds |-> IF CredIndex[x] < FirstBad(c) /\ ResolvedFile(c, x) # None
                     THEN TRUE ELSE h[x]]

(* verify(): the depth check installed with mbedtls_ssl_conf_verify. *)
VerifyCb(c, depth) == ~(c.DrvrVerifyDepth # 0 /\ depth > c.DrvrVerifyDepth)

(* Whether Mbed TLS accepts the peer under the conf this driver built:   *)
(* authmode, CA chain and CRL if loaded, hostname if set, the verify     *)
(* callback; a server also needs its own certificate and key.            *)
LibAccepts(c, h, hn, p, server) ==
  /\ \/ c.authMode = "VERIFY_NONE"
     \/ /\ h.ca /\ p.valid
        /\ ~(h.crl /\ p.revoked)
        /\ hn \in {None, p.name}
        /\ VerifyCb(c, p.depth)
  /\ server => h.key /\ h.cert

(* What one mbedtls_ssl_handshake() call can return. *)
HandshakeOutcomes(ok) == {"pending", "failed"} \cup (IF ok THEN {"done"} ELSE {})

(* Fault variant: no fallback to the host when no peer is permitted. *)
ClientHostnameNoHost(c) == IF c.bChkName THEN c.pPermPeer ELSE None

(* Connect, line 924-929: SNI is the permitted peer, else the host. *)
ClientHostname(c) ==
  IF c.bChkName THEN (IF c.pPermPeer # None THEN c.pPermPeer ELSE Host) ELSE None

(* AcceptConnReq, line 754-759. *)
ServerHostname(c) == IF c.bChkName /\ c.pPermPeer # None THEN c.pPermPeer ELSE None

(* Where a bootstrap can stop before the handshake: mbedtlsInitSession,  *)
(* nsd_ptcp.Connect / AcceptConnReq, and the library setup calls.        *)
FailPoints == {"none", "session", "transport", "setup"}

-----------------------------------------------------------------------------
(* Connect, line 882-945. *)
Connect(o) ==
  /\ o \in Clients /\ st[o] = "constructed"
  /\ \E fp \in FailPoints, p \in Certs :
       LET c == cfg[o]
           h == InitCredHave(c, have[o])
           hn == ClientHostname(c)
       IN CASE fp = "session" ->
                 st' = [st EXCEPT ![o] = "failed"] /\ Done("Connect", o, "INIT_SESS_ERR")
                 /\ UNCHANGED <<have, hs, hostname, bHaveSess, peer, policy>>
            [] ~InitCredOk(c) ->
                 st' = [st EXCEPT ![o] = "failed"] /\ Done("Connect", o, "CRED_ERR")
                 /\ have' = [have EXCEPT ![o] = h]
                 /\ UNCHANGED <<hs, hostname, bHaveSess, peer, policy>>
            [] fp = "transport" ->
                 st' = [st EXCEPT ![o] = "failed"] /\ Done("Connect", o, "IO_ERR")
                 /\ have' = [have EXCEPT ![o] = h]
                 /\ UNCHANGED <<hs, hostname, bHaveSess, peer, policy>>
            [] c.iMode = 0 ->
                 st' = [st EXCEPT ![o] = "open"] /\ Done("Connect", o, "OK")
                 /\ have' = [have EXCEPT ![o] = h]
                 /\ UNCHANGED <<hs, hostname, bHaveSess, peer, policy>>
            [] fp = "setup" ->
                 st' = [st EXCEPT ![o] = "failed"] /\ Done("Connect", o, "LIB_ERR")
                 /\ have' = [have EXCEPT ![o] = h]
                 /\ UNCHANGED <<hs, hostname, bHaveSess, peer, policy>>
            [] OTHER ->
                 \E r \in HandshakeOutcomes(LibAccepts(c, h, hn, p, FALSE)) :
                   /\ have' = [have EXCEPT ![o] = h]
                   /\ hostname' = [hostname EXCEPT ![o] = hn]
                   /\ peer' = [peer EXCEPT ![o] = p]
                   /\ policy' = [policy EXCEPT ![o] = c]
                   /\ hs' = [hs EXCEPT ![o] = r]
                   /\ IF r = "failed"
                        THEN st' = [st EXCEPT ![o] = "failed"]
                             /\ Done("Connect", o, "TLS_HANDSHAKE_ERR")
                             /\ UNCHANGED bHaveSess
                        ELSE st' = [st EXCEPT ![o] = "open"]
                             /\ bHaveSess' = [bHaveSess EXCEPT ![o] = TRUE]
                             /\ Done("Connect", o, "OK")
  /\ UNCHANGED <<cfg, bAbortConn, rcvdData, abortReq, io>>

-----------------------------------------------------------------------------
(* Construct: a fresh, zeroed object with its own nsd_ptcp. *)
Construct(o) ==
  /\ o \in Clients \cup Listeners /\ st[o] = "free"
  /\ st' = [st EXCEPT ![o] = "constructed"]
  /\ Done("Construct", o, "OK")
  /\ UNCHANGED <<cfg, have, hs, hostname, bHaveSess, bAbortConn, peer, policy,
                 rcvdData, abortReq, io>>

(* LstnInit: delegated to nsd_ptcp. *)
LstnInit(o) ==
  /\ o \in Listeners /\ st[o] = "constructed"
  /\ st' = [st EXCEPT ![o] = "listening"]
  /\ Done("LstnInit", o, "OK")
  /\ UNCHANGED <<cfg, have, hs, hostname, bHaveSess, bAbortConn, peer, policy,
                 rcvdData, abortReq, io>>

(* Fault variant: the verify depth not copied from the listener. *)
AcceptedCfgNoDepth(c) ==
  [iMode |-> c.iMode, authMode |-> c.authMode, bChkName |-> c.bChkName,
   pPermPeer |-> c.pPermPeer, DrvrVerifyDepth |-> 0,
   path |-> [x \in Creds |-> c.path[x]]]

(* AcceptConnReq, line 713-727: what the new object copies from the listener. *)
AcceptedCfg(c) ==
  [iMode |-> c.iMode, authMode |-> c.authMode, bChkName |-> c.bChkName,
   pPermPeer |-> c.pPermPeer, DrvrVerifyDepth |-> c.DrvrVerifyDepth,
   path |-> [x \in Creds |-> c.path[x]]]

(* AcceptConnReq, line 695-780.  On every failure the new object is      *)
(* destructed and nothing is returned; "oom" is a failed strdup.         *)
AcceptConnReq(l, n) ==
  /\ l \in Listeners /\ st[l] = "listening"
  /\ n \in Accepted /\ st[n] = "free"
  /\ \E fp \in FailPoints \cup {"oom"}, p \in Certs :
       LET nc == AcceptedCfg(cfg[l])
           h == InitCredHave(nc, have[n])
           hn == ServerHostname(nc)
           Fail(ret) == st' = [st EXCEPT ![n] = "destructed"]
                        /\ Done("AcceptConnReq", l, ret)
                        /\ UNCHANGED <<cfg, have, hs, hostname, bHaveSess, peer, policy>>
       IN CASE fp = "transport" -> Fail("IO_ERR")
            [] cfg[l].iMode = 0 ->
                 st' = [st EXCEPT ![n] = "open"] /\ Done("AcceptConnReq", l, "OK")
                 /\ UNCHANGED <<cfg, have, hs, hostname, bHaveSess, peer, policy>>
            [] fp = "oom" -> Fail("OUT_OF_MEMORY")
            [] fp = "session" -> Fail("INIT_SESS_ERR")
            [] ~InitCredOk(nc) -> Fail("CRED_ERR")
            [] fp = "setup" -> Fail("LIB_ERR")
            [] OTHER ->
                 \E r \in HandshakeOutcomes(LibAccepts(nc, h, hn, p, TRUE)) :
                   IF r = "failed"
                     THEN Fail("TLS_HANDSHAKE_ERR")
                     ELSE /\ st' = [st EXCEPT ![n] = "open"]
                          /\ cfg' = [cfg EXCEPT ![n] = nc]
                          /\ have' = [have EXCEPT ![n] = h]
                          /\ hostname' = [hostname EXCEPT ![n] = hn]
                          /\ peer' = [peer EXCEPT ![n] = p]
                          /\ policy' = [policy EXCEPT ![n] = cfg[l]]
                          /\ hs' = [hs EXCEPT ![n] = r]
                          /\ bHaveSess' = [bHaveSess EXCEPT ![n] = TRUE]
                          /\ Done("AcceptConnReq", l, "OK")
  /\ UNCHANGED <<bAbortConn, rcvdData, abortReq, io>>

-----------------------------------------------------------------------------
(* I/O on an open object *)

IoDone(op, o, ret) ==
  /\ Done(op, o, ret)
  /\ rcvdData' = [rcvdData EXCEPT ![o] = @ \/ (op = "Rcv" /\ ret = "OK")]

(* A handshake step taken inside mbedtls_ssl_read/_write while the       *)
(* handshake of Connect/AcceptConnReq is still pending.                  *)
ContinueHandshake(o) ==
  HandshakeOutcomes(LibAccepts(cfg[o], have[o], hostname[o], peer[o], o \in Accepted))

(* Rcv, line 789-832.  In mode 0 nsd_ptcp.Rcv returns data, RETRY or     *)
(* CLOSED.  In TLS mode mbedtls_ssl_read finishes a pending handshake    *)
(* first: WANT_READ/WANT_WRITE is RETRY, a failure is RCV_ERR; once done *)
(* it yields data, RETRY, CLOSED (close_notify), RCV_ERR or EOF (n = 0). *)
Rcv(o) ==
  /\ st[o] = "open" /\ busy[o] = "none"
  /\ CASE bAbortConn[o] -> IoDone("Rcv", o, "ABORTREQ") /\ UNCHANGED hs
       [] cfg[o].iMode = 0 ->
            \E r \in {"OK", "RETRY", "CLOSED"} : IoDone("Rcv", o, r) /\ UNCHANGED hs
       [] hs[o] = "pending" ->
            \E r \in ContinueHandshake(o) :
              /\ hs' = [hs EXCEPT ![o] = r]
              /\ CASE r = "pending" -> IoDone("Rcv", o, "RETRY")
                   [] r = "failed"  -> IoDone("Rcv", o, "RCV_ERR")
                   [] OTHER -> \E ret \in {"OK", "RETRY"} : IoDone("Rcv", o, ret)
       [] hs[o] = "done" ->
            \E r \in {"OK", "RETRY", "CLOSED", "RCV_ERR", "EOF"} : IoDone("Rcv", o, r)
            /\ UNCHANGED hs
       [] OTHER -> IoDone("Rcv", o, "RCV_ERR") /\ UNCHANGED hs
  /\ UNCHANGED <<st, cfg, have, hostname, bHaveSess, bAbortConn, peer, policy, abortReq, io>>

(* A library call that loops until it stops wanting I/O; the peer may  *)
(* or may not be taking part when it starts.                            *)
EnterLoop(o, kind) ==
  /\ busy' = [busy EXCEPT ![o] = kind]
  /\ \E w \in BOOLEAN : peerIO' = [peerIO EXCEPT ![o] = w]

EndLoop(o) == busy' = [busy EXCEPT ![o] = "none"] /\ peerIO' = [peerIO EXCEPT ![o] = FALSE]

(* Send, line 840-867.  An abort request and mode 0 return at once.  In  *)
(* TLS mode mbedtls_ssl_write on an established session returns at once: *)
(* mbedtlsNetSend (line 663-675) hands Mbed TLS a byte count (0 when the  *)
(* socket would block) or SEND_FAILED, never WANT_WRITE.  On a pending    *)
(* handshake the write first drives the handshake, whose reads wait for   *)
(* the peer: the loop of line 857-862 is entered.  A failed context's     *)
(* write fails at once.                                                   *)
Send(o) ==
  /\ st[o] = "open" /\ busy[o] = "none"
  /\ CASE bAbortConn[o] -> IoDone("Send", o, "ABORTREQ") /\ UNCHANGED <<hs, io>>
       [] cfg[o].iMode = 0 ->
            \E r \in {"OK", "IO_ERR"} : IoDone("Send", o, r) /\ UNCHANGED <<hs, io>>
       [] hs[o] = "done" ->
            \E r \in {"OK", "SEND_ERR"} : IoDone("Send", o, r) /\ UNCHANGED <<hs, io>>
       [] hs[o] = "pending" ->
            EnterLoop(o, "send") /\ UNCHANGED <<hs, last, rcvdData>>
       [] OTHER -> IoDone("Send", o, "SEND_ERR") /\ UNCHANGED <<hs, io>>
  /\ UNCHANGED <<st, cfg, have, hostname, bHaveSess, bAbortConn, peer, policy, abortReq>>

(* One mbedtls_ssl_write of that loop.  Until the peer's handshake flight *)
(* arrives, mbedtlsNetRecv maps EAGAIN to WANT_READ (line 646) and the    *)
(* loop spins with no change of state.  Once the peer takes part (answers *)
(* or resets) the handshake completes or fails; a completed one goes on  *)
(* to write the record, which returns a count or an error.               *)
SendStep(o) ==
  /\ busy[o] = "send" /\ peerIO[o] /\ hs[o] = "pending"
  /\ \E r \in ContinueHandshake(o) \ {"pending"} :
       /\ hs' = [hs EXCEPT ![o] = r]
       /\ \E ret \in IF r = "failed" THEN {"SEND_ERR"} ELSE {"OK", "SEND_ERR"} :
            IoDone("Send", o, ret)
  /\ EndLoop(o)
  /\ UNCHANGED <<st, cfg, have, hostname, bHaveSess, bAbortConn, peer, policy, abortReq>>

(* The peer starts taking part in the I/O a looping call waits for. *)
PeerTakesPart(o) ==
  /\ busy[o] # "none" /\ ~peerIO[o]
  /\ peerIO' = [peerIO EXCEPT ![o] = TRUE]
  /\ UNCHANGED <<st, cfg, have, hs, hostname, bHaveSess, bAbortConn, peer, policy,
                 rcvdData, abortReq, last, busy>>

(* Abort, line 612-625: forwarded to nsd_ptcp in mode 0 only. *)
Abort(o) ==
  /\ st[o] = "open" /\ busy[o] = "none"
  /\ abortReq' = [abortReq EXCEPT ![o] = TRUE]
  /\ Done("Abort", o, "OK")
  /\ UNCHANGED <<st, cfg, have, hs, hostname, bHaveSess, bAbortConn, peer,
                 policy, rcvdData, io>>

(* Destruct, line 235-262: in TLS mode mbedtlsEndSess (line 198-214)    *)
(* first.  mbedtls_ssl_close_notify only writes (nothing before the      *)
(* handshake is over) and mbedtlsNetSend never yields WANT_WRITE, so the *)
(* loop at line 204-209 ends after one call and bHaveSess is cleared.    *)
Destruct(o) ==
  /\ st[o] \in {"constructed", "listening", "open", "failed"} /\ busy[o] = "none"
  /\ st' = [st EXCEPT ![o] = "destructed"]
  /\ bHaveSess' = [bHaveSess EXCEPT ![o] = IF cfg[o].iMode = 1 THEN FALSE ELSE @]
  /\ Done("Destruct", o, "OK")
  /\ UNCHANGED <<cfg, have, hs, hostname, bAbortConn, peer, policy, rcvdData, abortReq, io>>

(* Every object is gone; nothing is left to call. *)
Terminated ==
  /\ \A o \in Objs : st[o] \in {"free", "destructed"}
  /\ \A o \in Clients \cup Listeners : st[o] = "destructed"
  /\ UNCHANGED vars

-----------------------------------------------------------------------------
ModeArgs == {0, 1, 2}
AuthArgs == {None, "x509/name", "x509/certvalid", "anon", "x509/fingerprint"}
PeerArgs == {None} \cup [type : {"plain", "wildcard"}, id : Names]
FileArgs == Files \cup {None}
ExpiredArgs == {None, "off", "on"}
PriorityArgs == {None, "NORMAL"}
FlagArgs == {0, 1}

Init ==
  /\ st = [o \in Objs |-> "free"]
  /\ cfg = [o \in Objs |-> DefaultCfg]
  /\ have = [o \in Objs |-> [x \in Creds |-> FALSE]]
  /\ hs = [o \in Objs |-> "none"]
  /\ hostname = [o \in Objs |-> None]
  /\ bHaveSess = [o \in Objs |-> FALSE]
  /\ bAbortConn = [o \in Objs |-> FALSE]
  /\ peer = [o \in Objs |-> None]
  /\ policy = [o \in Objs |-> None]
  /\ rcvdData = [o \in Objs |-> FALSE]
  /\ abortReq = [o \in Objs |-> FALSE]
  /\ last = [op |-> "none", o |-> None, ret |-> "OK"]
  /\ busy = [o \in Objs |-> "none"] /\ peerIO = [o \in Objs |-> FALSE]

Next ==
  \/ \E o \in Objs :
       \/ Construct(o) \/ LstnInit(o) \/ Connect(o)
       \/ Rcv(o) \/ Send(o) \/ Abort(o) \/ Destruct(o)
       \/ SendStep(o) \/ PeerTakesPart(o)
       \/ \E m \in ModeArgs : SetMode(o, m)
       \/ \E m \in AuthArgs : SetAuthMode(o, m)
       \/ \E pp \in PeerArgs, oom \in BOOLEAN : SetPermPeers(o, pp, oom)
       \/ \E n \in Depths : SetTlsVerifyDepth(o, n)
       \/ \E x \in Creds, f \in FileArgs, oom \in BOOLEAN : SetTlsFile(o, x, f, oom)
       \/ \E m \in ExpiredArgs : SetPermitExpiredCerts(o, m)
       \/ \E g \in PriorityArgs : SetGnutlsPriorityString(o, g)
       \/ \E v \in FlagArgs : SetCheckExtendedKeyUsage(o, v) \/ SetPrioritizeSAN(o, v)
  \/ \E l \in Listeners, n \in Accepted : AcceptConnReq(l, n)
  \/ Terminated

Spec == Init /\ [][Next]_vars

(* The thread inside a library loop keeps calling it: each loop step is  *)
(* weakly fair.  The caller and the peer owe nothing.                    *)
FairSpec == Spec /\ \A o \in Objs : WF_vars(SendStep(o))

-----------------------------------------------------------------------------
(* Properties *)

(* The peer a configuration admits, per the auth modes: anon admits any; *)
(* x509/certvalid a valid chain to a configured CA, not revoked when a   *)
(* CRL is configured, within the verify depth (0 = unlimited);           *)
(* x509/name also the permitted peer's name, or the host for a client.  *)
Admits(c, p, server) ==
  \/ c.authMode = "VERIFY_NONE"
  \/ /\ ResolvedFile(c, "ca") # None /\ p.valid
     /\ ResolvedFile(c, "crl") # None => ~p.revoked
     /\ c.DrvrVerifyDepth = 0 \/ p.depth <= c.DrvrVerifyDepth
     /\ c.bChkName => IF c.pPermPeer # None THEN p.name = c.pPermPeer
                      ELSE server \/ p.name = Host

(* Rcv hands application data to the caller only from a peer that the   *)
(* configuration in force admits: the client's own for Connect, the      *)
(* listener's for an accepted session (Connect SNI line 924-929, the     *)
(* copy in AcceptConnReq line 714-727, mbedtlsInitCred, verify()).       *)
DataOnlyFromAdmittedPeer ==
  \A o \in Objs :
    rcvdData[o] /\ policy[o] # None => Admits(policy[o], peer[o], o \in Accepted)

(* No TLS handshake is ever started with a credential file that failed   *)
(* to parse, whether configured or the global default (mbedtlsInitCred). *)
NoHandshakeWithBadCredential ==
  \A o \in Objs :
    hs[o] # "none" => \A x \in Creds : ResolvedFile(cfg[o], x) # "bad"

(* A rejected auth mode leaves the configured auth mode as it was        *)
(* (spec: setter errors leave prior state unchanged; SetAuthMode line   *)
(* 304 clears bChkName first).                                          *)
SetAuthModeKeepsConfig ==
  [][last'.op = "SetAuthMode" /\ last'.ret # "OK" => cfg' = cfg]_vars

(* A setter that fails for lack of memory leaves the configuration as it *)
(* was: SetTls*File (line 471-476) and SetPermPeers (line 375-376) free   *)
(* the old value before strdup, so a failure silently reverts a path to   *)
(* the global default or drops the permitted peer.                        *)
SetterOomKeepsConfig ==
  [][last'.ret = "OUT_OF_MEMORY" /\ last'.op \in {"SetTlsFile", "SetPermPeers"}
       => cfg' = cfg]_vars

(* Send returns to its caller whatever the peer does: the spec says Rcv  *)
(* and Send never block the caller but return a retryable status when    *)
(* the transport would block.  On an accepted, non-blocking session whose *)
(* handshake AcceptConnReq left pending, Send's loop (line 857-862) spins *)
(* on WANT_READ until the peer answers.                                  *)
SendReturns == \A o \in Objs : busy[o] = "send" ~> busy[o] # "send"

(* After Abort on a TLS-mode object every Rcv and Send fails with        *)
(* ABORTREQ (spec 4.1; Abort line 620, the checks at line 797 and 848).  *)
AbortStopsTlsIO ==
  [][\A o \in Objs :
       abortReq[o] /\ cfg[o].iMode = 1 /\ last'.o = o /\ last'.op \in {"Rcv", "Send"}
         => last'.ret = "ABORTREQ"]_vars

=============================================================================
