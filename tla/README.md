# TLA+ models of the Mbed TLS network stream driver

This directory models `src/runtime/nsd_mbedtls.c`, the rsyslog network stream
driver over Mbed TLS, and `src/runtime/nsdsel_mbedtls.c`, its select()
multiplexer, and checks them with TLC.

## 1. The system

### Components

| component | source | state | operations |
|---|---|---|---|
| TransportDriver | `nsd_mbedtls.c` | `nsd_mbedtls_t`: `iMode`, `authMode`, `bChkName`, `pPermPeer`, `DrvrVerifyDepth`, four credential paths, the `bHave*` presence flags, the `ssl`/`conf` library objects, `bHaveSess`, `bAbortConn`, nested `pTcp` | Construct, Destruct, SetMode, SetAuthMode, SetPermPeers, SetTlsVerifyDepth, SetTls{CA,CRL,Key,Cert}File, SetPermitExpiredCerts, SetGnutlsPriorityString, SetCheckExtendedKeyUsage, SetPrioritizeSAN, Connect, LstnInit, AcceptConnReq, Rcv, Send, Abort, and pass-throughs (SetSock, keep-alive, getters, CheckConnection) |
| ReadinessMultiplexer | `nsdsel_mbedtls.c` | `iBufferRcvReady`, nested `nsdsel_ptcp` set `pTcp` | Construct, Destruct, Add, Select, IsReady |
| Plaintext transport | `nsd_ptcp`, `nsdsel_ptcp` (not in this repository) | socket, poll set | everything the two components delegate to |
| Mbed TLS | library | session, record buffer | handshake, read, write, close_notify |

### How they interact

A polling loop builds one `nsdsel_mbedtls` object for each round. It `Add`s every
open session, calls `Select` once, and asks `IsReady` about each session it added.
It then calls the driver's `Rcv` on the sessions reported ready.

A TLS session may hold decrypted plaintext (`mbedtls_ssl_get_bytes_avail`) that
poll() cannot see. For such a session:

- `Add` increments `iBufferRcvReady` and does not register the socket.
- `Select` returns without polling ("dummy select").
- `IsReady` reports the buffered sessions ready and decrements the counter.
- While the counter is non-zero, `IsReady` must not fall back to the nested poll.

The driver builds its Mbed TLS configuration from its settings during Connect and
AcceptConnReq:

- the auth mode;
- the CA and CRL, if they were loaded;
- the verify callback with `DrvrVerifyDepth`;
- its own certificate and key;
- SNI, which is the permitted peer, or else the host.

AcceptConnReq copies the listener's settings field by field into the new object.

### Hard behaviours

- The dummy-select counter must match the buffered sessions across Add, Select and
  IsReady, for any mix of TLS and plain sessions.
- A record larger than the caller's buffer leaves plaintext buffered. That
  plaintext must be delivered later, and poll() never wakes up for it.
- The order of the setter calls matters. Failed setters (rejected auth mode, OOM in
  strdup) leave partial state behind.
- Credential loading stops at the first bad file, after the earlier files have set
  their flags. Unset paths fall back to the global defaults.
- A handshake may be pending when Connect or AcceptConnReq returns, and the next
  Rcv or Send finishes it.
- An abort request is recorded in TLS mode only through `bAbortConn`.

### What makes each component correct

- **Multiplexer:**
  - the counter equals the sessions counted as dummies and not yet reported;
  - poll() never waits while plaintext is buffered;
  - every ended stream is eventually read to its end;
  - a session is reported ready only if it has something to read.
- **Driver read path:** no data is lost or duplicated between the socket, the TLS
  buffer and the caller, and the rest of a record that did not fit the caller's
  buffer is delivered later (part of `ImplementsStreamDelivery`).
- **Driver configuration:**
  - data is returned only from a peer that the configuration in force admits
    (auth mode, CA, CRL, name, verify depth);
  - no handshake runs on a credential that failed to parse;
  - a rejected setter leaves the configuration unchanged;
  - after an Abort, TLS I/O fails with ABORTREQ.

## 2. Modules

| module | models | composes |
|---|---|---|
| `NsdselMbedtls` | nsdsel_mbedtls Add/Select/IsReady, the driver's Rcv read path (TLS and plain, including a handshake left pending by AcceptConnReq), the polling loop and the peers | multiplexer + driver Rcv |
| `StreamDelivery` | abstract: what a session's reader is promised (in-order, complete delivery; close only after the end of stream) | refined by `NsdselMbedtls` |
| `MCNsdselMbedtls` | three sessions: d1, d2 TLS, d3 plain | instantiates `NsdselMbedtls` |
| `NsdMbedtls` | the driver object: setters, mbedtlsInitCred, Connect, LstnInit, AcceptConnReq, Rcv, Send, Abort, Destruct | driver + Mbed TLS black box |
| `MCNsdMbedtls` | model values for objects and names, default credentials | instantiates `NsdMbedtls` |

### NsdselMbedtls

**State.**

- `iBufferRcvReady`, `tcpSet` and `polled`/`revents` are the nsdsel object and its
  nested poll set.
- `sock`, `sslBuf` and `tail` are the socket, the Mbed TLS plaintext buffer and the
  way the peer ends the stream.

**Actions.** Each of `Add`, `Select`, `IsReady` and `Rcv` is one call. For example,
`IsReady` is lines 114-148:

- buffered → ready and decrement;
- counter non-zero → not ready;
- else → nested `IsReady`.

When the nested `Select` was skipped, the nested `IsReady` reads `revents` that no
poll filled. `PtcpIsReady` is then a free choice, which is undefined data in C.

**Data.** It is abstracted to units: a TLS record is `RecLen` units and `Rcv` takes
at most `RcvLen`.

**The loop.** `NewRound` destructs the old object and constructs a new one. The
interface cannot remove a socket from a set, so a set is used for one round only.

**Pending handshakes.** AcceptConnReq returns a session whose
`mbedtls_ssl_handshake` only wanted more input (it still sets `bHaveSess`, line 771,
which the spec treats as success so far). `hs` is that state and
`hsIn` the peer's remaining handshake flight in the socket, good or bad.
`HandshakeStep` is what Rcv's `mbedtls_ssl_read` does with it (lines 805-816): a
good flight completes the handshake and the read goes on to find no record yet; a
bad one fails with RCV_ERR; without it the read wants input (RETRY), and a FIN
from the peer is MBEDTLS_ERR_SSL_CONN_EOF, RCV_ERR (`HandshakeNoInput`, from
`mbedtlsNetRecv`, lines 628-655). On an established session `NoInput` is what Rcv
returns when no record is there (lines 808-820): RETRY, CLOSED on close_notify,
EOF on a FIN (`mbedtls_ssl_read` returns 0, line 819), RCV_ERR on a reset. The
loop gives the session up on every result but OK and RETRY. The peer sends
application data only once the handshake is done. `MayPend` names the sessions
that may arrive mid-handshake.

**Refinement.** `Stream == INSTANCE StreamDelivery WITH Chunk <- RecLen,
ended <- PeerEnded, closed <- (~open)`, where `PeerEnded` is the tail leaving
"open" or a bad handshake flight (nothing that peer sends is read). `sent` and `rcvd` map to
themselves. The run checks `ImplementsStreamDelivery == Stream!SSpec`, so every
behaviour of the select layer and Rcv is one of the abstract spec's, and it also
meets the abstract fairness: weak fairness on handing over data and on closing an
ended stream. This subsumes the earlier "every ended stream is eventually closed".

### NsdMbedtls

**State.** `cfg` holds the settings as a record. `have` holds the `bHave*` flags.
`hs` is the handshake state inside `ssl`. `bHaveSess` and `bAbortConn` are the
object's flags.

**History variables** record what the properties judge:

- `policy`: the configuration a session was built from;
- `peer`: the certificate chain it met;
- `rcvdData`;
- `abortReq`;
- `last`: the call and its return code.

**Mbed TLS.** `LibAccepts` states what the library accepts under the configuration
the driver built. A handshake call nondeterministically returns pending, done (only
if accepted) or failed.

**Library loops.** `mbedtlsNetSend` (lines 668-690) never returns
WANT_READ/WANT_WRITE, so on an established session `mbedtls_ssl_write` returns at
once and Send's loop (lines 857-862) runs one call; so does mbedtlsEndSess's
`close_notify` loop (lines 203-209), and Destruct is one atomic action. Client
sockets are also blocking during Send (lines 785-787). The loop spins only on a
session AcceptConnReq handed over with its handshake pending: `mbedtls_ssl_write`
first drives the handshake, and `mbedtlsNetRecv` maps EAGAIN on the non-blocking
accepted socket to WANT_READ (line 646). That call in progress is modelled:

- `busy[o]` records the loop, and `SendStep` is the iteration that ends it.
- An iteration makes progress only when the peer takes part (`peerIO`: it sends
  its flight or resets). Otherwise it wants input again, which is a step that
  changes no state.
- `FairSpec` makes the loop steps weakly fair, because the thread inside the loop
  keeps calling. The peer gets no fairness.

**Failures.** Library and transport failures are picked from `FailPoints`, in the
order of the `CHKiRet` calls in the code.

**Modelled from the spec.** `PtcpIsReady`, `RcvPlain`, `OSReadable` and the
loop/peer actions stand for code outside this repository, and are marked
`spec_modelled` in the map.

### Plan for later work

1. Done: the abstract `StreamDelivery` and its refinement.
2. Done: a session whose handshake is pending is polled and completed by Rcv
   (`PendingHandshakeServed`).
3. Done: Send's write loop is a step while a handshake is pending (run `send_blocks`).

## 3. Runs

| run | cfg | expect | what it shows |
|---|---|---|---|
| nsdsel_round | `NsdselMbedtls.cfg` | pass (672k states, about 2.5 min) | The counter matches the dummies. poll() never waits over buffered plaintext. The whole implements `StreamDelivery`, including its liveness (under `WF(LoopStep)`). A handshake left pending is completed once the peer's flight arrives. |
| nsdsel_two_records | `NsdselTwoRecords.cfg` | pass (171k) | The same properties with two TLS sessions, both possibly mid-handshake, each sending three 3-unit records read two units at a time, so a record arrives while the previous one is partly buffered. |
| nsdsel_spurious_ready | `NsdselSpurious.cfg` | violation | After the counter drains, IsReady consults an un-polled nested set (finding 1). |
| driver_client | `NsdMbedtlsClient.cfg` | pass (466k) | Connect admits only peers its policy admits. No handshake runs with a bad credential. |
| driver_server | `NsdMbedtlsServer.cfg` | pass (748k) | The same for AcceptConnReq and the copied listener configuration. |
| authmode_reject | `NsdAuthModeReject.cfg` | violation | A rejected SetAuthMode clears bChkName (finding 2). |
| abort_tls | `NsdAbortTls.cfg` | violation | A TLS Abort does not stop I/O (finding 3). |
| setter_oom | `NsdSetterOom.cfg` | violation | OOM in a file or peer setter has already dropped the old value (finding 4). |
| send_blocks | `NsdSendBlocks.cfg` (`FairSpec`) | violation | Send on an accepted session mid-handshake spins while the peer sends nothing (finding 5). |

### Bounds

**nsdsel_round.**

- Three sessions (two TLS, one plain), so that one round mixes a dummy session, a
  polled TLS session and a plain session. This is what the counter ordering
  requires.
- `RecLen = 2` and `RcvLen = 1`, so that every record leaves one unit buffered.
- `MaxSent = 1` record per peer, and every end of stream (notify, fin, reset).
- `MayPend = {d1}`: one TLS session may arrive mid-handshake, with a good or bad
  flight to come. Letting d2 arrive pending too was checked once and passes,
  but with 1.4M states in over four minutes, too close to the run limit.

**nsdsel_two_records.** With `MaxSent = 1` a second record never meets a
buffered remainder of the first. This run drops the plain session and takes two
TLS sessions, both in `MayPend`, with `RecLen = 3`, `RcvLen = 2` and `MaxSent = 3`.
A read then leaves one unit buffered while the next record waits in the socket,
and dummy rounds alternate with polled ones. Its mutants are those of
`nsdsel_round`.

**driver runs.**

- One client, or one listener and one accepted object.
- Two names; the host is `n1`.
- Depths {0, 1} against chains of depth 0..2; the client run adds -1, which
  SetTlsVerifyDepth accepts unchecked and which makes `verify()` reject every chain.
- Every file is good or bad, and the default CRL is unset.
- Every auth mode string, including an unsupported one, and every OOM point.

### Fairness

The polling loop is one thread that runs for as long as it can, so `LoopStep` is
weakly fair. The peers and the driver's caller get no fairness: they may stop at
any time.

In the driver, `FairSpec` makes only the iterations of a library loop fair, because
the thread is inside the call. The passing driver runs check safety only, under
`Spec`.

### Mutants

Each property of a passing run is broken by a fault variant defined in the module
just before the definition it replaces:

| fault variant | what it changes |
|---|---|
| `IsReadySeesBufferedAny` | the buffered test accepts zero |
| `IsReadySeesBufferedOffByOne` | the buffered test is `> 1` |
| `AddSeesBufferedBug` | Add misses a 1-unit buffer |
| `HaveDummyReadyBug` | Select always takes the dummy branch, which breaks the refinement's liveness |
| `SetModeNoCheck` | the mode range check is dropped |
| `ClientHostnameNoHost` | no SNI fallback to the host |
| `AcceptedCfgNoDepth` | the verify depth is not copied |
| `InitCredOkNoCrl` | the CRL parse result is ignored |
| `NoInputNoRetry` | WANT_READ is taken as an error, so a pending handshake without its flight is closed |

## 4. Findings

1. **`nsdsel_mbedtls.c:138`.** The comment at lines 133-137 promises that IsReady
   never falls back to PTCP after a dummy select. Once the counter reaches 0 it does
   fall back, and reads a poll result that was never produced.
2. **`nsd_mbedtls.c:304`.** A rejected auth mode downgrades x509/name to
   certvalid. The spec says it leaves the mode unchanged.
3. **`nsd_mbedtls.c:620`.** Abort in TLS mode is a no-op, and `bAbortConn` is never
   set.
4. **`nsd_mbedtls.c:471` (and `:375`).** The file setters and SetPermPeers free the
   old value before `strdup`. After OUT_OF_MEMORY a configured CA, CRL, key or cert
   silently reverts to the global default, or the permitted peer is dropped. The
   spec does not say what an allocation failure leaves behind.
5. **`nsd_mbedtls.c:857` (with `:646`).** On a non-blocking accepted session
   whose handshake is still pending, Send's `mbedtls_ssl_write` gets WANT_READ
   (EAGAIN mapped at line 646), and the loop retries it with no bound: the caller
   spins until the peer sends its flight. The spec's concurrency section says Send
   never blocks and returns a retryable status, while its Send paragraph
   describes the loop.
6. **`tests/sndrcv_tls_mbedtls_certvalid_expired_autrzd.sh:21`.** The test sets
   up an mbedtls listener with x509/certvalid and `PermitExpiredCerts="on"` and
   expects every message from a sender with an expired certificate. The driver
   rejects "on" (SetPermitExpiredCerts, lines 337-341), as the spec requires. The
   server run shows, through `DataOnlyFromAdmittedPeer`, that an accepted session
   under VERIFY_REQUIRED never returns data from a peer whose chain is not valid.
   The test expects what neither the code nor the spec allows.

## 5. Not modelled

- Pass-throughs to nsd_ptcp: the keep-alive setters, SetSock, GetSock,
  GetRemoteHName, GetRemAddr, GetRemoteIP, CheckConnection.
- The send callback below Mbed TLS, `mbedtlsNetSend`. (`mbedtlsNetRecv`'s error
  mapping is `NoInput`.)
- Byte counts of Send. Only the status of a Send is modelled.
- What `mbedtlsNetSend` returning 0 on a would-block does inside Mbed TLS. That
  behaviour is the library's.
- The object runtime glue: interface tables and class registration, with no
  state a property tells apart.
- The test scripts as such: they drive the whole daemon and have no operations
  of their own. Their two scenarios are configurations the driver runs enumerate
  (an unparsable default key; an expired peer certificate, finding 6).
- The pass-throughs above and `mbedtlsNetSend` are all that is left of the two
  source files. Modelling the pass-throughs would only add steps that change no
  state of this driver. `mbedtlsNetSend`'s effect depends on `nsd_ptcp.Send` and
  on the Mbed TLS write path, and neither is in this repository.

The hazards in `PROJECT.json` name which of these matter and why no property covers
them yet.
