---------------------------- MODULE RecoveryHttp ----------------------------
(***************************************************************************)
(* The web recovery server: the POST side of lwIP's httpd (with this       *)
(* repository's POST-response-ACK extension), the POST callbacks of        *)
(* net/lwip/httpd_recovery.c and the main loop of run_http_recovery().     *)
(*                                                                         *)
(* Several TCP connections share one upload: the callbacks ignore their    *)
(* "connection" argument and work on globals.  lwIP callbacks and timers   *)
(* run inside net_lwip_rx(), which is called by the main loop and, through *)
(* recovery_service_runtime(), in the middle of flash_image().             *)
(*                                                                         *)
(* Abstractions: lengths are counted in TCP segments; of a segment the     *)
(* model keeps the connection it came from.  flash_image() is reduced to   *)
(* its phases and may fail in each (RawFlash has the detail).  GET         *)
(* requests only read the state and are left out.                          *)
(*                                                                         *)
(* Definitions whose comment starts with "Mutant" are plausible slips; see *)
(* PROJECT.json.                                                           *)
(***************************************************************************)
EXTENDS Integers

CONSTANTS
  Conns,       \* TCP connections (MEMP_NUM_TCP_PCB of them)
  NoConn,      \* none of them
  MaxLen,      \* largest Content-Length accepted for the target
  MaxTimers    \* bound: reboot timeouts pending at once

ASSUME HttpAssumption ==
  /\ NoConn \notin Conns
  /\ MaxLen \in Nat \ {0}
  /\ MaxTimers \in Nat \ {0}

VARIABLES
  st,        \* connection state: see ConnStates
  left,      \* http_state.post_content_len_left
  post_ok, recv_off, recv_total,
  buf,       \* upload buffer at recv_base: which connection wrote a segment
  flash_request, reboot_post_pending, reboot_request,
  timers,    \* reboot_delay_cb timeouts pending in lwIP
  prog_phase,
  pc,        \* "loop", "flash" (inside flash_image), "shell", "reset"
  \* History, not in the code: whose upload and whose reboot request was
  \* accepted last, whether the peer acknowledged that very response, and
  \* whether a client ever sent more than its Content-Length.
  owner, ownerAcked, rebooter, rebootAcked, overran

conn == <<st, left>>
recv == <<post_ok, recv_off, recv_total, buf>>
request == <<flash_request, reboot_post_pending, reboot_request, timers>>
history == <<owner, ownerAcked, rebooter, rebootAcked, overran>>
vars == <<conn, recv, request, prog_phase, pc, history>>

\* "idle": no request parsed; "body": POST accepted, data expected;
\* "reply": post_response_pending; "plain": any other response under way.
ConnStates == {"closed", "idle", "body", "reply", "plain"}

-----------------------------------------------------------------------------

\* run_http_recovery() up to its main loop.
Init ==
  /\ st = [c \in Conns |-> "closed"]
  /\ left = [c \in Conns |-> 0]
  /\ post_ok = FALSE /\ recv_off = 0 /\ recv_total = 0
  /\ buf = [i \in 0 .. MaxLen - 1 |-> NoConn]
  /\ flash_request = FALSE
  /\ reboot_post_pending = FALSE
  /\ reboot_request = FALSE
  /\ timers = 0
  /\ prog_phase = 0
  /\ pc = "loop"
  /\ owner = NoConn /\ ownerAcked = FALSE
  /\ rebooter = NoConn /\ rebootAcked = FALSE
  /\ overran = FALSE

\* net_lwip_rx() is running: lwIP may deliver an event.
InRx == pc \in {"loop", "flash"}

\* Mutant: httpd_post_begin() forgets that an upload is being received.
BusyButPostOk ==
  flash_request \/ reboot_post_pending \/ reboot_request \/ prog_phase > 0

\* Mutant: httpd_post_begin() forgets the flash phases.
BusyButPhase == post_ok \/ flash_request \/ reboot_post_pending \/ reboot_request

\* Mutant: httpd_post_begin() forgets a reboot waiting for its timer.
BusyButReboot == post_ok \/ flash_request \/ reboot_request \/ prog_phase > 0

\* httpd_post_begin(): the condition that rejects a POST.
Busy ==
  \/ post_ok \/ flash_request \/ reboot_post_pending \/ reboot_request
  \/ prog_phase > 0

-----------------------------------------------------------------------------
(* POST requests                                                           *)

\* http_accept()
Accept(c) ==
  /\ InRx /\ st[c] = "closed"
  /\ st' = [st EXCEPT ![c] = "idle"]
  /\ UNCHANGED <<left, recv, request, prog_phase, pc, history>>

\* httpd_post_begin() refuses without touching the state: the server is busy,
\* or /reboot came with a body.
BeginRejected(c) ==
  /\ InRx /\ st[c] = "idle"
  /\ st' = [st EXCEPT ![c] = "plain"]
  /\ UNCHANGED <<left, recv, request, prog_phase, pc, history>>

\* httpd_post_begin() refuses an upload after its bookkeeping was reset: bad
\* URI or layout, no target, wrong size, or no RAM (with recv_total set).
BeginInvalid(c) ==
  /\ InRx /\ st[c] = "idle" /\ ~Busy
  /\ st' = [st EXCEPT ![c] = "plain"]
  /\ recv_off' = 0
  /\ recv_total' \in 0 .. MaxLen
  /\ prog_phase' = -1
  /\ UNCHANGED <<left, post_ok, buf, request, pc, history>>

\* http_post_request() once httpd_post_begin() returned ERR_OK: n segments of
\* body are to come.  Body data in the same pbuf is the next Receive.
ExpectBody(c, n) ==
  /\ st' = [st EXCEPT ![c] = "body"]
  /\ left' = [left EXCEPT ![c] = n]

\* http_handle_post_finished(): the response is sent and its completion is to
\* be reported (post_response_pending).
Respond(c) == st' = [st EXCEPT ![c] = "reply"]

\* httpd_post_begin() accepts an upload of n segments.
BeginUpload(c, n) ==
  /\ InRx /\ st[c] = "idle" /\ ~Busy
  /\ ExpectBody(c, n)
  /\ post_ok' = TRUE /\ recv_off' = 0 /\ recv_total' = n
  /\ prog_phase' = 0
  /\ owner' = c /\ ownerAcked' = FALSE
  /\ UNCHANGED <<buf, request, pc, rebooter, rebootAcked, overran>>

\* httpd_post_begin() accepts /reboot.  There is no body, so the same call
\* goes on to httpd_post_finished(), which answers "/ok".
BeginReboot(c) ==
  /\ InRx /\ st[c] = "idle" /\ ~Busy
  /\ Respond(c)
  /\ reboot_post_pending' = TRUE
  /\ rebooter' = c /\ rebootAcked' = FALSE
  /\ UNCHANGED <<left, recv, flash_request, reboot_request, timers, prog_phase,
                 pc, owner, ownerAcked, overran>>

\* Mutant: the flash is requested when the upload is complete, before its
\* response is acknowledged.
PostFinishedEager(off, ok) ==
  /\ IF ok /\ recv_total # 0 /\ off >= recv_total
       THEN post_ok' = ok /\ flash_request' = TRUE /\ UNCHANGED prog_phase
       ELSE post_ok' = FALSE /\ prog_phase' = -1 /\ UNCHANGED flash_request
  /\ UNCHANGED <<reboot_post_pending, reboot_request, timers>>

\* httpd_post_finished(), given recv_off and post_ok as they are by then.
PostFinished(off, ok) ==
  /\ IF ok /\ recv_total # 0 /\ off >= recv_total
       THEN post_ok' = ok /\ UNCHANGED prog_phase
       ELSE post_ok' = FALSE /\ prog_phase' = -1
  /\ UNCHANGED request

\* Mutant: the copy is not clamped to the announced length.
ReceiveUnclamped(c, k) ==
  LET rest == IF k > left[c] THEN 0 ELSE left[c] - k
  IN
  /\ InRx /\ st[c] = "body"
  /\ post_ok /\ ~reboot_post_pending
  /\ recv_off' = recv_off + k
  /\ left' = [left EXCEPT ![c] = rest]
  /\ st' = IF rest = 0 THEN [st EXCEPT ![c] = "reply"] ELSE st
  /\ UNCHANGED <<buf, post_ok, prog_phase, request, recv_total, pc, history>>

\* http_post_rxpbuf(): post_content_len_left after k segments, none after an
\* application error.
LeftAfter(c, k, err) == IF err \/ k > left[c] THEN 0 ELSE left[c] - k

\* http_recv() with POST data: http_post_rxpbuf() and httpd_post_receive_data()
\* for k segments.  Data beyond recv_total is an overflow: the POST is over,
\* answered 400.  The early returns for !post_ok and for a pending reboot are
\* never taken: BodyOwnsServer.
Receive(c, k) ==
  LET n == IF k > recv_total - recv_off THEN recv_total - recv_off ELSE k
      overflow == k > n
      rest == LeftAfter(c, k, overflow)
  IN
  /\ InRx /\ st[c] = "body"
  /\ post_ok /\ ~reboot_post_pending
  /\ buf' = [i \in 0 .. MaxLen - 1 |->
               IF i \in recv_off .. recv_off + n - 1 THEN c ELSE buf[i]]
  /\ recv_off' = recv_off + n
  /\ left' = [left EXCEPT ![c] = rest]
  /\ IF rest = 0
       THEN Respond(c) /\ PostFinished(recv_off + n, ~overflow)
       ELSE UNCHANGED <<st, post_ok, prog_phase, request>>
  /\ overran' = (overran \/ k > left[c])
  /\ UNCHANGED <<recv_total, pc, owner, ownerAcked, rebooter, rebootAcked>>

-----------------------------------------------------------------------------
(* The end of a POST                                                       *)

\* Mutant: the result of the response is not looked at for a reboot.
ResponseCompleteUnasked(ok) ==
  IF reboot_post_pending
  THEN /\ timers < MaxTimers
       /\ reboot_request' = FALSE /\ timers' = timers + 1
       /\ UNCHANGED <<post_ok, prog_phase, flash_request, reboot_post_pending>>
  ELSE UNCHANGED <<post_ok, prog_phase, request>>

\* Mutant: any acknowledged response starts the flash.
ResponseCompleteUnchecked(ok) ==
  IF post_ok /\ ok
  THEN /\ flash_request' = TRUE
       /\ UNCHANGED <<post_ok, prog_phase, reboot_post_pending, reboot_request,
                      timers>>
  ELSE UNCHANGED <<post_ok, prog_phase, request>>

\* httpd_post_response_complete(): it does not look at its connection, and a
\* failure undoes neither flash_request nor a timeout already pending.
ResponseComplete(ok) ==
  CASE reboot_post_pending /\ ok ->
         /\ timers < MaxTimers
         /\ reboot_request' = FALSE
         /\ timers' = timers + 1
         /\ UNCHANGED <<post_ok, prog_phase, flash_request, reboot_post_pending>>
    [] reboot_post_pending /\ ~ok ->
         /\ reboot_post_pending' = FALSE
         /\ UNCHANGED <<post_ok, prog_phase, flash_request, reboot_request,
                        timers>>
    [] ~reboot_post_pending /\ post_ok /\ recv_total # 0
       /\ recv_off >= recv_total ->
         /\ IF ok
              THEN flash_request' = TRUE /\ UNCHANGED <<post_ok, prog_phase>>
              ELSE post_ok' = FALSE /\ prog_phase' = -1
                   /\ UNCHANGED flash_request
         /\ UNCHANGED <<reboot_post_pending, reboot_request, timers>>
    [] OTHER -> UNCHANGED <<post_ok, prog_phase, request>>

Close(c) == st' = [st EXCEPT ![c] = "closed"] /\ left' = [left EXCEPT ![c] = 0]

\* http_sent() -> http_eof(): the whole response was acknowledged.
ResponseAcked(c) ==
  /\ InRx /\ st[c] = "reply"
  /\ ResponseComplete(TRUE)
  /\ Close(c)
  /\ ownerAcked' = (ownerAcked \/ c = owner)
  /\ rebootAcked' = (rebootAcked \/ (reboot_post_pending /\ c = rebooter))
  /\ UNCHANGED <<recv_off, recv_total, buf, pc, owner, rebooter, overran>>

\* http_err(), http_close_conn() or the retry limit of http_poll() while a
\* POST response is pending: http_post_response_notify() with an error.
ResponseLost(c) ==
  /\ st[c] = "reply"
  /\ ResponseComplete(FALSE)
  /\ Close(c)
  /\ UNCHANGED <<recv_off, recv_total, buf, pc, history>>

\* Mutant: the application is not told that the connection is gone.
BodyLostSilently(c) ==
  /\ st[c] = "body"
  /\ Close(c)
  /\ UNCHANGED <<recv, request, prog_phase, pc, history>>

\* The same while the body is still expected: http_post_connection_closed()
\* calls httpd_post_finished(), which finds the upload incomplete.
BodyLost(c) ==
  /\ st[c] = "body"
  /\ Close(c)
  /\ PostFinished(recv_off, post_ok)
  /\ UNCHANGED <<recv_off, recv_total, buf, pc, history>>

\* The same for a connection the application does not wait for.
PlainClosed(c) ==
  /\ st[c] \in {"idle", "plain"}
  /\ Close(c)
  /\ UNCHANGED <<recv, request, prog_phase, pc, history>>

\* A connection goes away: reset or closed by the peer, or given up on by
\* http_poll() after HTTPD_MAX_RETRIES polls without progress.
ConnLost(c) == InRx /\ (ResponseLost(c) \/ BodyLost(c) \/ PlainClosed(c))

\* sys_check_timeouts() runs reboot_delay_cb().
TimerFires ==
  /\ InRx /\ timers > 0
  /\ timers' = timers - 1
  /\ reboot_request' = TRUE
  /\ UNCHANGED <<conn, recv, flash_request, reboot_post_pending, prog_phase, pc,
                 history>>

-----------------------------------------------------------------------------
(* The main loop                                                           *)

\* After flash_image() the loop goes straight to its reboot_request test.
FlashFailed ==
  /\ prog_phase' = -1
  /\ pc' = IF reboot_request THEN "reset" ELSE "loop"

\* flash_request is taken: flash_image() clears post_ok, then either refuses
\* the image before touching flash or enters phase 1.
StartFlash ==
  /\ pc = "loop" /\ flash_request
  /\ flash_request' = FALSE
  /\ post_ok' = FALSE
  /\ \/ FlashFailed
     \/ pc' = "flash" /\ prog_phase' = 1
  /\ UNCHANGED <<conn, recv_off, recv_total, buf, reboot_post_pending,
                 reboot_request, timers, history>>

\* flash_image() goes from erasing to writing, fails, or is done.
FlashWrite ==
  /\ pc = "flash" /\ prog_phase = 1
  /\ prog_phase' = 2
  /\ UNCHANGED <<conn, recv, request, pc, history>>

FlashError ==
  /\ pc = "flash"
  /\ FlashFailed
  /\ UNCHANGED <<conn, recv, request, history>>

FlashDone ==
  /\ pc = "flash" /\ prog_phase = 2 /\ timers < MaxTimers
  /\ prog_phase' = 3
  /\ reboot_request' = FALSE
  /\ timers' = timers + 1
  /\ pc' = "loop"
  /\ UNCHANGED <<conn, recv, flash_request, reboot_post_pending, history>>

\* The loop reaches do_reset().
DoReset ==
  /\ pc = "loop" /\ ~flash_request /\ reboot_request
  /\ pc' = "reset"
  /\ UNCHANGED <<conn, recv, request, prog_phase, history>>

\* Ctrl-C on the console, seen at the top of the loop, when both requests of
\* the last iteration have been served.  recovery_cancel_timeouts() removes
\* one timeout; the teardown aborts every connection, whose error callbacks
\* end an unfinished upload.
CtrlC ==
  /\ pc = "loop" /\ ~flash_request /\ ~reboot_request
  /\ pc' = "shell"
  /\ st' = [c \in Conns |-> "closed"]
  /\ left' = [c \in Conns |-> 0]
  /\ timers' = IF timers > 0 THEN timers - 1 ELSE 0
  /\ reboot_post_pending' = FALSE
  /\ IF \E c \in Conns : st[c] \in {"body", "reply"}
       THEN /\ post_ok' = FALSE
            /\ prog_phase' = IF post_ok THEN -1 ELSE prog_phase
       ELSE UNCHANGED <<post_ok, prog_phase>>
  /\ UNCHANGED <<recv_off, recv_total, buf, flash_request, reboot_request,
                 history>>

\* http_recovery is started again from the shell.
Restart ==
  /\ pc = "shell"
  /\ pc' = "loop"
  /\ recv_off' = 0 /\ recv_total' = 0 /\ post_ok' = FALSE
  /\ timers' = IF timers > 0 THEN timers - 1 ELSE 0
  /\ flash_request' = FALSE /\ reboot_post_pending' = FALSE
  /\ reboot_request' = FALSE
  /\ prog_phase' = 0
  /\ owner' = NoConn /\ ownerAcked' = FALSE
  /\ rebooter' = NoConn /\ rebootAcked' = FALSE
  /\ UNCHANGED <<conn, buf, overran>>

\* The board resets and enters recovery again.
Boot ==
  /\ pc = "reset"
  /\ st' = [c \in Conns |-> "closed"]
  /\ left' = [c \in Conns |-> 0]
  /\ post_ok' = FALSE /\ recv_off' = 0 /\ recv_total' = 0
  /\ buf' = [i \in 0 .. MaxLen - 1 |-> NoConn]
  /\ flash_request' = FALSE /\ reboot_post_pending' = FALSE
  /\ reboot_request' = FALSE /\ timers' = 0
  /\ prog_phase' = 0
  /\ pc' = "loop"
  /\ owner' = NoConn /\ ownerAcked' = FALSE
  /\ rebooter' = NoConn /\ rebootAcked' = FALSE
  /\ overran' = FALSE

Client(c) ==
  \/ Accept(c) \/ BeginRejected(c) \/ BeginInvalid(c) \/ BeginReboot(c)
  \/ \E n \in 1 .. MaxLen : BeginUpload(c, n)
  \/ \E k \in 1 .. MaxLen + 1 : Receive(c, k)
  \/ ResponseAcked(c)

FlashImage == StartFlash \/ FlashWrite \/ FlashError \/ FlashDone

Next ==
  \/ \E c \in Conns : Client(c) \/ ConnLost(c)
  \/ TimerFires
  \/ FlashImage
  \/ DoReset \/ CtrlC \/ Restart \/ Boot

Spec == Init /\ [][Next]_vars

\* The main loop is one thread that keeps running; http_poll() gives up on a
\* connection that makes no progress; lwIP timers expire.  Clients, the user
\* at the console and what happens after a reset are not assumed to act.
Fairness ==
  /\ WF_vars(FlashImage)
  /\ WF_vars(DoReset)
  /\ WF_vars(TimerFires)
  /\ \A c \in Conns : WF_vars(ConnLost(c))

FairSpec == Spec /\ Fairness

-----------------------------------------------------------------------------

ConnType == st \in [Conns -> ConnStates] /\ left \in [Conns -> 0 .. MaxLen]
RecvType ==
  /\ recv_off \in 0 .. MaxLen /\ recv_total \in 0 .. MaxLen
  /\ buf \in [0 .. MaxLen - 1 -> Conns \cup {NoConn}]
FlagType ==
  /\ post_ok \in BOOLEAN /\ flash_request \in BOOLEAN
  /\ reboot_post_pending \in BOOLEAN /\ reboot_request \in BOOLEAN
PhaseType ==
  /\ timers \in 0 .. MaxTimers
  /\ prog_phase \in -1 .. 3
  /\ pc \in {"loop", "flash", "shell", "reset"}
HistoryType ==
  /\ owner \in Conns \cup {NoConn} /\ rebooter \in Conns \cup {NoConn}
  /\ ownerAcked \in BOOLEAN /\ rebootAcked \in BOOLEAN
  /\ overran \in BOOLEAN

\* The type invariant.  That recv_off stays within the buffer is
\* httpd_post_receive_data()'s clamp to the announced length.
TypeOK == ConnType /\ RecvType /\ FlagType /\ PhaseType /\ HistoryType

\* A connection whose body is still expected owns the server: its upload is
\* the one being received, nothing is flashed or rebooted, and the two length
\* counters (lwIP's and the application's) agree.  So httpd_post_receive_data()
\* never writes one connection's data into another's upload.
BodyOwnsServer ==
  \A c \in Conns : st[c] = "body" =>
    /\ owner = c
    /\ post_ok /\ prog_phase = 0 /\ pc # "flash"
    /\ ~flash_request /\ ~reboot_post_pending
    /\ left[c] = recv_total - recv_off

\* What flash_image() works on is one complete upload: all of Content-Length
\* arrived, every segment of it from the same connection.
FlashedImageComplete ==
  pc = "flash" =>
    /\ recv_total > 0 /\ recv_off = recv_total
    /\ owner \in Conns
    /\ \A i \in 0 .. recv_total - 1 : buf[i] = owner

\* While flash_image() runs, no callback served from inside it changes the
\* image in RAM, its length, or the phase that /status reports.
FlashUndisturbed ==
  [][pc = "flash" /\ pc' = "flash" =>
       /\ UNCHANGED <<buf, recv_off, recv_total, post_ok, flash_request>>
       /\ prog_phase' >= prog_phase]_vars

\* Flashing starts only after the response of that very upload was
\* acknowledged ("waiting for POST response ACK").
FlashAfterAck == pc = "flash" => ownerAcked

\* That holds as long as every client keeps to its Content-Length: then a
\* connection whose response is pending is the one the server waits for, and
\* httpd_post_response_complete() may ignore which one it is.
FlashAfterOwnAck == pc = "flash" /\ ~overran => ownerAcked

\* The board resets only after a completed flash or after the response to the
\* reboot request was acknowledged ("not acknowledged ...; reboot cancelled").
ResetJustified ==
  [][pc # "reset" /\ pc' = "reset" =>
       rebootAcked \/ prog_phase = 3 \/ overran]_vars

\* No reset interrupts an upload that is being received, again unless a
\* client has sent more than its Content-Length.
NoResetDuringUpload ==
  [][pc # "reset" /\ pc' = "reset" =>
       overran \/ \A c \in Conns : st[c] # "body"]_vars

\* The server never stays busy for good: a stalled client, a lost response or
\* a failed flash frees it, and a finished one resets the board.
ServerFreed == Busy /\ pc \in {"loop", "flash"} ~> ~Busy \/ pc \in {"reset", "shell"}
=============================================================================
