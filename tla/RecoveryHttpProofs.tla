------------------------- MODULE RecoveryHttpProofs -------------------------
(***************************************************************************)
(* Proofs about RecoveryHttp: whatever the clients send, in whatever order *)
(* the callbacks run, an upload is never mixed with another one, what is   *)
(* flashed is one complete upload, and nothing disturbs a running flash.   *)
(***************************************************************************)
EXTENDS RecoveryHttp, TLAPS

\* A connection that sends a body is behind, and only then has data left.
BodyBehind == \A c \in Conns : st[c] = "body" => left[c] > 0

\* The application's counter never passes the announced length.
LengthsOK == recv_off <= recv_total

\* As long as an upload may still be flashed, what was received of it came
\* from the connection that announced it.
Received ==
  post_ok \/ flash_request \/ pc = "flash" =>
    /\ owner \in Conns
    /\ \A i \in 0 .. recv_off - 1 : buf[i] = owner

\* A flash is requested for a whole upload only.
RequestedWhole == flash_request => recv_total > 0 /\ recv_off = recv_total

\* While flash_image() runs the receive state is at rest.
FlashState ==
  pc = "flash" =>
    /\ recv_total > 0 /\ recv_off = recv_total
    /\ prog_phase \in {1, 2} /\ ~post_ok /\ ~flash_request

\* The teardown has closed every connection before the shell gets control.
ShellState == pc = "shell" => \A c \in Conns : st[c] = "closed"

\* The inductive invariant: BodyOwnsServer, and why it is kept.
Inv ==
  /\ TypeOK
  /\ BodyOwnsServer
  /\ BodyBehind
  /\ LengthsOK
  /\ Received
  /\ RequestedWhole
  /\ FlashState
  /\ ShellState

-----------------------------------------------------------------------------

\* The server is quiet when run_http_recovery() enters its main loop.
LEMMA InitInv == Init => Inv
<1> SUFFICES ASSUME Init PROVE Inv
  OBVIOUS
<1> USE HttpAssumption DEF Init
<1>1. TypeOK
  <2>1. ConnType
    BY DEF ConnType, ConnStates
  <2>2. RecvType
    BY DEF RecvType
  <2>3. FlagType
    BY DEF FlagType
  <2>4. PhaseType
    BY DEF PhaseType
  <2>5. HistoryType
    BY DEF HistoryType
  <2> QED
    BY <2>1, <2>2, <2>3, <2>4, <2>5 DEF TypeOK
<1>2. BodyOwnsServer /\ BodyBehind
  BY DEF BodyOwnsServer, BodyBehind
<1>3. LengthsOK
  BY DEF LengthsOK
<1>4. Received /\ RequestedWhole
  BY DEF Received, RequestedWhole
<1>5. FlashState
  BY DEF FlashState
<1>6. ShellState
  BY DEF ShellState
<1> QED
  BY <1>1, <1>2, <1>3, <1>4, <1>5, <1>6 DEF Inv

\* Opening a connection, refusing its POST and closing it touch nothing that
\* the upload depends on.
LEMMA ConnectionInv ==
  ASSUME NEW c \in Conns, Inv, Accept(c) \/ BeginRejected(c) \/
         PlainClosed(c)
  PROVE  Inv'
<1> USE HttpAssumption DEF Inv, Accept, BeginRejected, PlainClosed, Close,
        InRx, recv, request, history
<1>1. TypeOK'
  <2>1. ConnType'
    BY DEF TypeOK, ConnType, ConnStates
  <2>2. RecvType'
    BY DEF TypeOK, RecvType
  <2>3. FlagType'
    BY DEF TypeOK, FlagType
  <2>4. PhaseType'
    BY DEF TypeOK, PhaseType
  <2>5. HistoryType'
    BY DEF TypeOK, HistoryType
  <2> QED
    BY <2>1, <2>2, <2>3, <2>4, <2>5 DEF TypeOK
<1>2. (BodyOwnsServer /\ BodyBehind)'
  BY DEF TypeOK, ConnType, BodyOwnsServer, BodyBehind
<1>3. (LengthsOK /\ RequestedWhole)'
  BY DEF LengthsOK, RequestedWhole
<1>4. Received'
  BY DEF Received
<1>5. (FlashState /\ ShellState)'
  BY DEF FlashState, ShellState
<1> QED
  BY <1>1, <1>2, <1>3, <1>4, <1>5

\* A POST refused after the bookkeeping was reset disturbs no upload: there
\* is none when the server is not busy.
LEMMA BeginInvalidInv ==
  ASSUME NEW c \in Conns, Inv, BeginInvalid(c)
  PROVE  Inv'
<1> USE HttpAssumption DEF Inv, BeginInvalid, InRx, Busy, request, history
<1>1. TypeOK'
  <2>1. ConnType'
    BY DEF TypeOK, ConnType, ConnStates
  <2>2. RecvType'
    BY DEF TypeOK, RecvType
  <2>3. FlagType'
    BY DEF TypeOK, FlagType
  <2>4. PhaseType'
    BY DEF TypeOK, PhaseType
  <2>5. HistoryType'
    BY DEF TypeOK, HistoryType
  <2> QED
    BY <2>1, <2>2, <2>3, <2>4, <2>5 DEF TypeOK
<1>2. (BodyOwnsServer /\ BodyBehind)'
  BY DEF BodyOwnsServer, BodyBehind
<1>3. (LengthsOK /\ RequestedWhole)'
  BY DEF LengthsOK, RequestedWhole
<1>4. Received'
  BY DEF Received
<1>5. (FlashState /\ ShellState)'
  BY DEF FlashState, ShellState
<1> QED
  BY <1>1, <1>2, <1>3, <1>4, <1>5

\* A new upload starts when no other one is alive.
LEMMA BeginUploadInv ==
  ASSUME NEW c \in Conns, NEW n \in 1 .. MaxLen, Inv, BeginUpload(c, n)
  PROVE  Inv'
<1> USE HttpAssumption DEF Inv, BeginUpload, ExpectBody, InRx, Busy, request
<1>1. TypeOK'
  <2>1. ConnType'
    BY DEF TypeOK, ConnType, ConnStates
  <2>2. RecvType'
    BY DEF TypeOK, RecvType
  <2>3. FlagType'
    BY DEF TypeOK, FlagType
  <2>4. PhaseType'
    BY DEF TypeOK, PhaseType
  <2>5. HistoryType'
    BY DEF TypeOK, HistoryType
  <2> QED
    BY <2>1, <2>2, <2>3, <2>4, <2>5 DEF TypeOK
<1>2. (BodyOwnsServer /\ BodyBehind)'
  BY DEF TypeOK, ConnType, RecvType, FlagType, BodyOwnsServer, BodyBehind,
         LengthsOK, FlashState, ShellState
<1>3. (LengthsOK /\ RequestedWhole)'
  BY DEF LengthsOK, RequestedWhole
<1>4. Received'
  BY DEF Received
<1>5. (FlashState /\ ShellState)'
  BY DEF FlashState, ShellState
<1> QED
  BY <1>1, <1>2, <1>3, <1>4, <1>5

\* A reboot request is accepted when no upload is alive.
LEMMA BeginRebootInv ==
  ASSUME NEW c \in Conns, Inv, BeginReboot(c)
  PROVE  Inv'
<1> USE HttpAssumption DEF Inv, BeginReboot, Respond, InRx, Busy, recv
<1>1. TypeOK'
  <2>1. ConnType'
    BY DEF TypeOK, ConnType, ConnStates
  <2>2. RecvType'
    BY DEF TypeOK, RecvType
  <2>3. FlagType'
    BY DEF TypeOK, FlagType
  <2>4. PhaseType'
    BY DEF TypeOK, PhaseType
  <2>5. HistoryType'
    BY DEF TypeOK, HistoryType
  <2> QED
    BY <2>1, <2>2, <2>3, <2>4, <2>5 DEF TypeOK
<1>2. (BodyOwnsServer /\ BodyBehind)'
  BY DEF BodyOwnsServer, BodyBehind
<1>3. (LengthsOK /\ RequestedWhole)'
  BY DEF LengthsOK, RequestedWhole
<1>4. Received'
  BY DEF Received
<1>5. (FlashState /\ ShellState)'
  BY DEF FlashState, ShellState
<1> QED
  BY <1>1, <1>2, <1>3, <1>4, <1>5

\* Body data extends the upload of its own connection: no other connection
\* expects a body, and the clamp keeps the counters together.
LEMMA ReceiveInv ==
  ASSUME NEW c \in Conns, NEW k \in 1 .. MaxLen + 1, Inv, Receive(c, k)
  PROVE  Inv'
<1> USE HttpAssumption
<1> DEFINE n == IF k > recv_total - recv_off THEN recv_total - recv_off ELSE k
           overflow == k > n
           rest == LeftAfter(c, k, overflow)
<1>1. /\ st[c] = "body" /\ owner = c /\ post_ok
      /\ prog_phase = 0 /\ pc = "loop" /\ ~flash_request
  BY DEF Inv, BodyOwnsServer, Receive, InRx
<1>2. /\ left[c] \in 1 .. MaxLen /\ left[c] = recv_total - recv_off
      /\ recv_off \in 0 .. MaxLen /\ recv_total \in 1 .. MaxLen
  BY <1>1 DEF Inv, BodyOwnsServer, BodyBehind, TypeOK, ConnType, RecvType
<1>3. /\ n \in 1 .. left[c] /\ rest \in 0 .. MaxLen
      /\ rest # 0 => rest = left[c] - n
      /\ rest = 0 => n = left[c]
  BY <1>2 DEF LeftAfter
<1>4. /\ recv_off' = recv_off + n
      /\ left' = [left EXCEPT ![c] = rest]
      /\ buf' = [i \in 0 .. MaxLen - 1 |->
                   IF i \in recv_off .. recv_off + n - 1 THEN c ELSE buf[i]]
      /\ UNCHANGED <<recv_total, pc, owner, ownerAcked, rebooter, rebootAcked>>
      /\ overran' = (overran \/ k > left[c])
      /\ UNCHANGED <<flash_request, reboot_post_pending, reboot_request, timers>>
  BY DEF Receive, PostFinished, request, history
<1>5. \/ /\ rest = 0 /\ st' = [st EXCEPT ![c] = "reply"]
         /\ \/ post_ok' = TRUE /\ prog_phase' = prog_phase
            \/ post_ok' = FALSE /\ prog_phase' = -1
      \/ /\ rest # 0 /\ st' = st
         /\ post_ok' = post_ok /\ prog_phase' = prog_phase
  <2>1. CASE rest = 0
    <3>1. /\ st' = [st EXCEPT ![c] = "reply"]
          /\ PostFinished(recv_off + n, ~overflow)
      BY <2>1 DEF Receive, Respond
    <3> QED
      BY <2>1, <3>1 DEF PostFinished
  <2>2. CASE rest # 0
    BY <2>2 DEF Receive
  <2> QED
    BY <2>1, <2>2
<1> HIDE DEF n, overflow, rest
<1>6. \A d \in Conns : d # c => st[d] # "body"
  BY <1>1 DEF Inv, BodyOwnsServer
<1>7. TypeOK'
  <2>1. ConnType'
    BY <1>3, <1>4, <1>5 DEF Inv, TypeOK, ConnType, ConnStates
  <2>2. RecvType'
    BY <1>2, <1>3, <1>4 DEF Inv, TypeOK, RecvType
  <2>3. FlagType'
    BY <1>1, <1>4, <1>5 DEF Inv, TypeOK, FlagType
  <2>4. PhaseType'
    <3>1. prog_phase' \in {-1, 0}
      BY <1>1, <1>5
    <3> QED
      BY <3>1, <1>4 DEF Inv, TypeOK, PhaseType
  <2>5. HistoryType'
    BY <1>4 DEF Inv, TypeOK, HistoryType
  <2> QED
    BY <2>1, <2>2, <2>3, <2>4, <2>5 DEF TypeOK
<1>8. (BodyOwnsServer /\ BodyBehind)'
  <2>1. CASE rest = 0
    BY <2>1, <1>5, <1>6 DEF Inv, TypeOK, ConnType, BodyOwnsServer, BodyBehind
  <2>2. CASE rest # 0
    <3>1. rest > 0 /\ left'[c] = recv_total' - recv_off'
      BY <2>2, <1>2, <1>3, <1>4 DEF Inv, TypeOK, ConnType
    <3> QED
      BY <2>2, <3>1, <1>1, <1>4, <1>5, <1>6
         DEF Inv, TypeOK, ConnType, BodyOwnsServer, BodyBehind
  <2> QED
    BY <2>1, <2>2
<1>9. (LengthsOK /\ RequestedWhole)'
  BY <1>1, <1>2, <1>3, <1>4 DEF LengthsOK, RequestedWhole
<1>10. Received'
  BY <1>1, <1>2, <1>3, <1>4 DEF Inv, Received, TypeOK, RecvType
<1>11. (FlashState /\ ShellState)'
  BY <1>1, <1>4 DEF FlashState, ShellState
<1> QED
  BY <1>7, <1>8, <1>9, <1>10, <1>11 DEF Inv

\* A response is acknowledged or lost, on whichever connection: a flash is
\* requested for a whole upload only, and none is whole while a body is due.
LEMMA ResponseInv ==
  ASSUME NEW c \in Conns, Inv, ResponseAcked(c) \/ ResponseLost(c)
  PROVE  Inv'
<1> USE HttpAssumption DEF Inv, ResponseAcked, ResponseLost,
        ResponseComplete, Close, InRx, request, history
<1>1. TypeOK'
  <2>1. ConnType'
    BY DEF TypeOK, ConnType, ConnStates
  <2>2. RecvType'
    BY DEF TypeOK, RecvType
  <2>3. FlagType'
    BY DEF TypeOK, FlagType
  <2>4. PhaseType'
    BY DEF TypeOK, PhaseType
  <2>5. HistoryType'
    BY DEF TypeOK, HistoryType
  <2> QED
    BY <2>1, <2>2, <2>3, <2>4, <2>5 DEF TypeOK
<1>2. (BodyOwnsServer /\ BodyBehind)'
  BY DEF TypeOK, ConnType, RecvType, FlagType, BodyOwnsServer, BodyBehind,
         LengthsOK, FlashState, ShellState
<1>3. (LengthsOK /\ RequestedWhole)'
  BY DEF TypeOK, RecvType, LengthsOK, RequestedWhole
<1>4. Received'
  BY DEF Received
<1>5. (FlashState /\ ShellState)'
  BY DEF FlashState, ShellState
<1> QED
  BY <1>1, <1>2, <1>3, <1>4, <1>5

\* A lost upload is given up.
LEMMA BodyLostInv ==
  ASSUME NEW c \in Conns, Inv, BodyLost(c)
  PROVE  Inv'
<1> USE HttpAssumption DEF Inv, BodyLost, Close, PostFinished, request,
        history
<1>1. TypeOK'
  <2>1. ConnType'
    BY DEF TypeOK, ConnType, ConnStates
  <2>2. RecvType'
    BY DEF TypeOK, RecvType
  <2>3. FlagType'
    BY DEF TypeOK, FlagType
  <2>4. PhaseType'
    BY DEF TypeOK, PhaseType
  <2>5. HistoryType'
    BY DEF TypeOK, HistoryType
  <2> QED
    BY <2>1, <2>2, <2>3, <2>4, <2>5 DEF TypeOK
<1>2. (BodyOwnsServer /\ BodyBehind)'
  BY DEF TypeOK, ConnType, BodyOwnsServer, BodyBehind
<1>3. (LengthsOK /\ RequestedWhole)'
  BY DEF LengthsOK, RequestedWhole
<1>4. Received'
  BY DEF Received
<1>5. (FlashState /\ ShellState)'
  BY DEF FlashState, ShellState, BodyOwnsServer
<1> QED
  BY <1>1, <1>2, <1>3, <1>4, <1>5

\* The reboot timer and the reset itself.
LEMMA TimerInv ==
  ASSUME Inv, TimerFires \/ DoReset
  PROVE  Inv'
<1> USE HttpAssumption DEF Inv, TimerFires, DoReset, InRx, conn, recv,
        request, history
<1>1. TypeOK'
  <2>1. ConnType'
    BY DEF TypeOK, ConnType
  <2>2. RecvType'
    BY DEF TypeOK, RecvType
  <2>3. FlagType'
    BY DEF TypeOK, FlagType
  <2>4. PhaseType'
    BY DEF TypeOK, PhaseType
  <2>5. HistoryType'
    BY DEF TypeOK, HistoryType
  <2> QED
    BY <2>1, <2>2, <2>3, <2>4, <2>5 DEF TypeOK
<1>2. (BodyOwnsServer /\ BodyBehind)'
  BY DEF BodyOwnsServer, BodyBehind
<1>3. (LengthsOK /\ RequestedWhole)'
  BY DEF LengthsOK, RequestedWhole
<1>4. Received'
  BY DEF Received
<1>5. (FlashState /\ ShellState)'
  BY DEF FlashState, ShellState
<1> QED
  BY <1>1, <1>2, <1>3, <1>4, <1>5

\* The main loop takes flash_request, or flash_image() refuses the image.
LEMMA StartFlashInv ==
  ASSUME Inv, StartFlash
  PROVE  Inv'
<1> USE HttpAssumption DEF Inv, StartFlash, FlashFailed, conn, history
<1>1. TypeOK'
  <2>1. ConnType'
    BY DEF TypeOK, ConnType
  <2>2. RecvType'
    BY DEF TypeOK, RecvType
  <2>3. FlagType'
    BY DEF TypeOK, FlagType
  <2>4. PhaseType'
    BY DEF TypeOK, PhaseType
  <2>5. HistoryType'
    BY DEF TypeOK, HistoryType
  <2> QED
    BY <2>1, <2>2, <2>3, <2>4, <2>5 DEF TypeOK
<1>2. (BodyOwnsServer /\ BodyBehind)'
  BY DEF BodyOwnsServer, BodyBehind
<1>3. (LengthsOK /\ RequestedWhole)'
  BY DEF LengthsOK, RequestedWhole
<1>4. Received'
  BY DEF Received
<1>5. (FlashState /\ ShellState)'
  BY DEF FlashState, ShellState, RequestedWhole
<1> QED
  BY <1>1, <1>2, <1>3, <1>4, <1>5

\* The phases of flash_image().
LEMMA FlashPhasesInv ==
  ASSUME Inv, FlashWrite \/ FlashError \/ FlashDone
  PROVE  Inv'
<1> USE HttpAssumption DEF Inv, FlashWrite, FlashError, FlashDone,
        FlashFailed, conn, recv, request, history
<1>1. TypeOK'
  <2>1. ConnType'
    BY DEF TypeOK, ConnType
  <2>2. RecvType'
    BY DEF TypeOK, RecvType
  <2>3. FlagType'
    BY DEF TypeOK, FlagType
  <2>4. PhaseType'
    BY DEF TypeOK, PhaseType
  <2>5. HistoryType'
    BY DEF TypeOK, HistoryType
  <2> QED
    BY <2>1, <2>2, <2>3, <2>4, <2>5 DEF TypeOK
<1>2. (BodyOwnsServer /\ BodyBehind)'
  BY DEF BodyOwnsServer, BodyBehind
<1>3. (LengthsOK /\ RequestedWhole)'
  BY DEF LengthsOK, RequestedWhole
<1>4. Received'
  BY DEF Received
<1>5. (FlashState /\ ShellState)'
  BY DEF FlashState, ShellState
<1> QED
  BY <1>1, <1>2, <1>3, <1>4, <1>5

\* Ctrl-C closes every connection.
LEMMA CtrlCInv ==
  ASSUME Inv, CtrlC
  PROVE  Inv'
<1> USE HttpAssumption DEF Inv, CtrlC, history
<1>1. TypeOK'
  <2>1. ConnType'
    BY DEF TypeOK, ConnType, ConnStates
  <2>2. RecvType'
    BY DEF TypeOK, RecvType
  <2>3. FlagType'
    BY DEF TypeOK, FlagType
  <2>4. PhaseType'
    BY DEF TypeOK, PhaseType
  <2>5. HistoryType'
    BY DEF TypeOK, HistoryType
  <2> QED
    BY <2>1, <2>2, <2>3, <2>4, <2>5 DEF TypeOK
<1>2. (BodyOwnsServer /\ BodyBehind)'
  BY DEF BodyOwnsServer, BodyBehind
<1>3. (LengthsOK /\ RequestedWhole)'
  BY DEF LengthsOK, RequestedWhole
<1>4. Received'
  BY DEF Received
<1>5. (FlashState /\ ShellState)'
  BY DEF FlashState, ShellState
<1> QED
  BY <1>1, <1>2, <1>3, <1>4, <1>5

\* http_recovery is started again with every connection closed.
LEMMA RestartInv ==
  ASSUME Inv, Restart
  PROVE  Inv'
<1> USE HttpAssumption DEF Inv, Restart, conn
<1>1. TypeOK'
  <2>1. ConnType'
    BY DEF TypeOK, ConnType
  <2>2. RecvType'
    BY DEF TypeOK, RecvType
  <2>3. FlagType'
    BY DEF TypeOK, FlagType
  <2>4. PhaseType'
    BY DEF TypeOK, PhaseType
  <2>5. HistoryType'
    BY DEF TypeOK, HistoryType
  <2> QED
    BY <2>1, <2>2, <2>3, <2>4, <2>5 DEF TypeOK
<1>2. (BodyOwnsServer /\ BodyBehind)'
  BY DEF TypeOK, ConnType, BodyOwnsServer, BodyBehind, ShellState
<1>3. (LengthsOK /\ RequestedWhole)'
  BY DEF LengthsOK, RequestedWhole
<1>4. Received'
  BY DEF Received
<1>5. (FlashState /\ ShellState)'
  BY DEF FlashState, ShellState
<1> QED
  BY <1>1, <1>2, <1>3, <1>4, <1>5

\* The board restarts from nothing.
LEMMA BootInv ==
  ASSUME Inv, Boot
  PROVE  Inv'
<1> USE HttpAssumption DEF Inv, Boot
<1>1. TypeOK'
  <2>1. ConnType'
    BY DEF TypeOK, ConnType, ConnStates
  <2>2. RecvType'
    BY DEF TypeOK, RecvType
  <2>3. FlagType'
    BY DEF TypeOK, FlagType
  <2>4. PhaseType'
    BY DEF TypeOK, PhaseType
  <2>5. HistoryType'
    BY DEF TypeOK, HistoryType
  <2> QED
    BY <2>1, <2>2, <2>3, <2>4, <2>5 DEF TypeOK
<1>2. (BodyOwnsServer /\ BodyBehind)'
  BY DEF BodyOwnsServer, BodyBehind
<1>3. (LengthsOK /\ RequestedWhole)'
  BY DEF LengthsOK, RequestedWhole
<1>4. Received'
  BY DEF Received
<1>5. (FlashState /\ ShellState)'
  BY DEF FlashState, ShellState
<1> QED
  BY <1>1, <1>2, <1>3, <1>4, <1>5

-----------------------------------------------------------------------------

\* Every step of the system preserves the invariant.
LEMMA NextInv == Inv /\ [Next]_vars => Inv'
<1> SUFFICES ASSUME Inv, [Next]_vars PROVE Inv'
  OBVIOUS
<1>1. ASSUME NEW c \in Conns, Client(c) PROVE Inv'
  BY <1>1, ConnectionInv, BeginInvalidInv, BeginUploadInv, BeginRebootInv,
     ReceiveInv, ResponseInv DEF Client
<1>2. ASSUME NEW c \in Conns, ConnLost(c) PROVE Inv'
  BY <1>2, ConnectionInv, ResponseInv, BodyLostInv DEF ConnLost
<1>3. CASE TimerFires \/ FlashImage \/ DoReset \/ CtrlC \/ Restart \/ Boot
  BY <1>3, TimerInv, StartFlashInv, FlashPhasesInv, CtrlCInv, RestartInv,
     BootInv DEF FlashImage
<1>4. CASE UNCHANGED vars
  <2> USE <1>4 DEF vars, conn, recv, request, history
  <2>1. TypeOK'
    BY DEF Inv, TypeOK, ConnType, RecvType, FlagType, PhaseType, HistoryType
  <2>2. (BodyOwnsServer /\ BodyBehind /\ LengthsOK /\ Received)'
    BY DEF Inv, BodyOwnsServer, BodyBehind, LengthsOK, Received
  <2>3. (RequestedWhole /\ FlashState /\ ShellState)'
    BY DEF Inv, RequestedWhole, FlashState, ShellState
  <2> QED
    BY <2>1, <2>2, <2>3 DEF Inv
<1> QED
  BY <1>1, <1>2, <1>3, <1>4 DEF Next

\* The invariant holds in every reachable state.
THEOREM SpecInv == Spec => []Inv
  BY InitInv, NextInv, PTL DEF Spec

\* Types, in particular the receive buffer's bounds, for any number of
\* connections, any upload length and any client.
THEOREM TypeCorrect == Spec => []TypeOK
<1>1. Inv => TypeOK
  BY DEF Inv
<1> QED
  BY <1>1, SpecInv, PTL

\* A connection that sends a body owns the server: httpd_post_receive_data()
\* never mixes two uploads although it ignores its connection argument.
THEOREM BodyOwned == Spec => []BodyOwnsServer
<1>1. Inv => BodyOwnsServer
  BY DEF Inv
<1> QED
  BY <1>1, SpecInv, PTL

\* What flash_image() works on is one complete upload of one connection.
THEOREM FlashedComplete == Spec => []FlashedImageComplete
<1>1. Inv => FlashedImageComplete
  BY DEF Inv, FlashState, Received, FlashedImageComplete
<1> QED
  BY <1>1, SpecInv, PTL

\* A callback served from inside flash_image() finds the server busy, no body
\* expected and post_ok clear, so it leaves the image and the phase alone.
LEMMA FlashStep ==
  ASSUME Inv, Next, pc = "flash", pc' = "flash"
  PROVE  /\ UNCHANGED <<buf, recv_off, recv_total, post_ok, flash_request>>
         /\ prog_phase' >= prog_phase
<1>1. /\ prog_phase \in {1, 2} /\ ~post_ok /\ ~flash_request /\ Busy
      /\ \A c \in Conns : st[c] # "body"
  BY DEF Inv, FlashState, BodyOwnsServer, Busy
<1>2. ASSUME NEW ok \in BOOLEAN, ResponseComplete(ok)
      PROVE  UNCHANGED <<post_ok, prog_phase, flash_request>>
  BY <1>1, <1>2 DEF ResponseComplete, request
<1>3. ASSUME NEW c \in Conns, Client(c)
      PROVE  UNCHANGED <<recv, prog_phase, flash_request>>
  BY <1>1, <1>2, <1>3 DEF Client, Accept, BeginRejected, BeginInvalid,
     BeginUpload, BeginReboot, Receive, ResponseAcked, recv, request
<1>4. ASSUME NEW c \in Conns, ConnLost(c)
      PROVE  UNCHANGED <<recv, prog_phase, flash_request>>
  BY <1>1, <1>2, <1>4 DEF ConnLost, ResponseLost, BodyLost, PlainClosed, recv,
     request
<1>5. CASE TimerFires \/ FlashImage \/ DoReset \/ CtrlC \/ Restart \/ Boot
  BY <1>1, <1>5 DEF TimerFires, FlashImage, StartFlash, FlashWrite, FlashError,
     FlashDone, FlashFailed, DoReset, CtrlC, Restart, Boot, recv, request
<1> QED
  BY <1>1, <1>3, <1>4, <1>5 DEF Next, recv

\* No callback disturbs a running flash.
THEOREM FlashLeftAlone == Spec => FlashUndisturbed
<1>1. Inv /\ [Next]_vars
        => [pc = "flash" /\ pc' = "flash" =>
              /\ UNCHANGED <<buf, recv_off, recv_total, post_ok, flash_request>>
              /\ prog_phase' >= prog_phase]_vars
  BY FlashStep
<1> QED
  BY <1>1, SpecInv, PTL DEF Spec, FlashUndisturbed

-----------------------------------------------------------------------------
(* Clients that keep to their Content-Length                               *)

\* A response is pending on the connection the server waits for: the one that
\* asked for the reboot, or the one whose whole upload is in RAM.
ReplyAwaited ==
  \A c \in Conns : st[c] = "reply" =>
    \/ /\ reboot_post_pending /\ c = rebooter
       /\ timers = 0 /\ ~reboot_request
    \/ /\ ~reboot_post_pending /\ c = owner
       /\ post_ok /\ ~flash_request
       /\ recv_total > 0 /\ recv_off = recv_total

\* A pending reboot and an upload exclude each other.
RebootAlone ==
  reboot_post_pending => ~post_ok /\ ~flash_request /\ prog_phase <= 0

\* An upload is alive in phase 0 only.
UploadPhase == post_ok => prog_phase = 0

\* flash_request is the owner's acknowledgement.
RequestAcked ==
  /\ flash_request => post_ok /\ ownerAcked
  /\ pc = "flash" => ownerAcked

\* The one reboot timer has its reason.
TimerJustified ==
  /\ timers <= 1
  /\ timers > 0 \/ reboot_request =>
       \/ reboot_post_pending /\ rebootAcked
       \/ prog_phase = 3

Awaited ==
  ~overran => /\ ReplyAwaited
              /\ RebootAlone
              /\ UploadPhase
              /\ RequestAcked
              /\ TimerJustified

-----------------------------------------------------------------------------

\* Connections the application does not wait for, and refused POSTs.
LEMMA ConnectionAwaited ==
  ASSUME NEW c \in Conns, Inv, Awaited,
         Accept(c) \/ BeginRejected(c) \/ PlainClosed(c) \/ BeginInvalid(c)
  PROVE  Awaited'
<1> SUFFICES ASSUME ~overran'
             PROVE  (ReplyAwaited /\ RebootAlone /\ UploadPhase /\
                     RequestAcked /\ TimerJustified)'
  BY DEF Awaited
<1> USE HttpAssumption DEF Accept, BeginRejected, PlainClosed, BeginInvalid,
        Close, Busy, recv, request, history
<1>1. ReplyAwaited /\ RebootAlone /\ UploadPhase /\ RequestAcked /\ TimerJustified
  BY DEF Awaited
<1>2. ReplyAwaited'
  BY <1>1 DEF Inv, TypeOK, ConnType, ReplyAwaited
<1>3. (RebootAlone /\ UploadPhase)'
  BY <1>1 DEF RebootAlone, UploadPhase
<1>4. RequestAcked'
  BY <1>1 DEF RequestAcked
<1>5. TimerJustified'
  BY <1>1 DEF TimerJustified
<1> QED
  BY <1>2, <1>3, <1>4, <1>5

\* An accepted POST finds no response pending and no timer running.
LEMMA BeginAwaited ==
  ASSUME NEW c \in Conns, Inv, Awaited,
         BeginReboot(c) \/ \E n \in 1 .. MaxLen : BeginUpload(c, n)
  PROVE  Awaited'
<1> SUFFICES ASSUME ~overran'
             PROVE  (ReplyAwaited /\ RebootAlone /\ UploadPhase /\
                     RequestAcked /\ TimerJustified)'
  BY DEF Awaited
<1> USE HttpAssumption DEF BeginReboot, BeginUpload, ExpectBody, Respond,
        InRx, Busy, recv, request
<1>1. ReplyAwaited /\ RebootAlone /\ UploadPhase /\ RequestAcked /\ TimerJustified
  BY DEF Awaited
<1>2. pc = "loop" /\ timers = 0 /\ ~reboot_request
  BY <1>1 DEF Inv, FlashState, TypeOK, PhaseType, TimerJustified
<1>3. \A d \in Conns : st[d] # "reply"
  BY <1>1 DEF ReplyAwaited
<1>4. ReplyAwaited'
  BY <1>2, <1>3 DEF Inv, TypeOK, ConnType, ReplyAwaited
<1>5. (RebootAlone /\ UploadPhase)'
  BY <1>1 DEF Inv, TypeOK, PhaseType, RebootAlone, UploadPhase
<1>6. RequestAcked'
  BY <1>1, <1>2 DEF RequestAcked
<1>7. TimerJustified'
  BY <1>1, <1>2 DEF TimerJustified
<1> QED
  BY <1>4, <1>5, <1>6, <1>7

\* A client that keeps to its Content-Length ends its body with the whole
\* upload in RAM.
LEMMA ReceiveAwaited ==
  ASSUME NEW c \in Conns, NEW k \in 1 .. MaxLen + 1, Inv, Awaited, Receive(c, k)
  PROVE  Awaited'
<1> SUFFICES ASSUME ~overran'
             PROVE  (ReplyAwaited /\ RebootAlone /\ UploadPhase /\
                     RequestAcked /\ TimerJustified)'
  BY DEF Awaited
<1> USE HttpAssumption
<1>1. ~overran /\ ~(k > left[c])
  BY DEF Receive
<1>2. ReplyAwaited /\ RebootAlone /\ UploadPhase /\ RequestAcked /\ TimerJustified
  BY <1>1 DEF Awaited
<1>3. /\ st[c] = "body" /\ owner = c /\ post_ok /\ prog_phase = 0
      /\ ~flash_request /\ ~reboot_post_pending
      /\ left[c] = recv_total - recv_off /\ left[c] > 0
      /\ left[c] \in 0 .. MaxLen
      /\ recv_off \in 0 .. MaxLen /\ recv_total \in 0 .. MaxLen
  BY DEF Receive, Inv, BodyOwnsServer, BodyBehind, TypeOK, ConnType, RecvType
<1>4. \A d \in Conns : st[d] # "reply"
  BY <1>2, <1>3 DEF ReplyAwaited
<1>5. /\ recv_off' = recv_off + k
      /\ UNCHANGED <<recv_total, pc, owner, ownerAcked, rebooter, rebootAcked>>
      /\ UNCHANGED <<flash_request, reboot_post_pending, reboot_request, timers>>
      /\ post_ok' /\ prog_phase' = prog_phase
      /\ \/ st' = st
         \/ st' = [st EXCEPT ![c] = "reply"] /\ recv_off + k = recv_total
  <2> DEFINE n == IF k > recv_total - recv_off THEN recv_total - recv_off ELSE k
             overflow == k > n
             rest == LeftAfter(c, k, overflow)
  <2>1. n = k /\ ~overflow /\ rest = left[c] - k
    BY <1>1, <1>3 DEF LeftAfter
  <2>2. /\ recv_off' = recv_off + n
        /\ UNCHANGED <<recv_total, pc, owner, ownerAcked, rebooter, rebootAcked>>
        /\ IF rest = 0
             THEN Respond(c) /\ PostFinished(recv_off + n, ~overflow)
             ELSE UNCHANGED <<st, post_ok, prog_phase, request>>
    BY DEF Receive
  <2> HIDE DEF n, overflow, rest
  <2>3. CASE rest = 0
    <3>1. recv_off + n = recv_total /\ recv_total # 0 /\ recv_off + n >= recv_total
      BY <1>3, <2>1, <2>3
    <3> QED
      BY <2>1, <2>2, <2>3, <3>1 DEF PostFinished, Respond, request
  <2>4. CASE rest # 0
    BY <1>3, <2>1, <2>2, <2>4 DEF request
  <2> QED
    BY <2>3, <2>4
<1>6. ReplyAwaited'
  BY <1>3, <1>4, <1>5 DEF Inv, TypeOK, ConnType, ReplyAwaited
<1>7. (RebootAlone /\ UploadPhase)'
  BY <1>3, <1>5 DEF RebootAlone, UploadPhase
<1>8. RequestAcked'
  BY <1>2, <1>5 DEF RequestAcked
<1>9. TimerJustified'
  BY <1>2, <1>5 DEF TimerJustified
<1> QED
  BY <1>6, <1>7, <1>8, <1>9

\* The response that ends is the one waited for, so its result applies to the
\* request it answers.
LEMMA ResponseAwaited ==
  ASSUME NEW c \in Conns, Inv, Awaited, ResponseAcked(c) \/ ResponseLost(c)
  PROVE  Awaited'
<1> SUFFICES ASSUME ~overran'
             PROVE  (ReplyAwaited /\ RebootAlone /\ UploadPhase /\
                     RequestAcked /\ TimerJustified)'
  BY DEF Awaited
<1> USE HttpAssumption
<1>1. ~overran
  BY DEF ResponseAcked, ResponseLost, history
<1>2. ReplyAwaited /\ RebootAlone /\ UploadPhase /\ RequestAcked /\ TimerJustified
  BY <1>1 DEF Awaited
<1>3. st[c] = "reply" /\ st' = [st EXCEPT ![c] = "closed"]
  BY DEF ResponseAcked, ResponseLost, Close
<1>4. \A d \in Conns : d # c => st[d] # "reply"
  BY <1>2, <1>3 DEF ReplyAwaited
<1>5. ReplyAwaited'
  BY <1>3, <1>4 DEF Inv, TypeOK, ConnType, ReplyAwaited
<1>6. CASE reboot_post_pending
  <2>1. c = rebooter /\ timers = 0 /\ ~reboot_request
    BY <1>2, <1>3, <1>6 DEF ReplyAwaited
  <2>2. /\ UNCHANGED <<post_ok, prog_phase, flash_request, pc>>
        /\ ownerAcked => ownerAcked'
        /\ \/ /\ ~reboot_request' /\ timers' = 1 /\ rebootAcked'
              /\ reboot_post_pending'
           \/ /\ ~reboot_request' /\ timers' = 0 /\ ~reboot_post_pending'
    <3>1. CASE ResponseAcked(c)
      <4>1. ResponseComplete(TRUE) /\ pc' = pc /\ rebootAcked'
            /\ (ownerAcked => ownerAcked')
        BY <1>6, <2>1, <3>1 DEF ResponseAcked
      <4> QED
        BY <1>6, <2>1, <4>1 DEF ResponseComplete
    <3>2. CASE ResponseLost(c)
      <4>1. ResponseComplete(FALSE) /\ pc' = pc /\ ownerAcked' = ownerAcked
        BY <3>2 DEF ResponseLost, history
      <4> QED
        BY <1>6, <2>1, <4>1 DEF ResponseComplete
    <3> QED
      BY <3>1, <3>2
  <2>3. (RebootAlone /\ UploadPhase)'
    BY <1>2, <1>6, <2>2 DEF RebootAlone, UploadPhase
  <2>4. (RequestAcked /\ TimerJustified)'
    BY <1>2, <2>2 DEF RequestAcked, TimerJustified
  <2> QED
    BY <1>5, <2>3, <2>4
<1>7. CASE ~reboot_post_pending
  <2>1. /\ c = owner /\ post_ok /\ ~flash_request
        /\ recv_total > 0 /\ recv_off = recv_total
    BY <1>2, <1>3, <1>7 DEF ReplyAwaited
  <2>2. /\ UNCHANGED <<reboot_post_pending, reboot_request, timers, pc>>
        /\ rebootAcked => rebootAcked'
        /\ ownerAcked => ownerAcked'
        /\ \/ /\ flash_request' = TRUE /\ ownerAcked'
              /\ post_ok' = post_ok /\ prog_phase' = prog_phase
           \/ /\ flash_request' = flash_request
              /\ post_ok' = FALSE /\ prog_phase' = -1
    <3>1. recv_total # 0 /\ recv_off >= recv_total
      BY <2>1 DEF Inv, TypeOK, RecvType
    <3>2. CASE ResponseAcked(c)
      <4>1. ResponseComplete(TRUE) /\ pc' = pc /\ ownerAcked'
            /\ (rebootAcked => rebootAcked')
        BY <2>1, <3>2 DEF ResponseAcked
      <4> QED
        BY <1>7, <2>1, <3>1, <4>1 DEF ResponseComplete
    <3>3. CASE ResponseLost(c)
      <4>1. ResponseComplete(FALSE) /\ pc' = pc
            /\ UNCHANGED <<ownerAcked, rebootAcked>>
        BY <3>3 DEF ResponseLost, history
      <4> QED
        BY <1>7, <2>1, <3>1, <4>1 DEF ResponseComplete
    <3> QED
      BY <3>2, <3>3
  <2>3. (RebootAlone /\ UploadPhase)'
    BY <1>2, <1>7, <2>1, <2>2 DEF RebootAlone, UploadPhase
  <2>4. RequestAcked'
    <3>1. flash_request' => post_ok' /\ ownerAcked'
      BY <2>1, <2>2
    <3>2. pc' = "flash" => ownerAcked'
      BY <1>2, <2>2 DEF RequestAcked
    <3> QED
      BY <3>1, <3>2 DEF RequestAcked
  <2>5. TimerJustified'
    BY <1>2, <1>7, <2>1, <2>2 DEF TimerJustified, UploadPhase
  <2> QED
    BY <1>5, <2>3, <2>4, <2>5
<1> QED
  BY <1>6, <1>7

\* A lost body leaves the server idle.
LEMMA BodyLostAwaited ==
  ASSUME NEW c \in Conns, Inv, Awaited, BodyLost(c)
  PROVE  Awaited'
<1> SUFFICES ASSUME ~overran'
             PROVE  (ReplyAwaited /\ RebootAlone /\ UploadPhase /\
                     RequestAcked /\ TimerJustified)'
  BY DEF Awaited
<1> USE HttpAssumption
<1>1. ~overran
  BY DEF BodyLost, history
<1>2. ReplyAwaited /\ RebootAlone /\ UploadPhase /\ RequestAcked /\ TimerJustified
  BY <1>1 DEF Awaited
<1>3. /\ post_ok /\ prog_phase = 0 /\ ~reboot_post_pending /\ ~flash_request
      /\ recv_total \in 0 .. MaxLen /\ recv_off \in 0 .. MaxLen
      /\ recv_off < recv_total
  BY DEF BodyLost, Inv, BodyOwnsServer, BodyBehind, TypeOK, ConnType, RecvType
<1>4. \A d \in Conns : st[d] # "reply"
  BY <1>2, <1>3 DEF ReplyAwaited
<1>5. /\ st' = [st EXCEPT ![c] = "closed"]
      /\ UNCHANGED <<pc, flash_request, reboot_post_pending, reboot_request,
                     timers, ownerAcked, rebootAcked>>
      /\ post_ok' = FALSE /\ prog_phase' = -1
  <2>1. ~(recv_off >= recv_total)
    BY <1>3
  <2> QED
    BY <2>1 DEF BodyLost, Close, PostFinished, request, history
<1>6. ReplyAwaited'
  BY <1>4, <1>5 DEF Inv, TypeOK, ConnType, ReplyAwaited
<1>7. (RebootAlone /\ UploadPhase /\ RequestAcked)'
  BY <1>2, <1>3, <1>5 DEF RebootAlone, UploadPhase, RequestAcked
<1>8. TimerJustified'
  BY <1>2, <1>3, <1>5 DEF TimerJustified
<1> QED
  BY <1>6, <1>7, <1>8

\* The main loop, the timer and the console.
LEMMA LoopAwaited ==
  ASSUME Inv, Awaited, TimerFires \/ FlashImage \/ DoReset \/ CtrlC \/ Restart
  PROVE  Awaited'
<1> SUFFICES ASSUME ~overran'
             PROVE  (ReplyAwaited /\ RebootAlone /\ UploadPhase /\
                     RequestAcked /\ TimerJustified)'
  BY DEF Awaited
<1> USE HttpAssumption
<1>1. ~overran /\ timers \in 0 .. MaxTimers
  BY DEF TimerFires, FlashImage, StartFlash, FlashWrite, FlashError, FlashDone,
     DoReset, CtrlC, Restart, history, Inv, TypeOK, PhaseType
<1>2. ReplyAwaited /\ RebootAlone /\ UploadPhase /\ RequestAcked /\ TimerJustified
  BY <1>1 DEF Awaited
<1>3. CASE TimerFires
  <2>1. \A d \in Conns : st[d] # "reply"
    BY <1>2, <1>3 DEF TimerFires, ReplyAwaited, TimerJustified, UploadPhase
  <2> QED
    BY <1>1, <1>2, <1>3, <2>1 DEF TimerFires, ReplyAwaited, RebootAlone,
       UploadPhase, RequestAcked, TimerJustified, conn, recv, history
<1>4. CASE StartFlash
  <2>1. ~reboot_post_pending /\ prog_phase = 0 /\ timers = 0 /\ ~reboot_request
    BY <1>1, <1>2, <1>4 DEF StartFlash, RebootAlone, UploadPhase, RequestAcked,
       TimerJustified
  <2>2. \A d \in Conns : st[d] # "reply"
    BY <1>2, <1>4, <2>1 DEF StartFlash, ReplyAwaited
  <2> QED
    BY <1>2, <1>4, <2>1, <2>2 DEF StartFlash, FlashFailed, ReplyAwaited,
       RebootAlone, UploadPhase, RequestAcked, TimerJustified, conn, history
<1>5. CASE FlashWrite \/ FlashError \/ FlashDone
  <2>1. /\ pc = "flash" /\ prog_phase \in {1, 2} /\ ~post_ok /\ ~flash_request
        /\ ~reboot_post_pending /\ timers = 0 /\ ~reboot_request
    BY <1>1, <1>2, <1>5 DEF Inv, FlashState, FlashWrite, FlashError, FlashDone,
       RebootAlone, TimerJustified
  <2>2. \A d \in Conns : st[d] # "reply"
    BY <1>2, <2>1 DEF ReplyAwaited
  <2>3. /\ st' = st /\ post_ok' = post_ok /\ flash_request' = flash_request
        /\ reboot_post_pending' = reboot_post_pending /\ ownerAcked' = ownerAcked
        /\ ~reboot_request'
        /\ timers' = 0 \/ (timers' = 1 /\ prog_phase' = 3)
    BY <1>5, <2>1 DEF FlashWrite, FlashError, FlashDone, conn, recv, request,
       history
  <2>4. ReplyAwaited'
    BY <2>2, <2>3 DEF ReplyAwaited
  <2> QED
    BY <1>2, <2>1, <2>3, <2>4 DEF RebootAlone, UploadPhase, RequestAcked,
       TimerJustified
<1>6. CASE DoReset
  BY <1>2, <1>6 DEF DoReset, ReplyAwaited, RebootAlone, UploadPhase,
     RequestAcked, TimerJustified, conn, recv, request, history
<1>7. CASE CtrlC
  <2>1. /\ timers' = 0 /\ ~reboot_request' /\ ~reboot_post_pending'
        /\ ~flash_request' /\ pc' = "shell"
        /\ \A d \in Conns : st'[d] # "reply"
        /\ post_ok' = FALSE \/ (post_ok' = post_ok /\ prog_phase' = prog_phase)
    BY <1>1, <1>2, <1>7 DEF CtrlC, TimerJustified
  <2> QED
    BY <1>2, <2>1 DEF ReplyAwaited, RebootAlone, UploadPhase, RequestAcked,
       TimerJustified
<1>8. CASE Restart
  <2>1. timers' = 0 /\ \A d \in Conns : st'[d] # "reply"
    BY <1>1, <1>2, <1>8 DEF Restart, TimerJustified, Inv, ShellState, conn
  <2> QED
    BY <1>8, <2>1 DEF Restart, ReplyAwaited, RebootAlone, UploadPhase,
       RequestAcked, TimerJustified
<1> QED
  BY <1>3, <1>4, <1>5, <1>6, <1>7, <1>8 DEF FlashImage

\* Every step keeps track of whom the server waits for.
LEMMA NextAwaited == Inv /\ Awaited /\ [Next]_vars => Awaited'
<1> SUFFICES ASSUME Inv, Awaited, [Next]_vars PROVE Awaited'
  OBVIOUS
<1>1. ASSUME NEW c \in Conns, Client(c) PROVE Awaited'
  BY <1>1, ConnectionAwaited, BeginAwaited, ReceiveAwaited, ResponseAwaited
     DEF Client
<1>2. ASSUME NEW c \in Conns, ConnLost(c) PROVE Awaited'
  BY <1>2, ConnectionAwaited, ResponseAwaited, BodyLostAwaited DEF ConnLost
<1>3. CASE TimerFires \/ FlashImage \/ DoReset \/ CtrlC \/ Restart
  BY <1>3, LoopAwaited
<1>4. CASE Boot
  BY <1>4 DEF Boot, Awaited, ReplyAwaited, RebootAlone, UploadPhase,
     RequestAcked, TimerJustified
<1>5. CASE UNCHANGED vars
  BY <1>5 DEF vars, conn, recv, request, history, Awaited, ReplyAwaited,
     RebootAlone, UploadPhase, RequestAcked, TimerJustified
<1> QED
  BY <1>1, <1>2, <1>3, <1>4, <1>5 DEF Next

\* Both invariants hold in every reachable state.
THEOREM SpecAwaited == Spec => [](Inv /\ Awaited)
<1>1. Init => Awaited
  BY DEF Init, Awaited, ReplyAwaited, RebootAlone, UploadPhase, RequestAcked,
     TimerJustified
<1> QED
  BY <1>1, InitInv, NextInv, NextAwaited, PTL DEF Spec

\* As long as no client sends more than its Content-Length, a flash follows
\* the acknowledgement of its own upload's response.
THEOREM FlashAfterOwnAckHolds == Spec => []FlashAfterOwnAck
<1>1. Awaited => FlashAfterOwnAck
  BY DEF Awaited, RequestAcked, FlashAfterOwnAck
<1> QED
  BY <1>1, SpecAwaited, PTL

\* A step into the reset is justified, and no body is being received then.
LEMMA ResetStep ==
  ASSUME Inv, Awaited, Next, pc # "reset", pc' = "reset", ~overran
  PROVE  /\ rebootAcked \/ prog_phase = 3
         /\ \A c \in Conns : st[c] # "body"
<1>1. UploadPhase /\ RequestAcked /\ RebootAlone /\ TimerJustified
  BY DEF Awaited
<1>2. reboot_request
  <2>1. ASSUME NEW c \in Conns, Client(c) PROVE FALSE
    BY <2>1 DEF Client, Accept, BeginRejected, BeginInvalid, BeginUpload,
       BeginReboot, Receive, ResponseAcked
  <2>2. ASSUME NEW c \in Conns, ConnLost(c) PROVE FALSE
    BY <2>2 DEF ConnLost, ResponseLost, BodyLost, PlainClosed
  <2> QED
    BY <2>1, <2>2 DEF Next, TimerFires, FlashImage, StartFlash, FlashWrite,
       FlashError, FlashDone, FlashFailed, DoReset, CtrlC, Restart, Boot
<1>3. (reboot_post_pending /\ rebootAcked) \/ prog_phase = 3
  BY <1>1, <1>2 DEF TimerJustified
<1>4. \A c \in Conns : st[c] # "body"
  BY <1>3 DEF Inv, BodyOwnsServer
<1> QED
  BY <1>3, <1>4

\* As long as no client sends more than its Content-Length, the board resets
\* after a completed flash or an acknowledged reboot request only.
THEOREM ResetsJustified == Spec => ResetJustified
<1>1. Inv /\ Awaited /\ [Next]_vars
        => [pc # "reset" /\ pc' = "reset" =>
              rebootAcked \/ prog_phase = 3 \/ overran]_vars
  BY ResetStep
<1> QED
  BY <1>1, SpecAwaited, PTL DEF Spec, ResetJustified

\* ... and, under the same condition, never in the middle of an upload.
THEOREM UploadsNotReset == Spec => NoResetDuringUpload
<1>1. Inv /\ Awaited /\ [Next]_vars
        => [pc # "reset" /\ pc' = "reset" =>
              overran \/ \A c \in Conns : st[c] # "body"]_vars
  BY ResetStep
<1> QED
  BY <1>1, SpecAwaited, PTL DEF Spec, NoResetDuringUpload
=============================================================================
