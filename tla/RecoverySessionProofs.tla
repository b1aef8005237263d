----------------------- MODULE RecoverySessionProofs -----------------------
(***************************************************************************)
(* TLAPS proofs about RecoverySession: any Ethernet devices, addresses and *)
(* subnets, any sequence of sessions, failures and DHCP messages.          *)
(*                                                                         *)
(* Accounted speaks of the shell and of the main loop only.  Ledger adds   *)
(* what is held at each place in between, and which devices can run there: *)
(* at most Port is left by an earlier session, because the other device    *)
(* that eth_init() may settle on is the one that is halted.  LeaseAgreed   *)
(* needs to know what the server has computed from its address and which   *)
(* address the request on the wire names.                                  *)
(***************************************************************************)
EXTENDS RecoverySession, TLAPS

-----------------------------------------------------------------------------
(* The inductive invariant                                                 *)

\* recovery_prepare_static_network() has run.
EnvReady ==
  pc \in {"select", "start", "setup"} => ipaddr # Unset /\ netmask # Unset

\* Nothing of lwIP is there before recovery_net_setup().
NoNet ==
  /\ netif = NoNetif /\ dhcp = NoServer /\ hooks = NoHooks
  /\ listeners = 0 /\ ~httpd_started

\* What an earlier session may have left running.
OnlyPortLeft == running \subseteq {Port} /\ (running = {} \/ strayed)

\* What is held at each place.
Ledger ==
  /\ pc \in {"shell", "select", "start", "setup"} => NoNet
  /\ pc \in {"shell", "select", "start"} => started = 0 /\ OnlyPortLeft
  /\ pc = "shell" => ~leds
  /\ pc \in {"shell", "select"} => ethact = before
  /\ pc \in {"start", "setup", "loop", "flash"} => saved = before
  /\ pc = "start" => current = Port
  /\ pc \in {"setup", "loop", "flash"} =>
       /\ started = 1
       /\ ~strayed => current = Port
       /\ running \subseteq {Port, current}
  /\ pc \in {"loop", "flash"} => AllWired

\* The server serves the address that recovery_dhcp_server_init() computed.
ServerAddresses ==
  dhcp # NoServer =>
    /\ dhcp.server_ip \in Ips /\ dhcp.size \in Sizes
    /\ dhcp.client_ip = ClientIp(dhcp.server_ip, dhcp.size)

\* The address that a request names.
Named(m) == IF m.requested # 0 THEN m.requested ELSE m.ciaddr

\* The request on the wire is about what the host wants.
RequestFits ==
  /\ request.type = "REQUEST" /\ host.asked # 0 => Named(request) = host.asked
  /\ request.type = "INFORM" => host.asked = 0

\* An address that is assigned is a number.
ReplyType == reply.type \in {"OFFER", "ACK"} => reply.yiaddr \in Nat

HostType ==
  host \in [state : {"init", "requesting", "bound"}, addr : Nat, asked : Nat]

\* What the messages on the wire agree with.
WireFits == ReplyType /\ RequestFits /\ LeaseAgreed

Inv ==
  /\ TypeOK /\ EnvReady
  /\ Ledger
  /\ ServerAddresses /\ WireFits

-----------------------------------------------------------------------------
(* Addresses                                                               *)

\* What is left of an address without its host number is a multiple of the
\* subnet's size.
LEMMA NetworkMultiple ==
  ASSUME NEW ip \in Nat, NEW size \in Nat \ {0}
  PROVE  \E q \in Nat : Network(ip, size) = q * size
  <1>1. ip \div size \in Nat /\ ip = size * (ip \div size) + (ip % size)
    BY SMT
  <1>2. ip % size \in 0 .. size - 1
    BY SMT
  <1>3. Network(ip, size) = (ip \div size) * size
    BY <1>1, <1>2, SMT DEF Network
  <1> QED
    BY <1>1, <1>3

\* A host number that is smaller than the subnet stays what it is.
LEMMA HostNumber ==
  ASSUME NEW q \in Nat, NEW size \in Nat \ {0}, NEW h \in 0 .. size - 1
  PROVE  (q * size + h) % size = h
  BY SMT

\* The address that recovery_dhcp_server_init() chooses is an address.
LEMMA ClientType ==
  ASSUME NEW ip \in Ips, NEW size \in Sizes
  PROVE  ClientIp(ip, size) \in Nat
  <1>1. ip \in Nat /\ size \in Nat \ {0}
    BY SessionAssumption DEF Ips, Sizes
  <1>2. PICK q \in Nat : Network(ip, size) = q * size
    BY <1>1, NetworkMultiple
  <1>3. q * size \in Nat
    BY <1>1, SMT
  <1> QED
    BY <1>2, <1>3 DEF ClientIp

\* The address that recovery_dhcp_server_init() chooses is one from which the
\* host reaches the server.
LEMMA ClientReachable ==
  ASSUME NEW ip \in Ips, NEW size \in Sizes
  PROVE  Reachable(ClientIp(ip, size), ip, size)
  <1> SUFFICES ASSUME size > 2, ip % size \notin {0, 2, size - 1}
               PROVE  LET a == ClientIp(ip, size)
                      IN  /\ Network(a, size) = Network(ip, size)
                          /\ a # ip
                          /\ a % size \notin {0, size - 1}
    BY DEF Reachable
  <1>1. ip \in Nat /\ size \in Nat \ {0} /\ size % 4 = 0
    BY SessionAssumption DEF Ips, Sizes
  <1>2. PICK k \in Nat : size = 4 * k
    <2>1. size = 4 * (size \div 4) + (size % 4) /\ size \div 4 \in Nat
      BY <1>1, SMT
    <2> QED
      BY <1>1, <2>1, SMT
  <1>3. PICK q \in Nat : Network(ip, size) = q * size
    BY <1>1, NetworkMultiple
  <1>4. (Network(ip, size) \div 2) % 2 = 0
    <2>1. q * size = 4 * (q * k) /\ q * k \in Nat
      BY <1>2, SMT
    <2> QED
      BY <1>3, <2>1, SMT
  <1>5. ClientIp(ip, size) = q * size + 2
    BY <1>3, <1>4 DEF ClientIp
  <1>6. 2 \in 0 .. size - 1 /\ 2 # size - 1
    BY <1>1, <1>2, SMT
  <1>7. (q * size + 2) % size = 2
    BY <1>1, <1>6, HostNumber
  <1>8. Network(q * size + 2, size) = q * size
    <2>1. q * size \in Nat
      BY <1>1, SMT
    <2> QED
      BY <1>7, <2>1, SMT DEF Network
  <1>9. ip # q * size + 2
    BY <1>7
  <1>10. (q * size + 2) % size \notin {0, size - 1}
    BY <1>1, <1>6, <1>7, SMT
  <1>11. /\ Network(ClientIp(ip, size), size) = Network(ip, size)
         /\ ClientIp(ip, size) # ip
         /\ ClientIp(ip, size) % size \notin {0, size - 1}
    BY <1>3, <1>5, <1>8, <1>9, <1>10, Zenon
  <1> QED
    BY <1>11, Zenon

-----------------------------------------------------------------------------
(* Initial states                                                          *)

\* At the start nothing is held.
LEMMA InitInv == Init => Inv
  <1> SUFFICES ASSUME Init PROVE Inv
    OBVIOUS
  <1>1. TypeOK /\ EnvReady
    BY SessionAssumption DEF Init, TypeOK, EnvReady, NewHost, NoHooks
  <1>2. Ledger
    BY DEF Init, Ledger, NoNet, OnlyPortLeft
  <1>3. ServerAddresses /\ WireFits
    BY DEF Init, ServerAddresses, WireFits, ReplyType, RequestFits, LeaseAgreed,
       NoMsg
  <1> QED
    BY <1>1, <1>2, <1>3 DEF Inv

-----------------------------------------------------------------------------
(* The session.  None of its steps but a restart touches the wire.         *)

\* What a step that leaves the wire and the DHCP server alone preserves.
LEMMA WireKept ==
  ASSUME Inv, UNCHANGED wire, dhcp' \in {dhcp, NoServer}
  PROVE  (ServerAddresses /\ WireFits)'
  BY DEF Inv, wire, ServerAddresses, WireFits, ReplyType, RequestFits,
     LeaseAgreed, Named

\* The shell, and the steps before the Ethernet device is started.
LEMMA SelectInv ==
  Inv /\ (SetEnv \/ Enter \/ SelectFails \/ SelectPort) => Inv'
  <1> SUFFICES ASSUME Inv, SetEnv \/ Enter \/ SelectFails \/ SelectPort
               PROVE  Inv'
    OBVIOUS
  <1> USE DEF SetEnv, Enter, SelectFails, SelectPort, ReleaseLedsAndReturn
  <1>1. (TypeOK /\ EnvReady)'
    BY SessionAssumption DEF Inv, TypeOK, EnvReady, env, eth, net, wire,
       history, IpOrDefault, SizeOrDefault
  <1>2. Ledger'
    BY DEF Inv, Ledger, NoNet, OnlyPortLeft, env, eth, net, wire, history
  <1>3. (ServerAddresses /\ WireFits)'
    BY WireKept DEF net
  <1> QED
    BY <1>1, <1>2, <1>3 DEF Inv

\* The outcomes of net_lwip_eth_start().
LEMMA StartInv ==
  Inv /\ (EthStart \/ EthStartOther \/ EthStartNone \/ EthStartFails) => Inv'
  <1> SUFFICES ASSUME Inv,
                      EthStart \/ EthStartOther \/ EthStartNone \/ EthStartFails
               PROVE  Inv'
    OBVIOUS
  <1> USE DEF EthStart, EthStartOther, EthStartNone, EthStartFails,
              ReleaseLedsAndReturn, RestoreEthact, LwipCleanup
  <1>1. (TypeOK /\ EnvReady)'
    BY SessionAssumption DEF Inv, TypeOK, EnvReady, env, net, wire, history
  <1>2. Ledger'
    BY DEF Inv, Ledger, NoNet, OnlyPortLeft, env, net, wire, history
  <1>3. (ServerAddresses /\ WireFits)'
    BY WireKept DEF net
  <1> QED
    BY <1>1, <1>2, <1>3 DEF Inv

\* The two ways out that stop the Ethernet device.
LEMMA StopInv == Inv /\ (SetupFails \/ CtrlC) => Inv'
  <1> SUFFICES ASSUME Inv, SetupFails \/ CtrlC PROVE Inv'
    OBVIOUS
  <1> USE DEF SetupFails, CtrlC, EthStop, ReleaseLedsAndReturn, RestoreEthact,
              LwipCleanup
  <1>1. (TypeOK /\ EnvReady)'
    <2>1. running' \subseteq Devs /\ started' \in {0, 1}
      BY SessionAssumption DEF Inv, TypeOK
    <2>2. {ethact', saved', current', before'} \subseteq Devs \cup {NoDev}
      BY DEF Inv, TypeOK
    <2>3. netif' \in [ip : Ips, size : Sizes] \cup {NoNetif} /\ dhcp' = NoServer
      BY DEF Inv, TypeOK, Ledger, NoNet
    <2> QED
      BY <2>1, <2>2, <2>3 DEF Inv, TypeOK, EnvReady, wire, NoHooks
  <1>2. Ledger'
    BY SessionAssumption DEF Inv, Ledger, NoNet, OnlyPortLeft, AllWired, TypeOK,
       wire
  <1>3. (ServerAddresses /\ WireFits)'
    BY WireKept
  <1> QED
    BY <1>1, <1>2, <1>3 DEF Inv

\* recovery_net_setup() succeeds.
LEMMA SetupInv == Inv /\ Setup => Inv'
  <1> SUFFICES ASSUME Inv, Setup PROVE Inv'
    OBVIOUS
  <1> USE DEF Setup
  <1>1. NetifAddress \in [ip : Ips, size : Sizes]
    BY SessionAssumption DEF Inv, TypeOK, EnvReady, NetifAddress, Ips, Sizes
  <1>2. dhcp' = NoServer \/
          /\ dhcp'.server_ip = netif'.ip /\ dhcp'.size = netif'.size
          /\ dhcp'.client_ip = ClientIp(netif'.ip, netif'.size)
    BY DEF DhcpServer
  <1>3. hooks' \subseteq {"dhcp", "poll", "route"}
    BY DEF HooksFor
  <1>4. (TypeOK /\ EnvReady)'
    <2>1. listeners' = 1 /\ httpd_started' = TRUE
      BY DEF Inv, Ledger, NoNet
    <2>2. running' \subseteq Devs
      BY SessionAssumption DEF Inv, TypeOK
    <2> QED
      BY <1>1, <1>2, <1>3, <2>1, <2>2 DEF Inv, TypeOK, EnvReady, env, wire,
         history
  <1>5. Ledger'
    <2>1. netif' # NoNetif
      BY <1>1, SessionAssumption DEF NoNetif, Ips
    <2>2. AllWired'
      BY <2>1 DEF Inv, Ledger, NoNet, AllWired, HooksFor, history
    <2> QED
      BY <2>2 DEF Inv, Ledger, env, wire, history
  <1>6. ServerAddresses'
    BY <1>1, <1>2 DEF ServerAddresses
  <1>7. WireFits'
    BY DEF Inv, wire, WireFits, ReplyType, RequestFits, LeaseAgreed, Named
  <1> QED
    BY <1>4, <1>5, <1>6, <1>7 DEF Inv

\* Flashing, and a restart of the board.
LEMMA FlashInv == Inv /\ (FlashBegins \/ FlashEnds \/ Reset) => Inv'
  <1> SUFFICES ASSUME Inv, FlashBegins \/ FlashEnds \/ Reset PROVE Inv'
    OBVIOUS
  <1> USE DEF FlashBegins, FlashEnds, Reset
  <1>1. (TypeOK /\ EnvReady)'
    BY SessionAssumption DEF Inv, TypeOK, EnvReady, env, eth, net, wire,
       history, NoHooks
  <1>2. Ledger'
    BY DEF Inv, Ledger, NoNet, OnlyPortLeft, AllWired, env, eth, net, history
  <1>3. (ServerAddresses /\ WireFits)'
    BY WireKept DEF net
  <1> QED
    BY <1>1, <1>2, <1>3 DEF Inv

-----------------------------------------------------------------------------
(* DHCP.  None of its steps touches the session.                           *)

\* What a step of the host, the wire or the server preserves.
LEMMA SessionKept ==
  ASSUME Inv, UNCHANGED Board, HostType'
  PROVE  (TypeOK /\ EnvReady /\ Ledger /\ ServerAddresses)'
  BY DEF Inv, Board, env, eth, net, history, TypeOK, HostType, EnvReady, Ledger,
     NoNet, OnlyPortLeft, AllWired, ServerAddresses

\* recovery_dhcp_recv(), called by the hook or through the pcb.
LEMMA DhcpRecvInv ==
  ASSUME Inv, NEW type \in {"DISCOVER", "REQUEST", "INFORM"},
         DhcpRecv(type) \/ PcbRecv(type)
  PROVE  Inv'
  <1>1. dhcp # NoServer
    BY DEF DhcpRecv, PcbRecv, RxServer
  <1>0. Answer(type)
    BY DEF DhcpRecv, PcbRecv
  <1> USE <1>0 DEF Answer
  <1>2. Reachable(dhcp.client_ip, dhcp.server_ip, dhcp.size)
    BY <1>1, ClientReachable DEF Inv, ServerAddresses
  <1>3. (TypeOK /\ EnvReady /\ Ledger /\ ServerAddresses)'
    BY SessionKept DEF Board, Inv, TypeOK, HostType
  <1>4. RequestFits'
    BY DEF Inv, WireFits, RequestFits, Named, NoMsg
  <1>5. ReplyType'
    <2>1. dhcp.client_ip \in Nat
      BY <1>1, ClientType DEF Inv, ServerAddresses
    <2> QED
      BY <2>1 DEF SendReply, Inv, WireFits, ReplyType
  <1>6. LeaseAgreed'
    <2>1. CASE type = "DISCOVER"
      BY <2>1, <1>2 DEF SendReply, LeaseAgreed
    <2>2. CASE type = "INFORM"
      BY <2>2 DEF SendReply, LeaseAgreed, Inv, WireFits, RequestFits
    <2>3. CASE type = "REQUEST" /\ ClassifyRequest(request) = "ACK"
      <3>1. host.asked # 0 => dhcp.client_ip = host.asked
        BY <2>3 DEF Inv, WireFits, RequestFits, ClassifyRequest, Named
      <3>2. SendReply("ACK", TRUE)
        BY <2>3
      <3> QED
        BY <3>1, <3>2, <1>2 DEF SendReply, LeaseAgreed
    <2>4. CASE type = "REQUEST" /\ ClassifyRequest(request) # "ACK"
      <3>1. SendReply("NAK", FALSE) \/ UNCHANGED reply
        BY <2>4
      <3> QED
        BY <3>1 DEF SendReply, LeaseAgreed, Inv, WireFits
    <2> QED
      BY <2>1, <2>2, <2>3, <2>4
  <1> QED
    BY <1>3, <1>4, <1>5, <1>6 DEF Inv, WireFits

\* The wire and the host.
LEMMA HostInv ==
  ASSUME Inv,
         \/ RequestLost \/ ReplyLost \/ Discover \/ Replug \/ Renew \/ Inform
         \/ GetOffer \/ GetAck \/ GetNak \/ GiveUp
  PROVE  Inv'
  <1> USE DEF RequestLost, ReplyLost, Discover, Replug, Renew, Inform, GetOffer,
              GetAck, GetNak, GiveUp, Send, Message, NewHost
  <1>1. UNCHANGED Board
    BY DEF Board
  <1>2. HostType'
    <2>1. HostType
      BY DEF Inv, TypeOK, HostType
    <2>2. GetOffer \/ GetAck => reply.yiaddr \in Nat
      BY DEF Inv, WireFits, ReplyType
    <2>3. UNCHANGED host \/ host' = NewHost
          \/ \E st \in {"init", "requesting", "bound"}, a \in Nat, w \in Nat :
               host' = [state |-> st, addr |-> a, asked |-> w]
      <3>1. host = [state |-> host.state, addr |-> host.addr,
                    asked |-> host.asked]
            /\ host.addr \in Nat /\ host.asked \in Nat
        BY <2>1 DEF HostType
      <3>2. CASE Discover \/ Replug \/ Renew \/ Inform \/ GetOffer
        BY <3>1, <3>2, <2>2
      <3>3. CASE GetAck
        BY <3>1, <3>3, <2>2
      <3> QED
        BY <3>2, <3>3
    <2> QED
      BY <2>1, <2>3 DEF HostType
  <1>3. (TypeOK /\ EnvReady /\ Ledger /\ ServerAddresses)'
    BY <1>1, <1>2, SessionKept
  <1>4. RequestFits'
    <2>1. host \in [state : {"init", "requesting", "bound"}, addr : Nat,
                    asked : Nat]
      BY DEF Inv, TypeOK
    <2>2. CASE Discover \/ Replug \/ Renew \/ Inform
      <3>1. CASE Discover \/ Inform
        BY <2>1, <3>1 DEF RequestFits
      <3>2. CASE Replug
        BY <2>1, <3>2 DEF RequestFits, Named
      <3>3. CASE Renew
        BY <2>1, <3>3 DEF RequestFits, Named
      <3> QED
        BY <2>2, <3>1, <3>2, <3>3
    <2>3. CASE GetOffer
      BY <2>1, <2>3 DEF RequestFits, Named
    <2>4. CASE GetAck
      <3>1. host'.asked = host.asked /\ request' = request
        BY <2>1, <2>4
      <3> QED
        BY <3>1 DEF Inv, WireFits, RequestFits, Named
    <2>5. CASE RequestLost \/ ReplyLost \/ GetNak \/ GiveUp
      BY <2>5 DEF Inv, WireFits, RequestFits, Named, NoMsg
    <2> QED
      BY <2>2, <2>3, <2>4, <2>5
  <1>5. (ReplyType /\ LeaseAgreed)'
    BY DEF Inv, WireFits, ReplyType, LeaseAgreed, NoMsg
  <1> QED
    BY <1>3, <1>4, <1>5 DEF Inv, WireFits

-----------------------------------------------------------------------------

\* Every step preserves the invariant.
LEMMA NextInv == Inv /\ [Next]_vars => Inv'
  <1>1. ASSUME Inv, UNCHANGED vars PROVE Inv'
    <2>1. UNCHANGED Board /\ UNCHANGED wire
      BY <1>1 DEF vars, Board, env, eth, net, wire, history
    <2>2. HostType'
      BY <1>1, <2>1 DEF wire, Inv, TypeOK, HostType
    <2> QED
      BY <1>1, <2>1, <2>2, SessionKept, WireKept DEF Board, net, Inv
  <1> QED
    BY <1>1, SelectInv, StartInv, StopInv, SetupInv, FlashInv, DhcpRecvInv,
       HostInv DEF Next, Session, Dhcp

\* So the invariant holds throughout.
LEMMA SpecInv == Spec => []Inv
  BY InitInv, NextInv, PTL DEF Spec

\* Types, at most one user of the Ethernet device and at most one listener, and
\* a netif never without an address, for any number of sessions.
THEOREM TypeCorrect == Spec => []TypeOK
  <1>1. Inv => TypeOK
    BY DEF Inv
  <1> QED
    BY <1>1, SpecInv, PTL

\* Whichever way a session ends, nothing of it is left at the shell, and a
\* session that reached its loop has everything once.
THEOREM SessionAccounted == Spec => []Accounted
  <1>1. Inv => Accounted
    BY DEF Inv, Ledger, NoNet, OnlyPortLeft, Accounted, NothingHeld
  <1> QED
    BY <1>1, SpecInv, PTL

\* The DHCP server never moves a host, and offers an address from which it can
\* be reached, for any address and any subnet of more than two.
THEOREM LeasesAgreed == Spec => []LeaseAgreed
  <1>1. Inv => LeaseAgreed
    BY DEF Inv, WireFits
  <1> QED
    BY <1>1, SpecInv, PTL
=============================================================================
