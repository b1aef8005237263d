-------------------------- MODULE RecoverySession --------------------------
(***************************************************************************)
(* One recovery session after another: what run_http_recovery() acquires   *)
(* before its main loop (LEDs, ethact, the Ethernet device, a lwIP netif,  *)
(* a DHCP server, hooks in net-lwip.c, a TCP listener), what it gives back *)
(* on each of its four ways out, and the DHCP server that the session      *)
(* offers to the host plugged into the recovery port.                      *)
(*                                                                         *)
(* Abstractions: an address is a small number and a netmask the size of    *)
(* its subnet, a power of two; 0 is "not an address", for both.  One host; *)
(* the server keeps no state about any.  The wire holds at most one        *)
(* message each way, loses and repeats them.  A reply of an earlier        *)
(* transaction (another xid) is discarded by the host and not kept.        *)
(*                                                                         *)
(* Definitions whose comment starts with "Mutant" are plausible slips; see *)
(* PROJECT.json.                                                           *)
(***************************************************************************)
EXTENDS Integers, FiniteSets

CONSTANTS
  Devs,        \* Ethernet devices
  Port,        \* eth0/gdm1, the 1G switch port: the one recovery serves
  NoDev,       \* none: the environment variable is not set
  StaticIp, StaticSize,   \* RECOVERY_STATIC_IPADDR, RECOVERY_STATIC_NETMASK
  UserIps, UserSizes,     \* what ipaddr and netmask may hold; 0: no address
  UserDevs,    \* what ethact may hold
  Unset        \* the variable is not set

ASSUME SessionAssumption ==
  /\ Port \in Devs /\ NoDev \notin Devs /\ UserDevs \subseteq Devs
  /\ UserIps \subseteq Nat /\ UserSizes \subseteq Nat
  /\ StaticIp \in Nat \ {0} /\ StaticSize \in Nat \ {0}
  \* what the properties use of powers of two
  /\ \A s \in UserSizes \cup {StaticSize} : s \in {0, 1, 2} \/ s % 4 = 0
  /\ Unset \notin Nat

VARIABLES
  pc,          \* "shell", "select", "start", "setup", "loop", "flash"
  ipaddr, netmask, ethact,   \* environment variables
  saved,       \* struct recovery_ethact_save
  current,     \* the uclass's current device: eth_get_dev()
  running,     \* devices whose priv->running is set
  started,     \* net_lwip_eth_started
  netif,       \* recovery_nets[0].netif: its address, or NoNetif
  dhcp,        \* recovery_nets[0].dhcp, or NoServer while there is no pcb
  hooks,       \* the hooks set in net-lwip.c
  listeners,   \* TCP listeners on port 80
  httpd_started,
  leds,        \* the status LED GPIOs are claimed
  host,        \* the host's DHCP client
  request, reply,   \* on the wire
  \* History, not in the code: ethact when the session began, or what a
  \* failing env_set() left in it; the last eth_init() settled on another
  \* device.
  before, strayed

env == <<ipaddr, netmask, ethact>>
eth == <<current, running, started>>
net == <<netif, dhcp, hooks, listeners, httpd_started>>
wire == <<host, request, reply>>
history == <<before, strayed>>
vars == <<pc, env, saved, eth, net, leds, wire, history>>

NoNetif == [ip |-> 0, size |-> 0]
NoServer == [server_ip |-> 0, client_ip |-> 0, size |-> 0]
NoMsg == [type |-> "none"]
NoHooks == {}

-----------------------------------------------------------------------------
(* Addresses                                                               *)

Network(ip, size) == ip - (ip % size)

\* recovery_dhcp_server_init(): network_addr | RECOVERY_DHCP_CLIENT_HOST (2).
\* The bit is already set in the network of a subnet of one or two addresses
\* whose number has it.
ClientIp(ip, size) ==
  LET network == Network(ip, size)
  IN IF (network \div 2) % 2 = 1 THEN network ELSE network + 2

\* recovery_prepare_static_network(): keep what is set.
IpOrDefault == IF ipaddr = Unset THEN StaticIp ELSE ipaddr
SizeOrDefault == IF netmask = Unset THEN StaticSize ELSE netmask

\* Mutant: only the netmask is looked at.
NetifAddressUnchecked ==
  IF netmask = 0
    THEN [ip |-> StaticIp, size |-> StaticSize]
    ELSE [ip |-> ipaddr, size |-> netmask]

\* get_udev_ipv4_info() and recovery_net_setup(): an address or netmask that
\* does not parse, or is 0.0.0.0, replaces both by the built-in ones.
NetifAddress ==
  IF ipaddr = 0 \/ netmask = 0
    THEN [ip |-> StaticIp, size |-> StaticSize]
    ELSE [ip |-> ipaddr, size |-> netmask]

-----------------------------------------------------------------------------
(* The shell                                                               *)

NewHost == [state |-> "init", addr |-> 0, asked |-> 0]

Init ==
  /\ pc = "shell"
  /\ ipaddr \in UserIps \cup {Unset} /\ netmask \in UserSizes \cup {Unset}
  /\ ethact \in UserDevs \cup {NoDev}
  /\ saved = NoDev
  /\ current = NoDev /\ running = {} /\ started = 0
  /\ netif = NoNetif /\ dhcp = NoServer /\ hooks = NoHooks
  /\ listeners = 0 /\ httpd_started = FALSE /\ leds = FALSE
  /\ host = NewHost /\ request = NoMsg /\ reply = NoMsg
  /\ before = ethact /\ strayed = FALSE

\* The user, a script or the dhcp command changes the environment.
SetEnv ==
  /\ pc = "shell"
  /\ \/ /\ ipaddr' \in UserIps /\ netmask' \in UserSizes
        /\ UNCHANGED <<ethact, before>>
     \/ /\ ethact' \in UserDevs /\ before' = ethact'
        /\ UNCHANGED <<ipaddr, netmask>>
  /\ UNCHANGED <<pc, saved, eth, net, leds, wire, strayed>>

\* do_http_recovery() or the board's recovery entry calls
\* run_http_recovery(): LEDs, and recovery_prepare_static_network().
Enter ==
  /\ pc = "shell"
  /\ pc' = "select"
  /\ leds' \in BOOLEAN
  /\ ipaddr' = IpOrDefault /\ netmask' = SizeOrDefault
  /\ before' = ethact
  /\ UNCHANGED <<ethact, saved, eth, net, wire, strayed>>

\* recovery_status_led_stop() ... recovery_led_ctrl_free(); return.
ReleaseLedsAndReturn == leds' = FALSE /\ pc' = "shell" /\ saved' = NoDev

\* recovery_restore_ethact(): a failing env_set() is only reported.
RestoreEthact ==
  \/ ethact' = saved /\ UNCHANGED before
  \/ before' = ethact /\ UNCHANGED ethact

\* recovery_select_1g_eth() fails: no such device, or env_set() failed.
SelectFails ==
  /\ pc = "select"
  /\ ReleaseLedsAndReturn
  /\ UNCHANGED <<env, eth, net, wire, history>>

SelectPort ==
  /\ pc = "select"
  /\ pc' = "start"
  /\ saved' = ethact
  /\ ethact' = Port /\ current' = Port
  /\ UNCHANGED <<ipaddr, netmask, running, started, net, leds, wire, history>>

-----------------------------------------------------------------------------
(* Ethernet and the netif                                                  *)

\* recovery_lwip_cleanup(): every TCP pcb is closed or aborted.
LwipCleanup == listeners' = 0 /\ httpd_started' = FALSE

\* net_lwip_eth_stop(), given the devices that run by then: the last user
\* halts the current device, eth_halt().
EthStop(up) ==
  /\ started' = IF started > 0 THEN started - 1 ELSE 0
  /\ running' = IF started = 1 THEN up \ {current} ELSE up

\* net_lwip_eth_start(): eth_halt() stops Port, the current device, in case it
\* runs, and eth_init() starts it.  That nobody else has the device started is
\* part of Accounted.
EthStart ==
  /\ pc = "start" /\ started = 0
  /\ pc' = "setup"
  /\ started' = 1
  /\ running' = running \cup {Port}
  /\ strayed' = FALSE
  /\ UNCHANGED <<env, saved, current, net, leds, wire, before>>

\* Port does not start and eth_try_another() settles on another device.
EthStartOther ==
  /\ pc = "start" /\ started = 0
  /\ pc' = "setup"
  /\ started' = 1
  /\ \E d \in Devs \ {Port} :
          /\ current' = d /\ ethact' = d
          /\ running' = (running \ {Port}) \cup {d}
  /\ strayed' = TRUE
  /\ UNCHANGED <<ipaddr, netmask, saved, net, leds, wire, before>>

\* No device starts, yet eth_init() returns a stale eth_errno that is 0.
EthStartNone ==
  /\ pc = "start" /\ started = 0
  /\ pc' = "setup"
  /\ started' = 1
  /\ running' = running \ {Port}
  /\ strayed' = FALSE
  /\ UNCHANGED <<env, saved, current, net, leds, wire, before>>

\* eth_init() fails: the count is taken back and the session is over.
EthStartFails ==
  /\ pc = "start" /\ started = 0
  /\ ReleaseLedsAndReturn
  /\ RestoreEthact
  /\ LwipCleanup
  /\ running' = running \ {Port} /\ strayed' = FALSE
  /\ UNCHANGED <<ipaddr, netmask, current, started, netif, dhcp, hooks, wire>>

\* Mutant: the failure path leaves the Ethernet device started.
SetupFailsStarted ==
  /\ pc = "setup"
  /\ running' \in {running, running \cup {Port}}
  /\ LwipCleanup
  /\ RestoreEthact
  /\ ReleaseLedsAndReturn
  /\ UNCHANGED <<ipaddr, netmask, current, started, netif, dhcp, hooks, wire,
                 strayed>>

\* recovery_net_setup() makes no netif: Port does not start, or it does and
\* there is no memory.  What runs is then halted by net_lwip_eth_stop().
SetupFails ==
  /\ pc = "setup"
  /\ \E up \in {running, running \cup {Port}} : EthStop(up)
  /\ LwipCleanup
  /\ RestoreEthact
  /\ ReleaseLedsAndReturn
  /\ UNCHANGED <<ipaddr, netmask, current, netif, dhcp, hooks, wire, strayed>>

\* recovery_dhcp_server_init(): no pcb, or one bound to the netif.
DhcpServer(a) ==
  {NoServer,
   [server_ip |-> a.ip, client_ip |-> ClientIp(a.ip, a.size), size |-> a.size]}

\* The hooks set before the main loop.
HooksFor(server) ==
  (IF server # NoServer THEN {"dhcp"} ELSE {})
    \cup (IF leds THEN {"poll"} ELSE {}) \cup {"route"}

\* recovery_net_setup() succeeds; hooks are set, httpd_init() is called unless
\* the server is already there.
Setup ==
  /\ pc = "setup"
  /\ pc' = "loop"
  /\ running' = running \cup {Port}
  /\ netif' = NetifAddress
  /\ dhcp' \in DhcpServer(NetifAddress)
  /\ hooks' = HooksFor(dhcp')
  /\ listeners' = IF httpd_started THEN listeners ELSE listeners + 1
  /\ httpd_started' = TRUE
  /\ UNCHANGED <<env, saved, current, started, leds, wire, history>>

-----------------------------------------------------------------------------
(* The main loop, and the ways out of it                                   *)

\* flash_image(), whose polls run net_lwip_rx() without recovery_rx_srv.
FlashBegins ==
  /\ pc = "loop" /\ pc' = "flash"
  /\ UNCHANGED <<env, saved, eth, net, leds, wire, history>>

FlashEnds ==
  /\ pc = "flash" /\ pc' = "loop"
  /\ UNCHANGED <<env, saved, eth, net, leds, wire, history>>

\* Ctrl-C: hooks off, recovery_net_teardown(), recovery_lwip_cleanup(),
\* net_lwip_eth_stop(), recovery_restore_ethact(), LEDs.
CtrlC ==
  /\ pc = "loop"
  /\ hooks' = NoHooks
  /\ dhcp' = NoServer /\ netif' = NoNetif
  /\ LwipCleanup
  /\ EthStop(running)
  /\ RestoreEthact
  /\ ReleaseLedsAndReturn
  /\ UNCHANGED <<ipaddr, netmask, current, wire, strayed>>

\* do_reset(), or power is cut.  The environment comes back from the flash.
Reset ==
  /\ pc \in {"loop", "flash"}
  /\ pc' = "shell"
  /\ ipaddr' \in UserIps \cup {Unset} /\ netmask' \in UserSizes \cup {Unset}
  /\ ethact' \in UserDevs \cup {NoDev}
  /\ saved' = NoDev
  /\ current' = NoDev /\ running' = {} /\ started' = 0
  /\ netif' = NoNetif /\ dhcp' = NoServer /\ hooks' = NoHooks
  /\ listeners' = 0 /\ httpd_started' = FALSE /\ leds' = FALSE
  /\ before' = ethact' /\ strayed' = FALSE
  /\ UNCHANGED wire

-----------------------------------------------------------------------------
(* DHCP: the server                                                        *)

\* Mutant: recovery_rx_srv is cleared before net_lwip_rx() instead of after.
RxServerCleared == NoServer

\* recovery_rx_srv as the dispatch hook finds it, when it is called at all.
RxServer == IF pc = "loop" /\ "dhcp" \in hooks THEN dhcp ELSE NoServer

\* Mutant: only the first of the two addresses a request may name is checked.
ClassifyRequestOnly(m) ==
  IF m.server_id \notin {0, dhcp.server_ip} THEN "IGNORE"
  ELSE IF m.requested \in {0, dhcp.client_ip} THEN "ACK" ELSE "NAK"

\* recovery_dhcp_classify_request()
ClassifyRequest(m) ==
  LET asked == IF m.requested # 0 THEN m.requested ELSE m.ciaddr
  IN IF m.server_id \notin {0, dhcp.server_ip} THEN "IGNORE"
     ELSE IF asked \in {0, dhcp.client_ip} THEN "ACK" ELSE "NAK"

\* recovery_dhcp_send_reply(): yiaddr only if an address is assigned.
SendReply(type, assign) ==
  reply' = [type |-> type, server_id |-> dhcp.server_ip, size |-> dhcp.size,
            yiaddr |-> IF assign THEN dhcp.client_ip ELSE 0]

\* recovery_dhcp_recv() on a well-formed message of the given type, from where
\* srv is known.  A repeated message is one that stays on the wire.
Answer(type) ==
  /\ request.type = type
  /\ CASE type = "DISCOVER" -> SendReply("OFFER", TRUE)
       [] type = "INFORM" -> SendReply("ACK", FALSE)
       [] OTHER ->
            CASE ClassifyRequest(request) = "ACK" -> SendReply("ACK", TRUE)
              [] ClassifyRequest(request) = "NAK" -> SendReply("NAK", FALSE)
              [] OTHER -> UNCHANGED reply
  /\ request' \in {request, NoMsg}
  /\ UNCHANGED <<pc, env, saved, eth, net, leds, host, history>>

\* The dispatch hook hands the frame over: it is answered in the main loop.
DhcpRecv(type) == RxServer # NoServer /\ Answer(type)

\* The dispatch hook turns the frame away (a fragment, a VLAN tag with an id,
\* no memory for the pbuf) and it reaches the callback of the pcb through lwIP,
\* with the server as its argument: also from inside flash_image(), whose
\* polls go to the current device.  (In the main loop it comes to the same as
\* DhcpRecv.)
PcbRecv(type) ==
  /\ pc = "flash" /\ current = Port
  /\ dhcp # NoServer
  /\ Answer(type)

\* The hook takes the frame and finds no server (the session is flashing), or
\* the message is malformed or lost on the way, in either direction.
RequestLost ==
  /\ request # NoMsg /\ request' = NoMsg
  /\ UNCHANGED <<pc, env, saved, eth, net, leds, host, reply, history>>

ReplyLost ==
  /\ reply # NoMsg /\ reply' = NoMsg
  /\ UNCHANGED <<pc, env, saved, eth, net, leds, host, request, history>>

-----------------------------------------------------------------------------
(* DHCP: the host on the recovery port                                     *)

Board == <<pc, env, saved, eth, net, leds, history>>

Message(type, server_id, requested, ciaddr) ==
  [type |-> type, server_id |-> server_id, requested |-> requested,
   ciaddr |-> ciaddr]

\* A new transaction: the host now wants address a.
Send(m, state, a) ==
  /\ request' = m /\ reply' = NoMsg
  /\ host' = [host EXCEPT !.state = state, !.asked = a]
  /\ UNCHANGED Board

Discover ==
  host.state = "init" /\ Send(Message("DISCOVER", 0, 0, 0), "init", 0)

\* Back on a link, the host asks for the address it had: INIT-REBOOT.
Replug ==
  /\ host.state = "bound"
  /\ Send(Message("REQUEST", 0, host.addr, 0), "requesting", host.addr)

\* RENEWING or REBINDING: the address is in ciaddr.
Renew ==
  /\ host.state = "bound"
  /\ Send(Message("REQUEST", 0, 0, host.addr), "bound", host.addr)

Inform ==
  /\ host.state = "bound"
  /\ Send(Message("INFORM", 0, 0, host.addr), "bound", 0)

\* The host accepts an offer: the same transaction goes on.
GetOffer ==
  /\ reply.type = "OFFER" /\ host.state = "init"
  /\ Send(Message("REQUEST", reply.server_id, reply.yiaddr, 0), "requesting",
          reply.yiaddr)

GetAck ==
  /\ reply.type = "ACK" /\ host.asked # 0
  /\ host' = [host EXCEPT !.state = "bound", !.addr = reply.yiaddr]
  /\ reply' = NoMsg
  /\ UNCHANGED <<Board, request>>

GetNak ==
  /\ reply.type = "NAK" /\ host.asked # 0
  /\ host' = NewHost
  /\ reply' = NoMsg
  /\ UNCHANGED <<Board, request>>

\* No answer to a request, and none under way (the host waits longer than a
\* round trip takes): it starts over.
GiveUp ==
  /\ host.state = "requesting" /\ request = NoMsg /\ reply = NoMsg
  /\ host' = NewHost
  /\ UNCHANGED <<Board, request, reply>>

-----------------------------------------------------------------------------

Session ==
  \/ Enter \/ SelectFails \/ SelectPort
  \/ EthStart \/ EthStartOther \/ EthStartNone \/ EthStartFails
  \/ SetupFails \/ Setup
  \/ FlashBegins \/ FlashEnds \/ CtrlC

Dhcp ==
  \/ \E type \in {"DISCOVER", "REQUEST", "INFORM"} : DhcpRecv(type) \/ PcbRecv(type)
  \/ RequestLost \/ ReplyLost
  \/ Discover \/ Replug \/ Renew \/ Inform
  \/ GetOffer \/ GetAck \/ GetNak \/ GiveUp

Next == SetEnv \/ Session \/ Reset \/ Dhcp

Spec == Init /\ [][Next]_vars

\* flash_image() ends and the loop goes on polling.  The host keeps trying, as
\* DHCP clients do, at times of its own that do not all fall within a flash,
\* and a message sent again and again is received in the end, by either side,
\* by the board in its loop: no frame has to be turned away by the hook.
\* Nobody is assumed to enter or leave a session.
Fairness ==
  /\ WF_vars(FlashEnds)
  /\ SF_vars((Discover \/ Renew) /\ pc = "loop") /\ SF_vars(GiveUp /\ pc = "loop")
  /\ SF_vars(GetOffer /\ pc = "loop")
  /\ SF_vars(DhcpRecv("DISCOVER")) /\ SF_vars(DhcpRecv("REQUEST"))
  /\ SF_vars(GetAck \/ GetNak)

FairSpec == Spec /\ Fairness

-----------------------------------------------------------------------------

Ips == (UserIps \cup {StaticIp}) \ {0}
Sizes == (UserSizes \cup {StaticSize}) \ {0}

\* The type invariant: at most one user of the Ethernet device and at most one
\* listener, and a netif never without an address.
TypeOK ==
  /\ pc \in {"shell", "select", "start", "setup", "loop", "flash"}
  /\ ipaddr \in UserIps \cup {Unset, StaticIp}
  /\ netmask \in UserSizes \cup {Unset, StaticSize}
  /\ {ethact, saved, current, before} \subseteq Devs \cup {NoDev}
  /\ running \subseteq Devs /\ started \in {0, 1}
  /\ netif \in [ip : Ips, size : Sizes] \cup {NoNetif}
  /\ dhcp = NoServer \/ (dhcp.server_ip = netif.ip /\ dhcp.size = netif.size)
  /\ hooks \subseteq {"dhcp", "poll", "route"}
  /\ listeners \in {0, 1} /\ httpd_started \in BOOLEAN /\ leds \in BOOLEAN
  /\ host \in [state : {"init", "requesting", "bound"}, addr : Nat, asked : Nat]
  /\ strayed \in BOOLEAN

NothingHeld ==
  /\ started = 0 /\ netif = NoNetif /\ dhcp = NoServer /\ hooks = NoHooks
  /\ listeners = 0 /\ ~httpd_started /\ ~leds
  /\ running = {} \/ strayed
  /\ ethact = before

AllWired ==
  /\ started = 1 /\ Port \in running
  /\ netif # NoNetif /\ listeners = 1 /\ httpd_started
  /\ "route" \in hooks
  /\ "dhcp" \in hooks <=> dhcp # NoServer
  /\ "poll" \in hooks <=> leds
  /\ current = Port \/ strayed

\* Whichever way a session ended, and however many there were, nothing of it
\* is left at the shell: no hook into a netif, a DHCP server or a stack frame
\* that is gone, no count, listener or GPIO that the next session would trip
\* over, and ethact as the user had it.  And a session that reached its loop
\* has everything once: the port runs, the hooks match what they call into,
\* and the polls from inside flash_image() go to the port being served.  Two
\* exceptions are the code's: eth_init() settling on another device, which
\* alone is then polled while flashing and halted at the end, and an env_set()
\* that fails to put ethact back.
Accounted ==
  /\ pc = "shell" => NothingHeld
  /\ pc \in {"loop", "flash"} => AllWired

\* The address offered is one the host can reach the server from, provided
\* the subnet has more than two addresses and the server is not its .2.
Reachable(a, server, size) ==
  size > 2 /\ server % size \notin {0, 2, size - 1} =>
    /\ Network(a, size) = Network(server, size)
    /\ a # server
    /\ a % size \notin {0, size - 1}

\* The server never moves a host: an ACK to a host that named an address (an
\* accepted offer, a renewal, a lease remembered from another network or from
\* an earlier session) is for that address, which is within reach of the
\* server that answered.
LeaseAgreed ==
  /\ reply.type = "ACK" /\ host.asked # 0 => reply.yiaddr = host.asked
  /\ reply.type \in {"OFFER", "ACK"} /\ reply.yiaddr # 0 =>
       Reachable(reply.yiaddr, reply.server_id, reply.size)

\* A host that keeps trying ends up with the address of the session at hand,
\* whatever it held before and although DHCP is next to deaf while flashing.
HostServed ==
  pc \in {"loop", "flash"} /\ dhcp # NoServer ~>
    \/ host.state = "bound" /\ host.addr = dhcp.client_ip
    \/ pc \notin {"loop", "flash"}
=============================================================================
