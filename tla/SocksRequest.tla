----------------------------- MODULE SocksRequest -----------------------------
(***************************************************************************)
(* The SOCKS client from target check to relay: Client.Process            *)
(* (client.go lines 165-328) and Client.ProcessConn (lines 63-162).  It    *)
(* covers building the request header over every configured version,      *)
(* destination network and address family, the UDP-over-TCP flag and the  *)
(* resolver's answer; the handshake; and the choice of relay.  The dial    *)
(* loop is the DialRetry module; the relays are not part of this module.   *)
(*                                                                         *)
(* Addresses are abstracted to their family, and to where they come from:  *)
(* "dest" (the target), "resolved" (SOCKS4's DNS answer), "magic"          *)
(* (udpovertcp.UOTMagicAddress).                                           *)
(***************************************************************************)
EXTENDS Naturals

Versions == {"SOCKS4", "SOCKS4A", "SOCKS5"}
Families == {"ipv4", "ipv6", "domain"}

\* What the resolver returns for a domain.  A resolver that implements
\* dns.IPv4Lookup answers only IPv4 addresses (lines 209-212).
DnsAnswers(hasIPv4Lookup) ==
    IF hasIPv4Lookup THEN {"err", "empty", "ipv4"}
                     ELSE {"err", "empty", "ipv4", "ipv6"}

\* What ClientHandshake returns as udpRequest: the relay address of a UDP
\* ASSOCIATE, which a server may give as 0.0.0.0/::, or nil for CONNECT.
UdpReplies(command) ==
    IF command = "udp" THEN {"any", "concrete"} ELSE {"nil"}

VARIABLES
    entry,          \* "Process" or "ProcessConn"
    version,        \* c.version
    uot,            \* c.uot
    hasIPv4Lookup,  \* c.dns implements dns.IPv4Lookup
    targetValid,    \* outbound != nil && outbound.Target.IsValid()
    network,        \* destination.Network
    family,         \* destination.Address.Family()
    packetAddr,     \* packetaddr.ToPacketAddrConn(link, destination) succeeds
    request,        \* the request header being built
    udpRequest,     \* ClientHandshake's udpRequest
    sent,           \* the request has been written to the server
    branch,         \* the relay chosen
    pc,
    result

vars == <<entry, version, uot, hasIPv4Lookup, targetValid, network, family,
          packetAddr, request, udpRequest, sent, branch, pc, result>>

cfgVars == <<entry, version, uot, hasIPv4Lookup, targetValid, network,
             family, packetAddr>>

Fail(msg) == /\ pc' = "done" /\ result' = msg

-----------------------------------------------------------------------------

\* outbound == nil || !outbound.Target.IsValid(): "target not specified".
CheckTarget ==
    /\ pc = "start"
    /\ IF targetValid
       THEN /\ pc' = "dial" /\ UNCHANGED result
       ELSE Fail("err")
    /\ UNCHANGED <<cfgVars, request, udpRequest, sent, branch>>

\* The dial loop (DialRetry), then the SOCKS5 TCP request for the target.
Dial ==
    /\ pc = "dial"
    /\ \/ /\ pc' = "resolve"
          /\ request' = [version |-> "socks5", command |-> "tcp",
                         family |-> family, addr |-> "dest", port |-> "dest"]
          /\ UNCHANGED result
       \/ Fail("err") /\ UNCHANGED request
    /\ UNCHANGED <<cfgVars, udpRequest, sent, branch>>

\* Mutant: an empty answer not tested, so the request has no address.
ResolveNoEmptyCheck ==
    /\ pc = "resolve"
    /\ IF version = "SOCKS4" /\ request.family = "domain"
       THEN \E ans \in DnsAnswers(hasIPv4Lookup) :
              IF ans = "err"
              THEN Fail("err") /\ UNCHANGED request
              ELSE /\ request' = [request EXCEPT !.family = ans,
                                                 !.addr = "resolved"]
                   /\ pc' = "version"
                   /\ UNCHANGED result
       ELSE /\ pc' = "version" /\ UNCHANGED <<request, result>>
    /\ UNCHANGED <<cfgVars, udpRequest, sent, branch>>

\* case Version_SOCKS4: a domain is resolved and replaced by the first IP.
Resolve ==
    /\ pc = "resolve"
    /\ IF version = "SOCKS4" /\ request.family = "domain"
       THEN \E ans \in DnsAnswers(hasIPv4Lookup) :
              IF ans \in {"err", "empty"}
              THEN Fail("err") /\ UNCHANGED request
              ELSE /\ request' = [request EXCEPT !.family = ans,
                                                 !.addr = "resolved"]
                   /\ pc' = "version"
                   /\ UNCHANGED result
       ELSE /\ pc' = "version" /\ UNCHANGED <<request, result>>
    /\ UNCHANGED <<cfgVars, udpRequest, sent, branch>>

\* case Version_SOCKS4A (and SOCKS4 by fallthrough): the SOCKS4 version,
\* no UDP unless over TCP, and no IPv6 destination.
VersionCheck ==
    /\ pc = "version"
    /\ IF version \in {"SOCKS4", "SOCKS4A"}
       THEN IF (network = "udp" /\ ~uot) \/ family = "ipv6"
            THEN Fail("err") /\ UNCHANGED request
            ELSE /\ request' = [request EXCEPT !.version = "socks4"]
                 /\ pc' = "udp" /\ UNCHANGED result
       ELSE /\ pc' = "udp" /\ UNCHANGED <<request, result>>
    /\ UNCHANGED <<cfgVars, udpRequest, sent, branch>>

\* A UDP destination: UDP ASSOCIATE, or with UoT a CONNECT to the magic
\* address on port 443.  Then server.PickUser and the handshake deadline,
\* which change nothing here.
UdpRewrite ==
    /\ pc = "udp"
    /\ request' =
         IF network = "udp"
         THEN IF ~uot THEN [request EXCEPT !.command = "udp"]
              ELSE [request EXCEPT !.family = "domain", !.addr = "magic",
                                   !.port = "443"]
         ELSE request
    /\ pc' = "handshake"
    /\ UNCHANGED <<cfgVars, udpRequest, sent, branch, result>>

\* ClientHandshake(request, conn, conn); a relay address 0.0.0.0 or :: is
\* replaced by the server's own address.
Handshake ==
    /\ pc = "handshake"
    /\ sent' = TRUE
    /\ \/ Fail("err") /\ UNCHANGED udpRequest
       \/ /\ \E r \in UdpReplies(request.command) :
                udpRequest' = IF r = "any" THEN "server" ELSE r
          /\ pc' = IF entry = "Process" THEN "branch" ELSE "copy"
          /\ UNCHANGED result
    /\ UNCHANGED <<cfgVars, request, branch>>

\* ProcessConn: rw.CopyConn(ctx, conn, outboundConn).
CopyConn ==
    /\ pc = "copy"
    /\ branch' = "tcp"
    /\ pc' = "relay"
    /\ UNCHANGED <<cfgVars, request, udpRequest, sent, result>>

\* Mutant: the TCP test made before the UoT one.
SelectRelayTcpFirst ==
    /\ pc = "branch"
    /\ LET b == CASE packetAddr -> "packet"
                  [] request.command = "tcp" -> "tcp"
                  [] network = "udp" /\ uot -> "uot"
                  [] OTHER -> "udp"
       IN IF b \in {"packet", "udp"}
          THEN IF udpRequest = "nil"
               THEN Fail("panic") /\ UNCHANGED branch
               ELSE \/ Fail("err") /\ UNCHANGED branch
                    \/ branch' = b /\ pc' = "relay" /\ UNCHANGED result
          ELSE branch' = b /\ pc' = "relay" /\ UNCHANGED result
    /\ UNCHANGED <<cfgVars, request, udpRequest, sent>>

\* Process, lines 264-328: the packet-address relay dials
\* udpRequest.Destination() (a nil udpRequest panics); otherwise UoT, TCP,
\* or UDP with its own dial.
SelectRelay ==
    /\ pc = "branch"
    /\ LET b == CASE packetAddr -> "packet"
                  [] network = "udp" /\ uot -> "uot"
                  [] request.command = "tcp" -> "tcp"
                  [] OTHER -> "udp"
       IN IF b \in {"packet", "udp"}
          THEN IF udpRequest = "nil"
               THEN Fail("panic") /\ UNCHANGED branch
               ELSE \/ Fail("err") /\ UNCHANGED branch
                    \/ branch' = b /\ pc' = "relay" /\ UNCHANGED result
          ELSE branch' = b /\ pc' = "relay" /\ UNCHANGED result
    /\ UNCHANGED <<cfgVars, request, udpRequest, sent>>

-----------------------------------------------------------------------------

Init ==
    /\ entry \in {"Process", "ProcessConn"}
    /\ version \in Versions
    /\ uot \in BOOLEAN
    /\ hasIPv4Lookup \in BOOLEAN
    /\ targetValid \in BOOLEAN
    /\ network \in {"tcp", "udp"}
    /\ family \in Families
    \* ProcessConn relays a net.Conn stream: its targets are TCP.
    /\ entry = "ProcessConn" => network = "tcp"
    \* ToPacketAddrConn accepts only the packet-address domain, used for UDP.
    /\ packetAddr \in IF entry = "Process" /\ network = "udp" /\ family = "domain"
                      THEN BOOLEAN ELSE {FALSE}
    /\ request = [version |-> "socks5", command |-> "tcp", family |-> family,
                  addr |-> "dest", port |-> "dest"]
    /\ udpRequest = "nil"
    /\ sent = FALSE
    /\ branch = "none"
    /\ pc = "start"
    /\ result = "pending"

Next ==
    \/ CheckTarget \/ Dial \/ Resolve \/ VersionCheck \/ UdpRewrite
    \/ Handshake \/ CopyConn \/ SelectRelay

Spec == Init /\ [][Next]_vars

-----------------------------------------------------------------------------

TypeOK ==
    /\ request \in [version : {"socks5", "socks4"}, command : {"tcp", "udp"},
                    family : Families, addr : {"dest", "resolved", "magic"},
                    port : {"dest", "443"}]
    /\ udpRequest \in {"nil", "any", "concrete", "server"}
    /\ sent \in BOOLEAN
    /\ branch \in {"none", "packet", "uot", "tcp", "udp"}
    /\ pc \in {"start", "dial", "resolve", "version", "udp", "handshake",
               "copy", "branch", "relay", "done"}
    /\ result \in {"pending", "err", "panic"}

\* The relay speaks what the request asked the server for: UoT framing for
\* a CONNECT to the magic address, a raw stream for any other CONNECT, and
\* a UDP socket for a UDP ASSOCIATE.
RelayMatchesRequest ==
    /\ branch = "uot" => request.addr = "magic" /\ request.command = "tcp"
    /\ branch = "tcp" => request.addr # "magic" /\ request.command = "tcp"
    /\ branch \in {"udp", "packet"} => request.command = "udp"

\* Process never dereferences a nil udpRequest.
NoNilDereference ==
    result # "panic"
=============================================================================
