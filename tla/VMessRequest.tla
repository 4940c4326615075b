---------------------------- MODULE VMessRequest ----------------------------
(***************************************************************************)
(* The request setup of the VMess outbound's Handler.Process              *)
(* (src/proxy/vmess/outbound/outbound.go): the target check, the command, *)
(* the header's address and port, the packet encoding chosen for a UDP     *)
(* target, and the framing each task goroutine puts around the body:      *)
(* requestDone's writer (lines 175-180) and responseDone's reader (lines   *)
(* 215-220).  The relay itself is VMessOutbound.                           *)
(*                                                                         *)
(* Addresses are abstracted to what the code tells apart: an IP, a domain, *)
(* the Mux domain "v1.mux.cool", and packetaddr.SeqPacketMagicAddress.     *)
(***************************************************************************)
EXTENDS Naturals

Ports      == {0, 53, 443, 8080}
TargetAddrs == {"ip", "domain", "mux"}
Encodings  == {"None", "Packet", "XUDP"}

VARIABLES
    targetValid,    \* outbound != nil && outbound.Target.IsValid()
    network,        \* target.Network
    taddr,          \* target.Address
    tport,          \* target.Port
    hEnc,           \* h.packetEncoding, from the config
    command,        \* the local command
    header,         \* the request header: command, address, port
    packetEncoding, \* the local packetEncoding
    wFrame,         \* requestDone's body writer framing
    rFrame,         \* responseDone's body reader framing
    reqPc, respPc,  \* the two task goroutines
    pc, result

cfgVars == <<targetValid, network, taddr, tport, hEnc>>
vars == <<cfgVars, command, header, packetEncoding, wFrame, rFrame, reqPc,
          respPc, pc, result>>

\* The framing for an encoding: a packetaddr or xudp wrapper, or none.
FrameOf(enc) == CASE enc = "Packet" -> "packet"
                  [] enc = "XUDP"   -> "xudp"
                  [] OTHER          -> "none"

-----------------------------------------------------------------------------

\* "target not specified" (lines 84-87).
CheckTarget ==
    /\ pc = "start"
    /\ IF targetValid THEN pc' = "build" /\ UNCHANGED result
                      ELSE pc' = "done" /\ result' = "err"
    /\ UNCHANGED <<cfgVars, command, header, packetEncoding, wFrame, rFrame,
                   reqPc, respPc>>

\* TCP, UDP for a UDP target, Mux for the v1.mux.cool domain; the header
\* carries the command and the target (lines 89-108).
BuildRequest ==
    /\ pc = "build"
    /\ LET cmd == CASE taddr = "mux"     -> "mux"
                    [] network = "udp"   -> "udp"
                    [] OTHER             -> "tcp"
       IN  /\ command' = cmd
           /\ header' = [command |-> cmd, addr |-> taddr, port |-> tport]
    /\ pc' = "encoding"
    /\ UNCHANGED <<cfgVars, packetEncoding, wFrame, rFrame, reqPc, respPc,
                   result>>

\* A UDP target on a port other than 0, 53 and 443 takes the configured
\* encoding: Packet names the magic address, XUDP turns the request into
\* Mux to v1.mux.cool, both on port 0 (lines 150-162).  Then task.Run
\* starts the two goroutines.
SelectPacketEncoding ==
    /\ pc = "encoding"
    /\ IF command = "udp" /\ tport > 0 /\ header.port \notin {53, 443}
       THEN /\ packetEncoding' = hEnc
            /\ header' = CASE hEnc = "Packet" ->
                                [header EXCEPT !.addr = "magic", !.port = 0]
                           [] hEnc = "XUDP" ->
                                [header EXCEPT !.command = "mux",
                                               !.addr = "mux", !.port = 0]
                           [] OTHER -> header
       ELSE UNCHANGED <<packetEncoding, header>>
    /\ pc' = "relay"
    /\ UNCHANGED <<cfgVars, command, wFrame, rFrame, reqPc, respPc, result>>

\* Mutant: the writer framed by the configured encoding, not the one the
\* request was built for.
WrapWriterFromConfig ==
    /\ pc = "relay" /\ reqPc = "header"
    /\ \/ reqPc' = "err" /\ UNCHANGED wFrame
       \/ reqPc' = "body" /\ wFrame' = FrameOf(hEnc)
    /\ UNCHANGED <<cfgVars, command, header, packetEncoding, rFrame, respPc,
                   pc, result>>

\* requestDone: EncodeRequestHeader, which may fail, then the body writer
\* wrapped for the packet encoding (lines 167-180).
WrapWriter ==
    /\ pc = "relay" /\ reqPc = "header"
    /\ \/ reqPc' = "err" /\ UNCHANGED wFrame
       \/ reqPc' = "body" /\ wFrame' = FrameOf(packetEncoding)
    /\ UNCHANGED <<cfgVars, command, header, packetEncoding, rFrame, respPc,
                   pc, result>>

\* responseDone: DecodeResponseHeader, which may fail, then the body
\* reader wrapped for the packet encoding (lines 206-220).
WrapReader ==
    /\ pc = "relay" /\ respPc = "header"
    /\ \/ respPc' = "err" /\ UNCHANGED rFrame
       \/ respPc' = "body" /\ rFrame' = FrameOf(packetEncoding)
    /\ UNCHANGED <<cfgVars, command, header, packetEncoding, wFrame, reqPc,
                   pc, result>>

-----------------------------------------------------------------------------

Init ==
    /\ targetValid \in BOOLEAN
    /\ network \in {"tcp", "udp"}
    /\ taddr \in TargetAddrs
    /\ tport \in Ports
    /\ hEnc \in Encodings
    /\ command = "tcp"
    /\ header = [command |-> "tcp", addr |-> taddr, port |-> tport]
    /\ packetEncoding = "None"
    /\ wFrame = "none" /\ rFrame = "none"
    /\ reqPc = "header" /\ respPc = "header"
    /\ pc = "start" /\ result = "pending"

Next ==
    \/ CheckTarget \/ BuildRequest \/ SelectPacketEncoding
    \/ WrapWriter \/ WrapReader

Spec == Init /\ [][Next]_vars

-----------------------------------------------------------------------------

TypeOK ==
    /\ command \in {"tcp", "udp", "mux"}
    /\ header \in [command : {"tcp", "udp", "mux"},
                   addr : TargetAddrs \cup {"magic"}, port : Ports]
    /\ packetEncoding \in Encodings
    /\ {wFrame, rFrame} \subseteq {"none", "packet", "xudp"}
    /\ {reqPc, respPc} \subseteq {"header", "body", "err"}
    /\ pc \in {"start", "build", "encoding", "relay", "done"}
    /\ result \in {"pending", "err"}

\* The body is framed the way the header told the server: packet-address
\* framing exactly for the magic address, XUDP framing exactly for a Mux
\* request on port 0 that the target did not itself name, and the response
\* read with the framing the request was written with.  The choice is made
\* once (lines 150-162) and applied in both goroutines (175-180, 215-220).
FramingMatchesHeader ==
    /\ reqPc = "body" =>
          /\ (wFrame = "packet") = (header.addr = "magic")
          /\ (wFrame = "xudp") = (header.command = "mux" /\ taddr # "mux")
    /\ (reqPc = "body" /\ respPc = "body") => rFrame = wFrame
=============================================================================
