----------------------------- MODULE PacketParser -----------------------------
(***************************************************************************)
(* PacketParser::parse (src/packet_parser.cpp): Ethernet, IPv4, TCP and    *)
(* UDP headers, and where the payload of a packet begins.  The engines do  *)
(* not use the payload the parser finds; each computes it anew.            *)
(*                                                                         *)
(* A frame is what the bytes of a packet say:                              *)
(*   len           how many bytes were captured                            *)
(*   type          "ipv4" or another EtherType                             *)
(*   version, ihl  of the IP header                                        *)
(*   proto         "tcp", "udp" or another protocol                        *)
(*   src, dst, sport, dport, flags                                         *)
(*   doff          the length of the TCP header, in words                  *)
(*   body          the message that follows the headers (module Extractors)*)
(* The total length in the IP header is not looked at.                     *)
(***************************************************************************)
EXTENDS Naturals

EthHeader == 14
MinHeader == 20   \* of IP and of TCP
UDPHeader == 8

\* What an extractor is given when it is pointed elsewhere than at the body.
Misread == [kind |-> "misread"]

parseEthernet(f) == f.len >= EthHeader

parseIPv4(f) ==
  /\ f.len >= EthHeader + MinHeader /\ f.version = 4
  /\ 4 * f.ihl >= MinHeader /\ f.len >= EthHeader + 4 * f.ihl

TransportOffset(f) == EthHeader + 4 * f.ihl

parseTCP(f) ==
  /\ f.len >= TransportOffset(f) + MinHeader
  /\ 4 * f.doff >= MinHeader /\ f.len >= TransportOffset(f) + 4 * f.doff

parseUDP(f) == f.len >= TransportOffset(f) + UDPHeader

hasTCP(f) == f.type = "ipv4" /\ f.proto = "tcp"
hasUDP(f) == f.type = "ipv4" /\ f.proto = "udp"

parse(f) ==
  /\ parseEthernet(f)
  /\ f.type = "ipv4" => parseIPv4(f)
  /\ hasTCP(f) => parseTCP(f)
  /\ hasUDP(f) => parseUDP(f)

\* Where parse leaves its offset, for a frame it accepts.
PayloadOffset(f) ==
  IF hasTCP(f) THEN TransportOffset(f) + 4 * f.doff
  ELSE IF hasUDP(f) THEN TransportOffset(f) + UDPHeader
  ELSE IF f.type = "ipv4" THEN TransportOffset(f) ELSE EthHeader

\* Four bits of the frame: the length of the IP or of the TCP header, if it is
\* them that are read.
Nibble(f, pos) ==
  IF pos = EthHeader THEN f.ihl ELSE IF pos = TransportOffset(f) + 12 THEN f.doff ELSE 0

\* A payload as an engine sees it.
Payload(f, offset) ==
  [length |-> IF offset < f.len THEN f.len - offset ELSE 0,
   body   |-> IF offset = PayloadOffset(f) THEN f.body ELSE Misread]

ParsedPayload(f) == Payload(f, PayloadOffset(f))

\* createPacketJob of the v1 engine.
JobPayload(f) ==
  LET transport == EthHeader + 4 * Nibble(f, EthHeader)
  IN  Payload(f, IF hasTCP(f) /\ f.len > transport
                 THEN transport + 4 * Nibble(f, transport + 12)
                 ELSE IF hasUDP(f) THEN transport + UDPHeader ELSE 0)

\* Variant: IP options are not reckoned with.
MtPayloadNoOptions(f) ==
  LET transport == EthHeader + MinHeader
  IN  Payload(f, IF hasTCP(f) /\ transport + 12 < f.len
                 THEN transport + 4 * Nibble(f, transport + 12)
                 ELSE IF hasUDP(f) THEN transport + UDPHeader ELSE transport)

\* DPIEngine::process of the v2 engine.
MtPayload(f) ==
  LET transport == EthHeader + 4 * Nibble(f, EthHeader)
  IN  Payload(f, IF hasTCP(f) /\ transport + 12 < f.len
                 THEN transport + 4 * Nibble(f, transport + 12)
                 ELSE IF hasUDP(f) THEN transport + UDPHeader ELSE transport)

\* main_working.cpp, where it looks for a name in a TCP packet.
WorkingPayload(f) ==
  LET transport == EthHeader + 4 * Nibble(f, EthHeader)
  IN  IF transport + 12 < f.len
      THEN Payload(f, transport + 4 * Nibble(f, transport + 12))
      ELSE [length |-> 0, body |-> Misread]
=============================================================================
