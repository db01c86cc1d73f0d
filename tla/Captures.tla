------------------------------ MODULE Captures ------------------------------
(***************************************************************************)
(* A capture file is read twice, by code that shares nothing: PcapIngestor *)
(* checks its framing and counts its packets when it is ingested, and      *)
(* PcapPacketReader reads the packets when flows are extracted or a job    *)
(* replays them, each decoded by parse_packet.  A job is refused when the  *)
(* reader finds more packets than were counted.                            *)
(*                                                                         *)
(* A file is what follows its first header: 32-bit words.  A PCAPNG file   *)
(* has blocks of a type, a length in bytes, a body and the length again;   *)
(* a classic one has records of four words and their data.  The first word *)
(* of a packet's data stands for the frame: what an untruncated capture of *)
(* it holds.                                                               *)
(*                                                                         *)
(* Abstractions.  One byte order; files end at a word and classic records  *)
(* have whole words of data; the high half of a PCAPNG timestamp is zero.  *)
(* Addresses are model values.                                             *)
(***************************************************************************)
EXTENDS Integers, Sequences

CONSTANTS
    FileChoices,       \* [format, snap_length, link_type, words]
    FrameOf(_),        \* word -> frame
    FrameWords,        \* words that stand for a frame
    MaxRecords, MaxPacketBytes, MaxInterfaces, MaxInterfaceBlockBytes

VARIABLES
    file,
    inspected,         \* PcapIngestor.inspect: status, at, count
    read               \* PcapFlowProcessor.process: status, at, interfaces, packets

vars == << file, inspected, read >>

Section == 168627466
InterfaceBlock == 1
PacketBlock == 2
SimplePacketBlock == 3
EnhancedPacketBlock == 6

Ethernet == 1
Raw == 101
Ipv4Link == 228
Ipv6Link == 229

Size == Len(file.words)
Word(i) == file.words[i]
Words(bytes) == (bytes + 3) \div 4

-----------------------------------------------------------------------------
(* Framing, common to both readers: the block that begins after at words.  *)

Header(at) == at + 2 <= Size
BlockLength(at) == Word(at + 2)
BodyWords(at) == BlockLength(at) \div 4 - 3
Framed(at) ==
    /\ Header(at)
    /\ Word(at + 1) # Section
    /\ BlockLength(at) >= 12 /\ BlockLength(at) % 4 = 0
    /\ at + BlockLength(at) \div 4 <= Size
    /\ Word(at + BlockLength(at) \div 4) = BlockLength(at)

ClassicRecord(at) ==
    /\ at + 4 <= Size
    /\ Word(at + 3) <= file.snap_length /\ Word(at + 3) <= Word(at + 4)
    /\ at + 4 + Words(Word(at + 3)) <= Size

Accepted(at) == IF file.format = "pcapng" THEN Framed(at) ELSE ClassicRecord(at)
Following(at) ==
    at + (IF file.format = "pcapng" THEN BlockLength(at) \div 4 ELSE 4 + Words(Word(at + 3)))

-----------------------------------------------------------------------------
(* PcapIngestor.                                                           *)

Counted(at) ==
    IF file.format = "pcapng" /\ Word(at + 1) \notin {PacketBlock, SimplePacketBlock, EnhancedPacketBlock}
    THEN 0 ELSE 1

InspectBlock ==
    /\ inspected.status = "reading"
    /\ LET at == inspected.at
       IN  inspected' =
            IF at = Size THEN [inspected EXCEPT !.status = "accepted"]
            ELSE IF ~Accepted(at) \/ inspected.count + Counted(at) > MaxRecords
            THEN [inspected EXCEPT !.status = "refused"]
            ELSE [inspected EXCEPT !.at = Following(at), !.count = @ + Counted(at)]
    /\ UNCHANGED << file, read >>

-----------------------------------------------------------------------------
(* Decoding of the bytes captured of a frame.                              *)

\* What a frame says of itself.
FrameFields ==
    {"vlans", "ethertype", "version", "ip_header", "total", "fragment", "protocol", "header",
     "icmp", "ends", "extensions"}

Malformed == [result |-> "error"]      \* PacketParseError
Skipped == [result |-> "skip"]

\* What the transport header of length bytes gives.
Transport(frame, length) ==
    LET packet == [result |-> "packet", bytes |-> frame.total, version |-> frame.version,
                   protocol |-> frame.protocol, ends |-> frame.ends,
                   discriminator |-> IF frame.protocol = "icmp" THEN frame.icmp ELSE << "ports" >>]
        echo == frame.icmp[1] = "echo"
    IN  CASE frame.protocol = "tcp" ->
                IF length < 20 \/ frame.header < 20 \/ frame.header > length THEN Malformed ELSE packet
          [] frame.protocol = "udp" ->
                IF length < 8 \/ frame.header < 8 \/ frame.header > length THEN Malformed ELSE packet
          [] frame.protocol = "icmp" ->
                IF length < (IF echo THEN 8 ELSE 4) THEN Malformed ELSE packet
          [] OTHER -> Skipped

ParseIpv4(frame, length) ==
    IF \/ length < 20 \/ frame.version # 4
       \/ frame.ip_header < 20 \/ length < frame.ip_header
       \/ frame.total < frame.ip_header \/ frame.total > length
    THEN Malformed
    ELSE IF frame.fragment THEN Skipped
    ELSE Transport(frame, frame.total - frame.ip_header)

\* Where the transport header begins in a packet of total bytes with these extension
\* headers (_ipv6_transport_offset).
TransportOffset(extensions, total) ==
    LET f[at \in (1..(Len(extensions) + 1)) \X (40..total)] ==
            LET header == extensions[at[1]]
            IN  IF at[1] > Len(extensions) THEN [result |-> "offset", offset |-> at[2]]
                ELSE IF total - at[2] < header.length THEN Malformed
                ELSE IF header.fragment THEN Skipped
                ELSE f[<< at[1] + 1, at[2] + header.length >>]
    IN  f[<< 1, 40 >>]

ParseIpv6(frame, length) ==
    IF length < 40 \/ frame.version # 6 \/ frame.total = 40 \/ frame.total > length THEN Malformed
    ELSE LET transport == TransportOffset(frame.extensions, frame.total)
         IN  CASE transport.result = "offset" -> Transport(frame, frame.total - transport.offset)
               [] transport.result = "skip" -> Skipped
               [] OTHER -> Malformed

LinkBytes(frame) == 14 + 4 * frame.vlans

ParseNetwork(frame, ip_version, length) ==
    IF ip_version = 4 THEN ParseIpv4(frame, length) ELSE ParseIpv6(frame, length)

ParsePacket_AnyLength(frame, captured, link) ==    \* as if the frame were always whole
    IF link \in {Raw, Ipv4Link} THEN ParseNetwork(frame, frame.version, frame.total) ELSE Skipped

ParsePacket(frame, captured, link) ==
    CASE link = Ethernet ->
            IF captured < 14 \/ (frame.vlans > 0 /\ captured < 18) \/ (frame.vlans > 1 /\ captured < 22)
            THEN Malformed
            ELSE IF frame.vlans > 2 \/ frame.ethertype = "other" THEN Skipped
            ELSE ParseNetwork(frame, IF frame.ethertype = "ipv4" THEN 4 ELSE 6,
                              captured - LinkBytes(frame))
      [] link = Raw ->
            IF captured < 1 THEN Malformed
            ELSE IF frame.version \notin {4, 6} THEN Skipped
            ELSE ParseNetwork(frame, frame.version, captured)
      [] link = Ipv4Link -> ParseIpv4(frame, captured)
      [] link = Ipv6Link -> ParseIpv6(frame, captured)
      [] OTHER -> Skipped

\* The endpoints of a packet in either order.
CanonicalFlowKey(packet) ==
    [version |-> packet.version, protocol |-> packet.protocol,
     ends |-> {packet.ends[1], packet.ends[2]}, discriminator |-> packet.discriminator]

-----------------------------------------------------------------------------
(* PcapPacketReader.                                                       *)

\* The options in words: whether they can be read, and the value of the first that
\* gives a timestamp resolution (6: microseconds).
Options(words) ==
    LET Bad == [ok |-> FALSE, resolution |-> 6]
        f[i \in 1..(Len(words) + 1)] ==
            IF i > Len(words) THEN [ok |-> TRUE, resolution |-> 6]
            ELSE LET code == words[i] % 65536
                     length == words[i] \div 65536
                     next == i + 1 + Words(length)
                 IN  IF next > Len(words) + 1 THEN Bad
                     ELSE IF code = 0
                     THEN [ok |-> length = 0 /\ \A j \in next..Len(words) : words[j] = 0,
                           resolution |-> 6]
                     ELSE IF ~f[next].ok THEN Bad
                     ELSE IF code = 9
                     THEN [ok |-> length = 1, resolution |-> IF length = 0 THEN 6 ELSE words[i + 1] % 256]
                     ELSE f[next]
    IN  f[1]

\* The powers of a base, up to the greatest exponent in use.
Power(base) == LET f[n \in 0..63] == IF n = 0 THEN 1 ELSE base * f[n - 1] IN f

Supported(resolution) == resolution \in (0..18) \cup (128..(128 + 63))
TimestampUnits(resolution) ==
    IF resolution >= 128 THEN Power(2)[resolution - 128] ELSE Power(10)[resolution]

MicrosPerSecond == 1000000

\* Microseconds, rounded down.
Timestamp(seconds, fraction, units) ==
    [seconds |-> seconds, microseconds |-> (fraction * MicrosPerSecond) \div units]

InterfaceAccepted(at) ==
    LET options == Options(SubSeq(file.words, at + 5, at + 2 + BodyWords(at)))
    IN  /\ 4 * BodyWords(at) <= MaxInterfaceBlockBytes
        /\ BodyWords(at) >= 2
        /\ Word(at + 4) > 0
        /\ Len(read.interfaces) < MaxInterfaces
        /\ options.ok /\ Supported(options.resolution)

Interface(at) ==
    [link_type |-> Word(at + 3) % 65536, snap_length |-> Word(at + 4),
     units |-> TimestampUnits(
                Options(SubSeq(file.words, at + 5, at + 2 + BodyWords(at))).resolution)]

InterfaceId(at) ==
    IF Word(at + 1) = PacketBlock THEN Word(at + 3) % 65536 ELSE Word(at + 3)

PacketAccepted(at) ==
    /\ BodyWords(at) >= 5
    /\ InterfaceId(at) < Len(read.interfaces)
    /\ LET captured == Word(at + 6)
       IN  /\ captured <= Word(at + 7)
           /\ captured <= read.interfaces[InterfaceId(at) + 1].snap_length
           /\ captured <= MaxPacketBytes
           /\ 5 + Words(captured) <= BodyWords(at)

\* timestamp, bytes captured, link type and frame of the packet of a block or record.
PacketOf(at) ==
    IF file.format = "pcapng"
    THEN LET interface == read.interfaces[InterfaceId(at) + 1]
         IN  [timestamp |-> Timestamp(Word(at + 5) \div interface.units,
                                      Word(at + 5) % interface.units, interface.units),
              captured |-> Word(at + 6), link_type |-> interface.link_type,
              frame |-> IF Word(at + 6) = 0 THEN 0 ELSE Word(at + 8)]
    ELSE [timestamp |-> Timestamp(Word(at + 1), Word(at + 2), MicrosPerSecond),
          captured |-> Word(at + 3), link_type |-> file.link_type,
          frame |-> IF Word(at + 3) = 0 THEN 0 ELSE Word(at + 5)]

\* What the reader does with the block or record after at words.
BlockKind(at) ==
    IF file.format = "classic"
    THEN IF ClassicRecord(at) /\ Word(at + 3) <= MaxPacketBytes /\ Word(at + 2) < MicrosPerSecond
         THEN "packet" ELSE "refused"
    ELSE IF ~Framed(at) THEN "refused"
    ELSE IF Word(at + 1) = InterfaceBlock
    THEN IF InterfaceAccepted(at) THEN "interface" ELSE "refused"
    ELSE IF Word(at + 1) \in {PacketBlock, EnhancedPacketBlock}
    THEN IF PacketAccepted(at) THEN "packet" ELSE "refused"
    ELSE IF Word(at + 1) = SimplePacketBlock THEN "refused" ELSE "other"

\* Where it stands after a block: what it read of a packet and what it discarded.
After(at) ==
    IF file.format = "classic" THEN at + 4 + Words(Word(at + 3))
    ELSE IF BlockKind(at) = "packet"
    THEN LET data == Words(Word(at + 6)) IN at + 2 + 5 + data + (BodyWords(at) - 5 - data) + 1
    ELSE at + 2 + BodyWords(at) + 1

ReadBlock ==
    /\ read.status = "reading"
    /\ LET at == read.at
           kind == BlockKind(at)
       IN  IF at = Size THEN read' = [read EXCEPT !.status = "done"]
           ELSE IF kind = "refused" \/ (kind = "packet" /\ Len(read.packets) = MaxRecords)
           THEN read' = [read EXCEPT !.status = "failed"]
           ELSE IF kind = "packet"
           THEN LET captured == PacketOf(at)
                    packet == ParsePacket(FrameOf(captured.frame), captured.captured, captured.link_type)
                IN  read' = [read EXCEPT !.at = After(at),
                                !.status = IF packet = Malformed THEN "failed" ELSE @,
                                !.packets = Append(@, [captured |-> captured, packet |-> packet])]
           ELSE IF kind = "interface"
           THEN read' = [read EXCEPT !.at = After(at), !.interfaces = Append(@, Interface(at))]
           ELSE read' = [read EXCEPT !.at = After(at)]
    /\ UNCHANGED << file, inspected >>

-----------------------------------------------------------------------------
Init ==
    /\ file \in FileChoices
    /\ inspected = [status |-> "reading", at |-> 0, count |-> 0]
    /\ read = [status |-> "reading", at |-> 0, interfaces |-> << >>, packets |-> << >>]

Next ==
    \/ InspectBlock
    \/ inspected.status # "reading" /\ ReadBlock

Spec == Init /\ [][Next]_vars

-----------------------------------------------------------------------------
TypeOK ==
    /\ file.format \in {"classic", "pcapng"} /\ file.words \in Seq(Nat)
    /\ inspected.status \in {"reading", "accepted", "refused"}
    /\ inspected.at \in 0..Size /\ inspected.count \in 0..MaxRecords
    /\ read.status \in {"reading", "done", "failed"}
    /\ read.at \in 0..Size
    /\ Len(read.interfaces) <= MaxInterfaces /\ Len(read.packets) <= MaxRecords

\* The reader refuses what the ingestor refuses and never finds more packets than it
\* counted; once through, it found as many.  It never loses the framing the ingestor
\* accepted, and no timestamp has a second or more in microseconds.
ReadersAgree ==
    /\ \A i \in 1..Len(read.packets) :
        read.packets[i].captured.timestamp.microseconds < MicrosPerSecond
    /\ read.status = "done" => inspected.status = "accepted"
    /\ inspected.status = "accepted" => Len(read.packets) <= inspected.count
    /\ read.status = "done" => Len(read.packets) = inspected.count
    /\ inspected.status = "accepted" /\ read.at < Size =>
        IF file.format = "pcapng" THEN Framed(read.at) ELSE ClassicRecord(read.at)

\* What a frame is decoded to does not depend on where its capture was cut: a shorter
\* capture fails or gives the same, and a packet was captured up to its last byte; the
\* answer to a packet has the key of the packet.
CutFramesFail ==
    \A word \in FrameWords, link \in {Ethernet, Raw, Ipv4Link, Ipv6Link} :
        LET frame == FrameOf(word)
            whole == LinkBytes(frame) + frame.total
            answer == [frame EXCEPT !.ends = << frame.ends[2], frame.ends[1] >>]
            packet == ParsePacket(frame, whole, link)
        IN  /\ \A captured \in 0..whole :
                LET cut == ParsePacket(frame, captured, link)
                IN  /\ cut \in {Malformed, packet}
                    /\ cut.result = "packet" => cut.bytes <= captured
            /\ packet.result = "packet" =>
                CanonicalFlowKey(packet) = CanonicalFlowKey(ParsePacket(answer, whole, link))

CaptureIsSound ==
    /\ ReadersAgree
    /\ read.status = "done" => CutFramesFail
=============================================================================
