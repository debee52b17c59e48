------------------------------ MODULE WireCodecs ------------------------------
(***************************************************************************)
(* The frame formats the platform decodes itself: the GB/T 26875 frame,    *)
(* Modbus RTU and TCP responses and the fixed-offset hex frame. A sender   *)
(* puts a frame on the wire, a byte may be damaged, and the decoder gives  *)
(* what was sent or refuses. Bytes and words keep their width.             *)
(***************************************************************************)
EXTENDS Integers, Sequences, FiniteSets, SequencesExt, Bitwise

CONSTANTS
    GbSamples,      \* [seq, source, command, data, words]: frames a fire terminal sends
    GbPrefixes,     \* bytes that may stand before a frame in a stream
    PointShapes,    \* [type, width, order, little, bit, scale, offset]: kinds of points
    Memories,       \* register contents of a Modbus device, as functions 0 .. n -> words
    HexSamples,     \* payload bytes of a sum8 frame between its markers
    DamageValues    \* byte values damage may leave

Reject == [ok |-> FALSE]
Lo(w) == w % 256
Hi(w) == w \div 256
RECURSIVE SumOf(_, _)
SumOf(s, n) == IF n = 0 THEN 0 ELSE SumOf(s, n - 1) + s[n]
Sum8(s) == SumOf(s, Len(s)) % 256
Slice(s, from, to) == SubSeq(s, from + 1, to)       \* s[from:to] of the code
At(s, i) == s[i + 1]

-----------------------------------------------------------------------------
\* GB/T 26875: markers, 25 control bytes, data, a sum of all but the markers.
GbControlLength == 25
GbMaxDataLength == 512

buildGB26875Frame(f) ==
    LET control == <<Lo(f.seq), Hi(f.seq), 1, 3>> \o f.time \o f.source \o f.destination
                   \o <<Lo(Len(f.data)), Hi(Len(f.data)), f.command>>
    IN <<64, 64>> \o control \o f.data \o <<Sum8(control \o f.data)>> \o <<35, 35>>

decodeGB26875Frame(w) ==
    LET n == At(w, 24) + 256 * At(w, 25)
    IN IF \/ Len(w) < 2 + GbControlLength + 3 \/ Slice(w, 0, 2) # <<64, 64>>
          \/ Slice(w, Len(w) - 2, Len(w)) # <<35, 35>>
          \/ n > GbMaxDataLength \/ Len(w) # 2 + GbControlLength + n + 3
          \/ At(w, 27 + n) # Sum8(Slice(w, 2, 27 + n))
       THEN Reject
       ELSE [ok |-> TRUE, seq |-> At(w, 2) + 256 * At(w, 3), time |-> Slice(w, 6, 12),
             source |-> Slice(w, 12, 18), destination |-> Slice(w, 18, 24),
             command |-> At(w, 26), data |-> Slice(w, 27, 27 + n)]

\* readFrame of the gateway: bytes are skipped in ones and twos until a marker, then the
\* length in the header says how much belongs to the frame.
RECURSIVE AfterMarker(_)
AfterMarker(s) ==
    IF Len(s) < 2 THEN <<>>
    ELSE IF s[1] # 64 THEN AfterMarker(Tail(s))
    ELSE IF s[2] # 64 THEN AfterMarker(Tail(Tail(s)))
    ELSE s
RECURSIVE GbFrames(_)
GbFrames(s) ==                          \* what a connection reads until it ends or is closed
    LET w == AfterMarker(s)
        n == At(w, 24) + 256 * At(w, 25)
    IN IF Len(w) < 2 + GbControlLength \/ n > GbMaxDataLength \/ Len(w) < 30 + n THEN <<>>
       ELSE <<SubSeq(w, 1, 30 + n)>> \o GbFrames(SubSeq(w, 31 + n, Len(w)))

\* Times are six BCD bytes; a byte that is not BCD is taken as a plain number.
BadEncodeBCD(v) == (v \div 10) * 16 + v
encodeBCD(v) == (v \div 10) * 16 + (v % 10)
decodeBCD(b) == IF b \div 16 <= 9 /\ b % 16 <= 9 THEN (b \div 16) * 10 + (b % 16) ELSE b

\* A component's status word: bit 1 is fire, eight other bits are faults.
Bit(word, i) == (word \div 2^i) % 2 = 1
FaultBits == {2, 8, 9, 10, 11, 12, 14, 15}
ComponentAlarms(word) == [FIRE |-> Bit(word, 1), DEVICE_FAULT |-> \E i \in FaultBits : Bit(word, i)]

\* External: the data unit of a status report, 46 bytes about each component.
StatusData(words) ==
    <<2, Len(words)>> \o FlattenSeq([i \in DOMAIN words |->
        <<1, 1, 40, 1, 0, i, 0, Lo(words[i]), Hi(words[i])>> \o [k \in 1 .. 37 |-> 0]])

\* The status words of the objects in a report.
StatusWords(data) == [i \in 1 .. data[2] |-> At(data, 2 + 46 * (i - 1) + 7) + 256 * At(data, 2 + 46 * (i - 1) + 8)]

\* applyGB26875ComponentStatus: the kind of message one report becomes.
BadMessageType(data) ==
    IF \E b \in FaultBits \cup {1} : Bit(StatusWords(data)[1], b) THEN "ALARM_REPORT" ELSE "STATE_CHANGE"
messageType(data) ==
    IF \E i \in 1 .. data[2] : \E b \in FaultBits \cup {1} : Bit(StatusWords(data)[i], b)
    THEN "ALARM_REPORT" ELSE "STATE_CHANGE"

\* applyGB26875Data: what a frame means, from its command and the type of its data.
applyGB26875Data(f) ==
    CASE f.command = 7 /\ f.data = <<>> -> "KEEPALIVE"
      [] f.command = 3 /\ f.data = <<>> -> "ACK"
      [] Len(f.data) < 2 -> "error"
      [] f.command = 0 /\ f.data[1] = 0 -> IF f.data[2] = 1 /\ Len(f.data) = 112 THEN "REGISTER" ELSE "error"
      [] f.command = 1 /\ f.data[1] = 90 -> IF f.data[2] = 1 /\ Len(f.data) = 8 THEN "TIME_SYNC" ELSE "error"
      [] f.command = 2 /\ f.data[1] = 2 -> IF f.data[2] >= 1 /\ Len(f.data) = 2 + 46 * f.data[2]
                                           THEN "COMPONENT_STATUS" ELSE "error"
      [] OTHER -> "error"

-----------------------------------------------------------------------------
\* Modbus RTU: the CRC of all bytes before it, low byte first.
CRCBit(v) == IF v % 2 = 1 THEN (v \div 2) ^^ 40961 ELSE v \div 2
CRC(data) ==
    LET bits[n \in 0 .. 8, v \in 0 .. 65535] == IF n = 0 THEN v ELSE bits[n - 1, CRCBit(v)]
        bytes[i \in 1 .. Len(data) + 1, v \in 0 .. 65535] ==
            IF i > Len(data) THEN v ELSE bytes[i + 1, bits[8, v ^^ data[i]]]
    IN bytes[1, 65535]
AppendCRC(data) == data \o <<Lo(CRC(data)), Hi(CRC(data))>>
BadValidate(w) == Len(w) \in 5 .. 256 /\ Lo(CRC(Slice(w, 0, Len(w) - 2))) = At(w, Len(w) - 2)
Validate(w) ==
    /\ Len(w) \in 5 .. 256
    /\ CRC(Slice(w, 0, Len(w) - 2)) = At(w, Len(w) - 2) + 256 * At(w, Len(w) - 1)

\* External: what a device answers to a read of registers (3) or coils (1), of which a
\* memory word other than zero is set.
Registers(m, start, n) == FlattenSeq([i \in 1 .. n |-> <<Hi(m[start + i - 1]), Lo(m[start + i - 1])>>])
CoilByte(m, start, n, k) ==
    FoldSet(LAMBDA i, acc : acc + 2^i, 0, {i \in 0 .. 7 : 8 * k + i < n /\ m[start + 8 * k + i] # 0})
Coils(m, start, n) == [k \in 1 .. (n + 7) \div 8 |-> CoilByte(m, start, n, k - 1)]
Response(fn, m, start, n) ==
    LET body == IF fn = 1 THEN Coils(m, start, n) ELSE Registers(m, start, n)
    IN <<1, fn, Len(body)>> \o body
MBAP(pdu) == <<0, 7, 0, 0, Hi(Len(pdu)), Lo(Len(pdu))>> \o pdu

reorderModbusWords(d, order) ==
    CASE Len(d) = 4 /\ order = "CDAB" -> <<d[3], d[4], d[1], d[2]>>
      [] Len(d) = 4 /\ order = "BADC" -> <<d[2], d[1], d[4], d[3]>>
      [] Len(d) = 4 /\ order = "DCBA" -> <<d[4], d[3], d[2], d[1]>>
      [] Len(d) = 8 /\ order = "GHEFCDAB" -> <<d[7], d[8], d[5], d[6], d[3], d[4], d[1], d[2]>>
      [] Len(d) = 8 /\ order = "BADCFEHG" -> <<d[2], d[1], d[4], d[3], d[6], d[5], d[8], d[7]>>
      [] Len(d) = 8 /\ order = "HGFEDCBA" -> <<d[8], d[7], d[6], d[5], d[4], d[3], d[2], d[1]>>
      [] OTHER -> d
SwapPairs(d) == [i \in DOMAIN d |-> IF i % 2 = 1 THEN d[i + 1] ELSE d[i - 1]]
TrimText(d) == SubSeq(d, 1, Max({0} \cup {i \in DOMAIN d : d[i] \notin {0, 32}}))

\* The words a type is made of; a string takes all it is given.
Words(type) ==
    CASE type \in {"bool", "bits", "uint16", "int16"} -> 1
      [] type \in {"uint32", "int32", "float32"} -> 2
      [] type \in {"uint64", "int64", "float64"} -> 4
      [] type = "string" -> 0
Unsigned == {"uint16", "uint32", "uint64"}
Signed == {"int16", "int32", "int64"}
NoBit == -1

\* A value is known by its type and words and what it is multiplied by and added to. A bit
\* is only read from an integer that is not negative, which "bits" does not count as; a type
\* longer than the registers of the point reads past the end of the slice and panics.
Got(kind, v) == [kind |-> kind, value |-> v]
Refused == [kind |-> "error"]
Panicked == [kind |-> "panic"]
decodeModbusRegisterValue(d, p) ==
    LET o == reorderModbusWords(IF p.little THEN SwapPairs(d) ELSE d, p.order)
        n == Words(p.type)
        w == [i \in 1 .. n |-> 256 * o[2 * i - 1] + o[2 * i]]
    IN CASE Len(o) < 2 * n -> Panicked
         [] p.bit # NoBit -> IF p.type \in Unsigned \/ (p.type \in Signed /\ w[1] < 32768)
                             THEN Got("bool", Bit(w[n], p.bit)) ELSE Refused
         [] p.type = "bool" -> Got("bool", w[1] # 0)
         [] p.type = "bits" -> Got("bits", w[1])
         [] p.type = "string" -> Got("text", TrimText(o))
         [] OTHER -> Got("number", [type |-> p.type, words |-> w, offset |-> p.offset,
                                    scale |-> IF p.scale = 0 THEN 1 ELSE p.scale])

\* ModbusTCPParser: the points of the response's function that lie inside it, each by
\* its address relative to the first one read.
PointValue(w, p, start) ==
    LET at == 9 + 2 * (p.address - start)
    IN IF At(w, 7) <= 2 THEN Got("bool", Bit(At(w, 9 + (p.address - start) \div 8), (p.address - start) % 8))
       ELSE decodeModbusRegisterValue(Slice(w, at, at + 2 * p.width), p)
BadInside(w, p, start) ==
    /\ p.fn = At(w, 7) /\ p.address >= start
    /\ IF p.fn <= 2 THEN p.address - start < At(w, 8) * 8
       ELSE (p.address - start + p.width) * 2 < At(w, 8)
Inside(w, p, start) ==
    /\ p.fn = At(w, 7) /\ p.address >= start
    /\ IF p.fn <= 2 THEN p.address - start < At(w, 8) * 8
       ELSE (p.address - start + p.width) * 2 <= At(w, 8)

\* A point that cannot be decoded fails the whole response, and so does a response with no
\* point inside. (With both a refused and a panicking point their order decides.)
Panic == [ok |-> FALSE, panic |-> TRUE]
PointValues(w, points, start) ==
    LET v == [p \in {q \in points : Inside(w, q, start)} |-> PointValue(w, p, start)]
    IN CASE \E p \in DOMAIN v : v[p] = Panicked -> Panic
         [] v = <<>> \/ \E p \in DOMAIN v : v[p] = Refused -> Reject
         [] OTHER -> [ok |-> TRUE, values |-> v]
parseTCP(w, points, start) ==
    IF \/ Len(w) < 9 \/ At(w, 2) # 0 \/ At(w, 3) # 0 \/ 256 * At(w, 4) + At(w, 5) # Len(w) - 6
       \/ At(w, 7) \notin 1 .. 4 \/ At(w, 8) = 0 \/ 9 + At(w, 8) # Len(w)
    THEN Reject
    ELSE PointValues(w, points, start)
\* ModbusRTUParser wraps the validated PDU in a TCP header and parses that.
parseRTU(w, points, start) ==
    IF ~Validate(w) THEN Reject
    ELSE parseTCP(<<0, 0, 0, 0, Hi(Len(w) - 2), Lo(Len(w) - 2)>> \o Slice(w, 0, Len(w) - 2), points, start)

\* modbusCoilFrame with "auto": a zero protocol id and a function code make it TCP.
\* ModbusCoilParser takes what follows without looking at the CRC of an RTU frame.
BadCoilDataOffset(w) == IF Len(w) >= 9 /\ At(w, 0) = 0 /\ At(w, 1) = 0 /\ At(w, 7) # 0 THEN 9 ELSE 3
coilDataOffset(w) == IF Len(w) >= 9 /\ At(w, 2) = 0 /\ At(w, 3) = 0 /\ At(w, 7) # 0 THEN 9 ELSE 3
parseCoils(w, addresses, start) ==
    LET at == coilDataOffset(w)
        count == At(w, at - 1)
    IN IF \/ Len(w) <= at \/ At(w, at - 2) # 1 \/ count = 0 \/ at + count > Len(w)
          \/ \E a \in addresses : a < start \/ (a - start) \div 8 >= count
       THEN Reject
       ELSE [ok |-> TRUE, values |-> [a \in addresses |-> Bit(At(w, at + (a - start) \div 8), (a - start) % 8)]]

-----------------------------------------------------------------------------
\* ConfigurableHexParser with a start marker, an end marker and a sum8 before it.
StartHex == <<170>>
EndHex == <<85, 85>>
HexFrame(d) == StartHex \o d \o <<Sum8(StartHex \o d)>> \o EndHex
parseHex(w) ==
    LET checksumAt == Len(w) - Len(EndHex) - 1
    IN IF \/ Len(w) < Len(StartHex) \/ Slice(w, 0, Len(StartHex)) # StartHex
          \/ Len(w) < Len(EndHex) \/ Slice(w, Len(w) - Len(EndHex), Len(w)) # EndHex
          \/ checksumAt < 0 \/ At(w, checksumAt) # Sum8(Slice(w, 0, checksumAt))
       THEN Reject
       ELSE [ok |-> TRUE, fields |-> Slice(w, Len(StartHex), checksumAt)]

-----------------------------------------------------------------------------
VARIABLES
    sent,       \* which format, and what was sent in it
    received,       \* the bytes received
    damaged     \* whether one byte was changed under way

wvars == <<sent, received, damaged>>

GbFrame(s) == [ok |-> TRUE, seq |-> s.seq, time |-> <<encodeBCD(59), encodeBCD(0), encodeBCD(23), encodeBCD(31), encodeBCD(12), encodeBCD(26)>>,
               source |-> s.source, destination |-> [i \in 1 .. 6 |-> 255],
               command |-> s.command, data |-> IF s.words = <<>> THEN s.data ELSE StatusData(s.words)]
Spans(m) == {<<start, n>> \in (0 .. 2) \X (1 .. 4) : start + n - 1 \in DOMAIN m}

NoFrame == [format |-> "none"]
CodecInit == sent = NoFrame /\ received = <<>> /\ damaged = FALSE

\* A device sends one frame, in one of the formats.
SendFrame ==
    /\ sent = NoFrame
    /\ \/ \E s \in GbSamples :
             /\ sent' = [format |-> "gb", frame |-> GbFrame(s), words |-> s.words]
             /\ received' = buildGB26875Frame(GbFrame(s))
       \/ \E d \in HexSamples : sent' = [format |-> "hex", data |-> d] /\ received' = HexFrame(d)
       \/ \E m \in Memories, fn \in {1, 3}, tcp \in BOOLEAN : \E s \in Spans(m) :
             /\ sent' = [format |-> IF tcp THEN "tcp" ELSE "rtu", fn |-> fn, memory |-> m,
                         start |-> s[1], count |-> s[2]]
             /\ received' = LET pdu == Response(fn, m, s[1], s[2])
                            IN IF tcp THEN MBAP(pdu) ELSE AppendCRC(pdu)
    /\ UNCHANGED damaged

\* One byte is changed between the device and the decoder.
DamageByte(i, b) ==
    /\ ~damaged /\ received[i] # b
    /\ damaged' = TRUE /\ received' = [received EXCEPT ![i] = b] /\ UNCHANGED sent
CodecNext ==
    \/ SendFrame
    \/ \E i \in DOMAIN received :
          \E b \in DamageValues \cup {(received[i] + 1) % 256, (received[i] + 128) % 256} : DamageByte(i, b)

PointOf(fn, a, shape) == [fn |-> fn, address |-> a, width |-> shape.width, type |-> shape.type,
    order |-> shape.order, little |-> shape.little, bit |-> shape.bit, scale |-> shape.scale,
    offset |-> shape.offset]
Points(m) == {PointOf(3, a, s) : a \in DOMAIN m, s \in PointShapes}
             \cup {PointOf(1, a, s) : a \in DOMAIN m, s \in {x \in PointShapes : x.type = "bool" /\ x.width = 1}}

\* The reference: a register point's words by the meaning of its orders.
MeantWords(m, p) ==
    LET backwards == <<p.width, p.order>> \in
                         {<<2, "CDAB">>, <<2, "DCBA">>, <<4, "GHEFCDAB">>, <<4, "HGFEDCBA">>}
        swapped == p.little # (<<p.width, p.order>> \in
                         {<<2, "BADC">>, <<2, "DCBA">>, <<4, "BADCFEHG">>, <<4, "HGFEDCBA">>})
        word(i) == m[p.address + IF backwards THEN p.width - i ELSE i - 1]
    IN [i \in 1 .. p.width |-> IF swapped THEN 256 * Lo(word(i)) + Hi(word(i)) ELSE word(i)]
Meant(m, p) ==
    LET w == MeantWords(m, p)
        n == Words(p.type)
    IN CASE p.fn = 1 -> Got("bool", m[p.address] # 0)
         [] p.bit # NoBit -> Got("bool", Bit(w[n], p.bit))
         [] p.type = "bool" -> Got("bool", w[1] # 0)
         [] p.type = "bits" -> Got("bits", w[1])
         [] p.type = "string" -> Got("text", TrimText(FlattenSeq([i \in DOMAIN w |-> <<Hi(w[i]), Lo(w[i])>>])))
         [] OTHER -> Got("number", [type |-> p.type, words |-> SubSeq(w, 1, n), offset |-> p.offset,
                                    scale |-> IF p.scale = 0 THEN 1 ELSE p.scale])

\* Points no response can be decoded with: registers too few for the type, and a bit of
\* what is no integer or of a negative one.
TooShort(p) == p.fn = 3 /\ p.width < Words(p.type)
NoSuchBit(m, p) ==
    /\ p.fn = 3 /\ p.bit # NoBit
    /\ p.type \notin Unsigned /\ ~(p.type \in Signed /\ MeantWords(m, p)[1] < 32768)

-----------------------------------------------------------------------------
\* A GB26875 frame reads back as it was built, and its meaning agrees with what it carries.
\* A gateway that begins to read amid other bytes finds every frame, unless the bytes hold
\* two "@" in a row or end in one: then readFrame (main.go:368-385) takes the "@" for the
\* start of the marker and loses frames, but takes no bytes for a frame that was not sent.
GbRoundTrip ==
    sent.format = "gb" /\ ~damaged =>
        /\ decodeGB26875Frame(received) = sent.frame
        /\ applyGB26875Data(sent.frame) # "error"
        /\ LET t == sent.frame.time IN <<decodeBCD(t[1]), decodeBCD(t[6])>> = <<59, 26>>
        /\ \A prefix \in GbPrefixes :
              LET frames == [i \in 1 .. 12 |-> received]
                  taken == GbFrames(prefix \o FlattenSeq(frames))
                  noMarker == \A i \in DOMAIN prefix :
                                 prefix[i] = 64 => i < Len(prefix) /\ prefix[i + 1] # 64
              IN /\ noMarker => taken = frames
                 /\ \A i \in DOMAIN taken : decodeGB26875Frame(taken[i]) \in {Reject, sent.frame}

\* The decoders that check a sum or a CRC take no frame with a changed byte, wherever it is.
\* A Modbus TCP response has none, and ModbusCoilParser does not look at the one of an RTU
\* response (modbus_coil.go:45-62): of those, what a changed byte leaves is refused or
\* still decoded, to points of the function the response then names and never past its end.
DamageIsRejected ==
    damaged =>
        /\ sent.format = "gb" => decodeGB26875Frame(received) = Reject
        /\ sent.format = "rtu" => ~Validate(received)
        /\ sent.format = "hex" => parseHex(received) = Reject
        /\ sent.format \in {"tcp", "rtu"} =>
              LET read == sent.start .. sent.start + sent.count - 1
                  word == [type |-> "bool", width |-> 1, order |-> "", little |-> FALSE,
                           bit |-> NoBit, scale |-> 0, offset |-> 0]
                  points == {PointOf(fn, a, word) : fn \in 1 .. 4, a \in DOMAIN sent.memory}
                  tcp == parseTCP(received, points, sent.start)
                  coils == parseCoils(received, read, sent.start)
              IN /\ tcp = Reject \/ DOMAIN tcp.values \subseteq
                       {p \in points : p.fn = At(received, 7) /\ p.address >= sent.start}
                 /\ coils = Reject \/ DOMAIN coils.values = read

\* A point inside the block that was read has the value of its own registers or coil, in its
\* own type, byte and word order, alone (in TCP) or among other points; a point that sticks out of
\* the block is left out, and a response with none is refused. A point that cannot be
\* decoded fails every response it lies in: one whose registers are too few for its type
\* panics (modbus_tcp.go:155-184), one that asks for a bit that is not there is refused.
PointsReadTheirRegisters ==
    sent.format \in {"tcp", "rtu"} /\ ~damaged =>
        LET m == sent.memory
            parsed(points) == IF sent.format = "tcp" THEN parseTCP(received, points, sent.start)
                              ELSE parseRTU(received, points, sent.start)
            read == sent.start .. sent.start + sent.count - 1
            sticksOut(p) == \/ p.fn # sent.fn \/ p.address < sent.start
                            \/ (p.fn = 3 /\ p.address + p.width - 1 \notin read)
                            \/ (p.fn = 1 /\ p.address >= sent.start + ((sent.count + 7) \div 8) * 8)
            padding(p) == p.fn = 1 /\ p.address \notin read
            sound == {p \in Points(m) : ~sticksOut(p) => ~padding(p) /\ ~TooShort(p) /\ ~NoSuchBit(m, p)}
            inside == {p \in sound : ~sticksOut(p)}
            right(ps) == [ok |-> TRUE, values |-> [p \in ps |-> Meant(m, p)]]
        IN /\ parsed(sound) = IF inside = {} THEN Reject ELSE right(inside)
           /\ sent.format = "tcp" => \A p \in Points(m) :
                 parsed({p}) = CASE sticksOut(p) -> Reject
                                 [] padding(p) -> [ok |-> TRUE, values |-> [q \in {p} |-> Got("bool", FALSE)]]
                                 [] TooShort(p) -> Panic
                                 [] NoSuchBit(m, p) -> Reject
                                 [] OTHER -> right({p})

\* The guess between TCP and RTU framing of an undamaged coil response is right for each.
CoilFrameIsRecognised ==
    sent.format \in {"tcp", "rtu"} /\ sent.fn = 1 /\ ~damaged =>
        LET read == sent.start .. sent.start + sent.count - 1
        IN parseCoils(received, read, sent.start) = [ok |-> TRUE, values |-> [a \in read |-> sent.memory[a] # 0]]

\* A report about several components is an alarm exactly when one of the components sent
\* would raise one, wherever it is in the report.
AnyComponentAlarms ==
    sent.format = "gb" /\ ~damaged /\ sent.words # <<>> =>
        LET alarms(i) == ComponentAlarms(sent.words[i]).FIRE \/ ComponentAlarms(sent.words[i]).DEVICE_FAULT
            frame == decodeGB26875Frame(received)
        IN /\ applyGB26875Data(frame) = "COMPONENT_STATUS"
           /\ messageType(frame.data) = "ALARM_REPORT" <=> \E i \in DOMAIN sent.words : alarms(i)

\* The decoders give what was sent, or refuse, or the exceptions the parts name.
FramesReadRight ==
    /\ GbRoundTrip /\ DamageIsRejected /\ PointsReadTheirRegisters
    /\ CoilFrameIsRecognised /\ AnyComponentAlarms

=============================================================================
