-------------------------------- MODULE AdbProto --------------------------------
(* The protobuf reader of what an ADB server reports (adb/_internal/proto.py): *)
(* its device inventory and its own status. A byte carries GroupBits bits of  *)
(* a varint (7 in the build), a varint has at most MaxBytes bytes (10), the   *)
(* last of them with a single bit (so 64 in all). The server that writes the  *)
(* messages, and may be newer than this reader, is external.                  *)
EXTENDS Numerals, SequencesExt

CONSTANTS GroupBits, MaxBytes,
          Fixed,      \* lengths of the fixed-width fields, by wire type 1 and 5
          NotUtf8,    \* a byte that is not UTF-8
          Devices,    \* devices a server may report
          MaxDevices, \* and how many of them at once
          Statuses,   \* its own status
          Unknown     \* fields this reader does not know: <<number, wire type, data>>

Continued == Power(2, GroupBits)
SignBit == Power(Continued, MaxBytes - 1)  \* what the highest bit of a varint stands for
Varints == 0..2 * SignBit - 1

VARIABLES sent,     \* <<>>, or what the server encoded: [kind, value, odd, bytes]
          arrived,  \* how many of the bytes are in the payload
          read      \* <<>>, or what the reader made of it
protoVars == <<sent, arrived, read>>

ProtoInit == sent = <<>> /\ arrived = 0 /\ read = <<>>
------------------------------------------------------------------------------
(* A reading of the payload from an offset gives a value and the next offset; *)
(* at = 0 is AdbProtocolError.                                                *)
Failed == [at |-> 0, value |-> 0]
At(next, value) == [at |-> next, value |-> value]

(* The byte in the last place has one bit left.                               *)
Overflows(bytes, n) == n = MaxBytes /\ bytes[n] > 1

(* The varint at the head of the bytes has this many bytes.                   *)
VarintLength(bytes) ==
    Min({i \in DOMAIN bytes : i <= MaxBytes /\ bytes[i] < Continued} \cup {MaxBytes + 1})
VarintOf(bytes, o, n) ==
    IF n > MaxBytes \/ Overflows(bytes, n) THEN Failed
    ELSE At(o + n, Value(Continued, [i \in 1..n |-> bytes[n + 1 - i] % Continued]))
Varint(bytes, o) == VarintOf(bytes, o, VarintLength(bytes))
ReadVarint(p, o) == Varint(SubSeq(p, o, Len(p)), o)

(* read_bytes and _skip_fixed.                                                *)
ReadBytes(p, o, size) ==
    IF o + size - 1 > Len(p) THEN Failed ELSE At(o + size, SubSeq(p, o, o + size - 1))
ReadDelimited(p, size) == IF size.at = 0 THEN Failed ELSE ReadBytes(p, size.at, size.value)

(* The value of a field of this wire type; the groups and the rest fail.      *)
ReadValue(p, o, wire) ==
    CASE wire = 0 -> ReadVarint(p, o)
      [] wire \in {1, 5} -> ReadBytes(p, o, Fixed[wire])
      [] wire = 2 -> ReadDelimited(p, ReadVarint(p, o))
      [] OTHER -> Failed

(* A payload as its fields <<number, wire type, value>>, up to the first that *)
(* cannot be read: <<0, 0, 0>>, for no field has the number 0. At first       *)
(* nothing is read; every field has at least a byte.                          *)
Unreadable == At(0, <<0, 0, 0>>)
FieldOf(key, value) ==
    IF key.at = 0 \/ key.value \div 8 = 0 \/ value.at = 0 THEN Unreadable
    ELSE At(value.at, <<key.value \div 8, key.value % 8, value.value>>)
ReadField(p, key) == FieldOf(key, ReadValue(p, key.at, key.value % 8))
Onwards(f, r) == [at |-> f.at, fields |-> Append(r.fields, f.value)]
Further(p, r) == IF r.at \in {0, Len(p) + 1} THEN r ELSE Onwards(ReadField(p, ReadVarint(p, r.at)), r)
FieldsOf(p) ==
    LET read_up_to[k \in 0..Len(p)] ==
            IF k = 0 THEN [at |-> 1, fields |-> <<>>] ELSE Further(p, read_up_to[k - 1])
    IN  read_up_to[Len(p)].fields
------------------------------------------------------------------------------
(* The tables of the known fields; a "flag" may be absent. Enumerations are   *)
(* open: a number without a name is kept. Of the fields that are decoded      *)
(* alike, one stands for all.                                                 *)
DeviceFields == [serial |-> <<1, "string">>, state |-> <<2, "enum">>,
                 connection_type |-> <<7, "enum">>, negotiated_speed |-> <<8, "int64">>,
                 transport_id |-> <<10, "id">>]
StatusFields == [usb_backend |-> <<1, "enum">>, usb_backend_forced |-> <<2, "bool">>,
                 version |-> <<5, "string">>, burst_mode |-> <<11, "flag">>]
Default(kind) ==
    CASE kind \in {"string", "flag"} -> <<>> [] kind = "bool" -> FALSE [] OTHER -> 0

DecodeInt64(raw) == IF raw >= SignBit THEN raw - 2 * SignBit ELSE raw

WireOf(kind) == IF kind = "string" THEN 2 ELSE 0

Decoded(kind, raw) ==
    CASE kind \in {"int64", "id"} -> DecodeInt64(raw)
      [] kind = "bool" -> raw # 0
      [] kind = "flag" -> <<raw # 0>>
      [] OTHER -> raw

(* The kind of a field of a message, "none" if it is skipped.                 *)
KindOf(fields, number) ==
    IF \E name \in DOMAIN fields : fields[name][1] = number
    THEN fields[CHOOSE name \in DOMAIN fields : fields[name][1] = number][2] ELSE "none"

(* What reading one field raises: AdbTransportId refuses negative numbers.    *)
ErrorOf(kind, f) ==
    IF f[1] = 0 THEN "AdbProtocolError"
    ELSE IF kind = "none" THEN "none"
    ELSE IF f[2] # WireOf(kind) THEN "AdbProtocolError"
    ELSE IF kind = "string" /\ Contains(f[3], NotUtf8) THEN "AdbProtocolError"
    ELSE IF kind = "id" /\ DecodeInt64(f[3]) < 0 THEN "ValueError"
    ELSE "none"

Message(error, value) == [error |-> error, value |-> value]

(* The last field of a number wins; the first error ends the reading.         *)
LastOf(field, all) ==
    LET those == {i \in DOMAIN all : all[i][1] = field[1]} IN
    IF those = {} THEN Default(field[2]) ELSE Decoded(field[2], all[Max(those)][3])
ValuesOf(fields, all) == [name \in DOMAIN fields |-> LastOf(fields[name], all)]
FirstError(errors) ==
    LET those == {i \in DOMAIN errors : errors[i] # "none"} IN
    IF those = {} THEN "none" ELSE errors[Min(those)]
ErrorIn(fields, all) ==
    FirstError([i \in DOMAIN all |-> ErrorOf(KindOf(fields, all[i][1]), all[i])])
MessageOf(fields, all, error) ==
    Message(error, IF error = "none" THEN ValuesOf(fields, all) ELSE <<>>)
DecodeFields(fields, all) == MessageOf(fields, all, ErrorIn(fields, all))
DecodeMessage(fields, p) == DecodeFields(fields, FieldsOf(p))

(* parse_devices_snapshot.                                                    *)
Row(f) ==
    IF f[1] = 0 \/ (f[1] = 1 /\ f[2] # 2) THEN Message("AdbProtocolError", <<>>)
    ELSE IF f[1] = 1 THEN DecodeMessage(DeviceFields, f[3])
    ELSE Message("none", <<>>)
Collected(rows, all, error) ==
    Message(error, IF error = "none"
                   THEN FlattenSeq([i \in DOMAIN all |-> IF all[i][1] = 1 THEN <<rows[i].value>> ELSE <<>>])
                   ELSE <<>>)
RowsOf(all) == [i \in DOMAIN all |-> Row(all[i])]
DevicesOf(rows, all) == Collected(rows, all, FirstError([i \in DOMAIN all |-> rows[i].error]))
DecodeDevices(p) == LET all == FieldsOf(p) IN DevicesOf(RowsOf(all), all)
------------------------------------------------------------------------------
(* The server: proto3 leaves out what has its default, and writes a negative  *)
(* number as the unsigned number of as many bits.                             *)
SizeOf(raw) == CHOOSE k \in 1..MaxBytes : /\ raw < Power(Continued, k)
                                          /\ k > 1 => raw >= Power(Continued, k - 1)
EncodedIn(size, digits) ==
    [i \in 1..size |-> digits[size + 1 - i] + (IF i < size THEN Continued ELSE 0)]
EncodedRaw(raw) == EncodedIn(SizeOf(raw), Digits(Continued, SizeOf(raw), raw))
Encoded(n) == EncodedRaw(IF n < 0 THEN n + 2 * SignBit ELSE n)
Field(number, wire, bytes) == Encoded(number * 8 + wire) \o bytes
Sized(bytes) == Encoded(Len(bytes)) \o bytes
Delimited(number, bytes) == Field(number, 2, Sized(bytes))
EncodeField(f, value) ==
    IF value = Default(f[2]) THEN <<>>
    ELSE IF f[2] = "string" THEN Delimited(f[1], value)
    ELSE Field(f[1], 0, Encoded(CASE f[2] = "bool" -> 1
                                 [] f[2] = "flag" -> IF value[1] THEN 1 ELSE 0
                                 [] OTHER -> value))
EncodeDevice(d) ==
    EncodeField(DeviceFields.serial, d.serial) \o EncodeField(DeviceFields.state, d.state)
    \o EncodeField(DeviceFields.connection_type, d.connection_type)
    \o EncodeField(DeviceFields.negotiated_speed, d.negotiated_speed)
    \o EncodeField(DeviceFields.transport_id, d.transport_id)
EncodeStatus(s) ==
    EncodeField(StatusFields.usb_backend, s.usb_backend)
    \o EncodeField(StatusFields.usb_backend_forced, s.usb_backend_forced)
    \o EncodeField(StatusFields.version, s.version)
    \o EncodeField(StatusFields.burst_mode, s.burst_mode)

(* A field of another version, before or after what is known.                 *)
EncodeOdd(odd) == Field(odd[1], odd[2], IF odd[2] = 2 THEN Sized(odd[3]) ELSE odd[3])
Surrounded(bytes, odd, first) ==
    IF odd = <<>> THEN bytes
    ELSE IF first THEN EncodeOdd(odd) \o bytes
    ELSE bytes \o EncodeOdd(odd)

(* What a field of wire type 0 may be: any varint, the shortest or not.       *)
IsVarint(bytes) ==
    /\ bytes \in Seq(Nat) /\ Len(bytes) \in 1..MaxBytes /\ ~Overflows(bytes, Len(bytes))
    /\ \A i \in DOMAIN bytes : bytes[i] < Continued <=> i = Len(bytes)

(* What is so of any server: numbers have 64 bits, texts and messages a       *)
(* length that can be written, a field that is not known its own number.      *)
Number64 == -SignBit..SignBit - 1
Texts == {text \in Seq(Nat) : Len(text) \in Varints}
Numbers(fields) == {fields[name][1] : name \in DOMAIN fields}

ASSUME ProtoAssumption ==
    /\ GroupBits \in Nat \ {0, 1, 2} /\ MaxBytes \in Nat \ {0, 1}
    /\ Fixed[1] \in Nat \ {0} /\ Fixed[5] \in Nat \ {0}
    /\ \A n \in Numbers(DeviceFields) \cup Numbers(StatusFields) : 8 * n + 7 \in Varints
    /\ MaxDevices \in Nat
    /\ Devices \subseteq [serial : Texts, state : Varints, connection_type : Varints,
                          negotiated_speed : Number64, transport_id : Number64]
    /\ Statuses \subseteq [usb_backend : Varints, usb_backend_forced : BOOLEAN, version : Texts,
                           burst_mode : {<<>>, <<FALSE>>, <<TRUE>>}]

ASSUME UnknownAssumption ==
    /\ \A odd \in Unknown :
        /\ odd[1] \in Nat \ (Numbers(DeviceFields) \cup Numbers(StatusFields) \cup {0, 1})
        /\ odd[2] \in 0..7 /\ 8 * odd[1] + odd[2] \in Varints
        /\ odd[3] \in Seq(Nat)
        /\ odd[2] = 0 => IsVarint(odd[3])
        /\ odd[2] \in {1, 5} => Len(odd[3]) = Fixed[odd[2]]
        /\ odd[2] = 2 => Len(odd[3]) \in Varints
    /\ \A d \in Devices, odd \in Unknown \cup {<<>>}, first \in BOOLEAN :
        Len(Surrounded(EncodeDevice(d), odd, first)) \in Varints

SendDevices ==
    /\ sent = <<>>
    /\ \E n \in 0..MaxDevices : \E devices \in [1..n -> Devices], odd \in Unknown \cup {<<>>}, first \in BOOLEAN :
         LET rows == [i \in 1..n |-> Delimited(1, Surrounded(EncodeDevice(devices[i]), odd, first))]
         IN  sent' = <<[kind |-> "devices", value |-> devices, odd |-> odd,
                        bytes |-> Surrounded(FlattenSeq(rows), odd, first)]>>
    /\ UNCHANGED <<arrived, read>>

SendStatus ==
    /\ sent = <<>>
    /\ \E status \in Statuses, odd \in Unknown \cup {<<>>}, first \in BOOLEAN :
         sent' = <<[kind |-> "status", value |-> status, odd |-> odd,
                    bytes |-> Surrounded(EncodeStatus(status), odd, first)]>>
    /\ UNCHANGED <<arrived, read>>

(* The payload of the frame, whole or, from a server that framed it wrongly,  *)
(* a part of it.                                                              *)
Read ==
    /\ sent # <<>> /\ read = <<>>
    /\ arrived' \in 0..Len(sent[1].bytes)
    /\ LET payload == SubSeq(sent[1].bytes, 1, arrived') IN
       read' = <<IF sent[1].kind = "devices" THEN DecodeDevices(payload)
                 ELSE DecodeMessage(StatusFields, payload)>>
    /\ UNCHANGED sent

ProtoNext == SendDevices \/ SendStatus \/ Read
------------------------------------------------------------------------------
(* What a server of this or of a newer version reports is read exactly, or    *)
(* not at all because a field is of a wire type that cannot be skipped, a     *)
(* text is not UTF-8 or an identity is negative; of a part of an inventory    *)
(* nothing is read but devices in their order (proto.py 33-90, 112-185).      *)
Readable(value) ==
    IF sent[1].kind = "status" THEN ~Contains(value.version, NotUtf8)
    ELSE \A i \in DOMAIN value : ~Contains(value[i].serial, NotUtf8) /\ value[i].transport_id >= 0
ReportExact ==
    read # <<>> =>
        LET m == sent[1]
            known == m.odd = <<>> \/ m.odd[2] \in {0, 1, 2, 5}
        IN  /\ arrived = Len(m.bytes) =>
                 (read[1] = Message("none", m.value) <=> known /\ Readable(m.value))
            /\ m.kind = "devices" /\ read[1].error = "none" => IsPrefix(read[1].value, m.value)
==============================================================================
