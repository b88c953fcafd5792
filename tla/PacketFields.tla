---------------------------- MODULE PacketFields ----------------------------
(***************************************************************************)
(* The packed formats of src/capture.rs at the byte and bit level: PID     *)
(* decoding (PID::from), PacketFields::from_packet with the SOFFields and  *)
(* TokenFields bitfields, and SetupFields::from_data_packet with the       *)
(* RequestTypeFields bitfield.  Capture abstracts a packet to its PID and  *)
(* token fields; this module keeps the bytes.                             *)
(*                                                                         *)
(* The parsers are pure functions.  One behaviour of this specification   *)
(* takes one packet the bus can deliver (chosen in Init together with the *)
(* values a device encoded into it) and runs each parser on it once, as   *)
(* transaction_start (from_packet) and get_summary (from_data_packet) do.  *)
(* A Rust panic (an index out of bounds, a usize underflow) is the result  *)
(* Panic.  Sequence element i of a packet, 0-based as in the code, is     *)
(* packet[i + 1].                                                          *)
(***************************************************************************)
EXTENDS Integers, Sequences, TLC, Bitwise, Requests

CONSTANT Inputs  \* Set of [packet, sent] records: bytes and what they encode.

VARIABLES
  packet,  \* The packet bytes.
  sent,    \* The field values the sender encoded into them.
  fields,  \* Result of PacketFields::from_packet, or Unparsed.
  setup,   \* Result of SetupFields::from_data_packet, or Unparsed.
  description  \* The action and recipient clauses get_summary builds from setup.

vars == <<packet, sent, fields, setup, description>>

Byte == 0..255

\* The discriminants of enum PID; any other byte is PID::Malformed.
PIDByte == ("RSVD" :> 240) @@ ("OUT" :> 225) @@ ("ACK" :> 210) @@ ("DATA0" :> 195)
        @@ ("PING" :> 180) @@ ("SOF" :> 165) @@ ("NYET" :> 150) @@ ("DATA2" :> 135)
        @@ ("SPLIT" :> 120) @@ ("IN" :> 105) @@ ("NAK" :> 90) @@ ("DATA1" :> 75)
        @@ ("ERR" :> 60) @@ ("SETUP" :> 45) @@ ("STALL" :> 30) @@ ("MDATA" :> 15)

\* PID::from (num_enum FromPrimitive with #[default] Malformed).
PIDFrom(b) ==
  IF \E n \in DOMAIN PIDByte : PIDByte[n] = b
    THEN CHOOSE n \in DOMAIN PIDByte : PIDByte[n] = b
    ELSE "Malformed"

\* u16::from_le_bytes
LE16(lo, hi) == lo + 256 * hi

\* Mutant: the getter shifts but does not mask.
BitRangeUnmasked(w, hi, lo) == shiftR(w, lo)

\* The getter the bitfield! macro generates for bits hi..lo of a word.
BitRange(w, hi, lo) == shiftR(w, lo) & (2 ^ (hi - lo + 1) - 1)

Unparsed == [kind |-> "Unparsed", frame_number |-> 0, device_address |-> 0,
             endpoint_number |-> 0, crc |-> 0]
Panic    == [Unparsed EXCEPT !.kind = "Panic"]

\* SOFFields: frame_number 10..0, crc 15..11.
SOFFields(w) ==
  [Unparsed EXCEPT !.kind = "SOF", !.frame_number = BitRange(w, 10, 0),
                   !.crc = BitRange(w, 15, 11)]

\* Mutant: endpoint_number read one bit too high.
TokenFieldsEndpointHigh(w) ==
  [Unparsed EXCEPT !.kind = "Token", !.device_address = BitRange(w, 6, 0),
                   !.endpoint_number = BitRange(w, 11, 8),
                   !.crc = BitRange(w, 15, 11)]

\* TokenFields: device_address 6..0, endpoint_number 10..7, crc 15..11.
TokenFields(w) ==
  [Unparsed EXCEPT !.kind = "Token", !.device_address = BitRange(w, 6, 0),
                   !.endpoint_number = BitRange(w, 10, 7),
                   !.crc = BitRange(w, 15, 11)]

\* PacketFields::from_packet.  packet[0] panics on an empty packet,
\* packet[1], packet[2] on a short SOF or token, and end - 2 underflows
\* (debug) or indexes out of bounds (release) on a 1-byte DATA0/DATA1.
FromPacket(p) ==
  LET end == Len(p)
      At(i) == p[i + 1]
  IN IF end = 0 THEN Panic
     ELSE CASE PIDFrom(At(0)) = "SOF" ->
                 IF end < 3 THEN Panic ELSE SOFFields(LE16(At(1), At(2)))
            [] PIDFrom(At(0)) \in {"SETUP", "IN", "OUT"} ->
                 IF end < 3 THEN Panic ELSE TokenFields(LE16(At(1), At(2)))
            [] PIDFrom(At(0)) \in {"DATA0", "DATA1"} ->
                 IF end < 2 THEN Panic
                 ELSE [Unparsed EXCEPT !.kind = "Data",
                                       !.crc = LE16(At(end - 2), At(end - 1))]
            [] OTHER -> [Unparsed EXCEPT !.kind = "None"]

\* Recipient::from, RequestType::from and Direction::from (FromPrimitive).
RecipientFrom(x) ==
  CASE x = 0 -> "Device" [] x = 1 -> "Interface" [] x = 2 -> "Endpoint"
    [] x = 3 -> "Other"  [] OTHER -> "Reserved"
RequestTypeFrom(x) ==
  CASE x = 0 -> "Standard" [] x = 1 -> "Class" [] x = 2 -> "Vendor"
    [] OTHER -> "Reserved"
DirectionFrom(x) == IF x = 1 THEN "In" ELSE "Out"

NoDescription == [action |-> Plain(""), recipient |-> [to |-> "", index |-> -1, direction |-> ""]]

NoSetup == [kind |-> "Unparsed", recipient |-> "Reserved", request_type |-> "Reserved",
            direction |-> "Out", request |-> 0, value |-> 0, index |-> 0, length |-> 0]

\* Mutant: the request type read from bits 5..4.
SetupFromDataPacketTypeLow(p) ==
  LET At(i) == p[i + 1]
  IN IF Len(p) < 9 THEN [NoSetup EXCEPT !.kind = "Panic"]
     ELSE [kind |-> "Setup",
           recipient |-> RecipientFrom(BitRange(At(1), 4, 0)),
           request_type |-> RequestTypeFrom(BitRange(At(1), 5, 4)),
           direction |-> DirectionFrom(BitRange(At(1), 7, 7)),
           request |-> At(2),
           value |-> LE16(At(3), At(4)),
           index |-> LE16(At(5), At(6)),
           length |-> LE16(At(7), At(8))]

\* SetupFields::from_data_packet with the RequestTypeFields bitfield
\* (recipient 4..0, type 6..5, direction 7..7); packet[8] panics on a
\* data packet shorter than nine bytes.
SetupFromDataPacket(p) ==
  LET At(i) == p[i + 1]
  IN IF Len(p) < 9 THEN [NoSetup EXCEPT !.kind = "Panic"]
     ELSE [kind |-> "Setup",
           recipient |-> RecipientFrom(BitRange(At(1), 4, 0)),
           request_type |-> RequestTypeFrom(BitRange(At(1), 6, 5)),
           direction |-> DirectionFrom(BitRange(At(1), 7, 7)),
           request |-> At(2),
           value |-> LE16(At(3), At(4)),
           index |-> LE16(At(5), At(6)),
           length |-> LE16(At(7), At(8))]

-----------------------------------------------------------------------------
(***************************************************************************)
(* Properties.  sent.fields and sent.setup are what a correct decoder must *)
(* return for the bytes; the MC module builds the bytes from them with the *)
(* USB 2.0 wire layout (section 8.3-8.4, fields sent LSB first), which is  *)
(* independent of the bitfield declarations in the code.                   *)
(***************************************************************************)
TypeOK ==
  /\ packet \in Seq(Byte)
  /\ fields \in [kind : {"Unparsed", "Panic", "SOF", "Token", "Data", "None"},
                 frame_number : 0..2047, device_address : 0..127,
                 endpoint_number : 0..15, crc : 0..65535]
  /\ setup \in [kind : {"Unparsed", "Panic", "Setup"},
                recipient : {"Device", "Interface", "Endpoint", "Other", "Reserved"},
                request_type : {"Standard", "Class", "Vendor", "Reserved"},
                direction : {"In", "Out"}, request : Byte,
                value : 0..65535, index : 0..65535, length : 0..65535]

(* PacketFields::from_packet with SOFFields/TokenFields and the            *)
(* little-endian reads: every well-formed SOF, token or data packet        *)
(* (including the vectors of the code's unit tests test_parse_sof,         *)
(* test_parse_setup, test_parse_in and test_parse_data) decodes to exactly *)
(* the frame number, device address, endpoint number and CRC that were    *)
(* encoded into it.                                                        *)
FieldsRoundTrip ==
  sent.fields.kind \in {"SOF", "Token", "Data"} /\ fields # Unparsed
    => fields = sent.fields

(* SetupFields::from_data_packet with RequestTypeFields: the DATA0 packet  *)
(* of a SETUP stage decodes to the direction, type, recipient, request,   *)
(* value, index and length encoded into it; get_summary builds the        *)
(* control-transfer description from these.                                *)
SetupRoundTrip ==
  sent.setup.kind = "Setup" /\ setup # NoSetup => setup = sent.setup

(* get_summary's description of a control transfer (StandardRequest::     *)
(* description with the DescriptorType and StandardFeature tables, the     *)
(* non-standard clause and the recipient clause) names the request,        *)
(* descriptor type and number, language, feature, interface or endpoint    *)
(* and direction that the host encoded into the SETUP data, as USB 2.0     *)
(* chapter 9 defines them, for unlisted codes too.                         *)
DescriptionRoundTrip ==
  sent.setup.kind = "Setup" /\ setup.kind = "Setup" => description = sent.description

(* Spec sections 3 and 7: a packet is any byte sequence of length >= 1 and *)
(* the decoder absorbs every input without error.  from_packet, called by  *)
(* transaction_start for every token and every packet that is INVALID in   *)
(* the transaction FSM, indexes the packet without checking its length.    *)
ParseNeverPanics ==
  Len(packet) >= 1 => fields.kind # "Panic"

-----------------------------------------------------------------------------
Init ==
  /\ \E input \in Inputs : packet = input.packet /\ sent = input.sent
  /\ fields = Unparsed
  /\ setup = NoSetup
  /\ description = NoDescription

\* transaction_start hands the packet to PacketFields::from_packet.
ParsePacket ==
  /\ fields = Unparsed
  /\ fields' = FromPacket(packet)
  /\ UNCHANGED <<packet, sent, setup, description>>

\* get_summary hands the packet after a control transfer's first packet to
\* SetupFields::from_data_packet and describes the request from the
\* fields, unless the decoding panicked.
ParseSetup ==
  /\ setup = NoSetup
  /\ setup' = SetupFromDataPacket(packet)
  /\ description' = IF setup'.kind = "Setup"
                      THEN [action |-> ActionClause(setup'),
                            recipient |-> RecipientClause(setup')]
                      ELSE NoDescription
  /\ UNCHANGED <<packet, sent, fields>>

Next == ParsePacket \/ ParseSetup

Spec == Init /\ [][Next]_vars

=============================================================================
