--------------------------- MODULE MCPacketFields ---------------------------
(***************************************************************************)
(* Inputs for PacketFields: packets built with the USB 2.0 wire layout     *)
(* from chosen field values, including the boundary values of every field, *)
(* the code's unit-test vectors, and truncated packets.                   *)
(***************************************************************************)
EXTENDS PacketFields

NoFields == [Unparsed EXCEPT !.kind = "None"]
NotSetup == [NoSetup EXCEPT !.kind = "None"]

\* Token packet: ADDR(7) ENDP(4) CRC5(5), least significant bit first.
EncodeToken(pid, addr, endp, crc) ==
  <<PIDByte[pid], addr + 128 * (endp % 2), endp \div 2 + 8 * crc>>

\* SOF packet: frame number(11) CRC5(5).
EncodeSOF(frame, crc) == <<PIDByte["SOF"], frame % 256, frame \div 256 + 8 * crc>>

\* Data packet: payload then CRC16, low byte first.
EncodeData(pid, payload, crc) ==
  <<PIDByte[pid]>> \o payload \o <<crc % 256, crc \div 256>>

Word(x) == <<x % 256, x \div 256>>

TokenInputs ==
  { [packet |-> EncodeToken(pid, a, e, c),
     sent |-> [fields |-> [Unparsed EXCEPT !.kind = "Token", !.device_address = a,
                           !.endpoint_number = e, !.crc = c],
               setup |-> NotSetup]] :
      pid \in {"SETUP", "IN", "OUT"}, a \in {0, 1, 2, 64, 127},
      e \in {0, 1, 8, 15}, c \in {0, 3, 21, 31} }

SOFInputs ==
  { [packet |-> EncodeSOF(f, c),
     sent |-> [fields |-> [Unparsed EXCEPT !.kind = "SOF", !.frame_number = f, !.crc = c],
               setup |-> NotSetup]] :
      f \in {0, 1, 255, 256, 1024, 1758, 2047}, c \in {0, 3, 31} }

DataInputs ==
  { [packet |-> EncodeData(pid, pl, c),
     sent |-> [fields |-> [Unparsed EXCEPT !.kind = "Data", !.crc = c],
               setup |-> NotSetup]] :
      pid \in {"DATA0", "DATA1"}, pl \in {<<>>, <<1>>, <<64, 1, 1, 0, 0, 0, 0, 0>>},
      c \in {0, 255, 256, 54698} }

\* SETUP-stage DATA0 packets: bmRequestType = direction(1) type(2)
\* recipient(5) from the most significant bit down, then bRequest, wValue,
\* wIndex and wLength, each low byte first.  `action` and `recipient` are
\* what the summary must say of the request, from USB 2.0 chapter 9.
TypeBits == ("Standard" :> 0) @@ ("Class" :> 1) @@ ("Vendor" :> 2) @@ ("Reserved" :> 3)
RecipientName(x) ==
  CASE x = 0 -> "Device" [] x = 1 -> "Interface" [] x = 2 -> "Endpoint"
    [] x = 3 -> "Other"  [] OTHER -> "Reserved"

SetupInput(dir, type, rbits, r, v, i, action, recipient) ==
  [packet |-> EncodeData("DATA0", <<128 * (IF dir = "In" THEN 1 ELSE 0) + 32 * TypeBits[type]
                                      + rbits, r>> \o Word(v) \o Word(i) \o Word(18), 0),
   sent |-> [fields |-> [Unparsed EXCEPT !.kind = "Data"],
             setup |-> [kind |-> "Setup", recipient |-> RecipientName(rbits),
                        request_type |-> type, direction |-> dir, request |-> r,
                        value |-> v, index |-> i, length |-> 18],
             description |-> [action |-> action, recipient |-> recipient]]]

ToDevice == [to |-> "device", index |-> -1, direction |-> ""]
ToIndex(to, i) == [to |-> to, index |-> i, direction |-> ""]
ToEndpoint(n, dir) == [to |-> "endpoint", index |-> n, direction |-> dir]

\* Table 9-5: descriptor types; Table 9-6: feature selectors.
USBDescriptor(t) ==
  CASE t = 1 -> "device" [] t = 2 -> "configuration" [] t = 3 -> "string"
    [] t = 4 -> "interface" [] t = 5 -> "endpoint" [] t = 6 -> "device qualifier"
    [] t = 7 -> "other speed configuration" [] t = 8 -> "interface power"
    [] OTHER -> "unknown"
USBFeature(x) ==
  CASE x = 0 -> "endpoint halt" [] x = 1 -> "device remote wakeup"
    [] x = 2 -> "test mode" [] OTHER -> "unknown standard feature"

\* GET_DESCRIPTOR / SET_DESCRIPTOR: type and number in wValue, language ID
\* in wIndex (string descriptors only).
DescriptorInputs ==
  { SetupInput(dir, "Standard", 0, r, 256 * t + n, lang,
               [Plain(IF r = 6 THEN "GetDescriptor" ELSE "SetDescriptor") EXCEPT
                  !.descriptor = USBDescriptor(t), !.number = n,
                  !.language = IF t = 3 /\ lang > 0 THEN lang ELSE -1],
               ToDevice) :
      <<dir, r>> \in {<<"In", 6>>, <<"Out", 7>>}, t \in {0, 1, 2, 3, 8, 9, 255},
      n \in {0, 2, 255}, lang \in {0, 1033} }

\* CLEAR_FEATURE / SET_FEATURE to a device, an interface or an endpoint
\* (number and direction in wIndex).
FeatureInputs ==
  { SetupInput("Out", "Standard", rcpt[1], r, sel, rcpt[2],
               [Plain(IF r = 1 THEN "ClearFeature" ELSE "SetFeature") EXCEPT
                  !.feature = USBFeature(sel)], rcpt[3]) :
      r \in {1, 3}, sel \in {0, 1, 2, 3, 256},
      rcpt \in {<<0, 0, ToDevice>>, <<1, 3, ToIndex("interface", 3)>>,
                <<2, 1, ToEndpoint(1, "OUT")>>, <<2, 129, ToEndpoint(1, "IN")>>,
                <<2, 15, ToEndpoint(15, "OUT")>>, <<2, 143, ToEndpoint(15, "IN")>>} }

\* The other standard requests, and codes USB does not define.
OtherStandardInputs ==
  { SetupInput("In", "Standard", 0, 0, 0, 0, Plain("GetStatus"), ToDevice),
    SetupInput("Out", "Standard", 0, 5, 7, 0, [Plain("SetAddress") EXCEPT !.value = 7], ToDevice),
    SetupInput("In", "Standard", 0, 8, 0, 0, Plain("GetConfiguration"), ToDevice),
    SetupInput("Out", "Standard", 0, 9, 1, 0, [Plain("SetConfiguration") EXCEPT !.value = 1], ToDevice),
    SetupInput("In", "Standard", 1, 10, 0, 2, [Plain("GetInterface") EXCEPT !.index = 2],
               ToIndex("interface", 2)),
    SetupInput("Out", "Standard", 1, 11, 1, 2,
               [Plain("SetInterface") EXCEPT !.index = 2, !.value = 1], ToIndex("interface", 2)),
    SetupInput("In", "Standard", 2, 12, 0, 130, Plain("SynchFrame"), ToEndpoint(2, "IN")) }
  \cup { SetupInput("In", "Standard", 0, r, 0, 0, Plain("Unknown"), ToDevice) :
           r \in {2, 4, 13, 255} }

\* Class, vendor and reserved request types, to every kind of recipient.
OtherTypeInputs ==
  { SetupInput(dir, type, rbits, r, v, i,
               [Plain(type) EXCEPT !.number = r, !.index = i, !.value = v],
               CASE rbits = 0 -> ToDevice [] rbits = 1 -> ToIndex("interface", i)
                 [] rbits = 2 -> ToEndpoint(i % 128, IF i >= 128 THEN "IN" ELSE "OUT")
                 [] OTHER -> ToIndex("device", i)) :
      dir \in {"In", "Out"}, type \in {"Class", "Vendor", "Reserved"},
      rbits \in {0, 1, 2, 3, 31}, r \in {1, 255}, v \in {0, 65535}, i \in {0, 129} }

SetupInputs == DescriptorInputs \cup FeatureInputs \cup OtherStandardInputs \cup OtherTypeInputs

\* Packets shorter than their layout, and PIDs from_packet does not decode.
ShortInputs ==
  { [packet |-> p, sent |-> [fields |-> NoFields, setup |-> NotSetup]] :
      p \in {<<PIDByte["SOF"]>>, <<PIDByte["SOF"], 222>>, <<PIDByte["IN"]>>, <<PIDByte["SETUP"], 2>>,
             <<PIDByte["DATA0"]>>, <<PIDByte["DATA1"], 1>>, <<PIDByte["ACK"]>>, <<PIDByte["DATA2"], 0, 0>>,
             <<0>>, <<1, 2, 3>>} }

AllInputs == TokenInputs \cup SOFInputs \cup DataInputs \cup SetupInputs

=============================================================================
