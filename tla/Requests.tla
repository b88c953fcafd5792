------------------------------ MODULE Requests ------------------------------
(***************************************************************************)
(* How get_summary describes a control transfer from its decoded SETUP     *)
(* fields (src/capture.rs): the enums StandardRequest, DescriptorType and  *)
(* StandardFeature with their FromPrimitive conversions, which fall back   *)
(* to the #[default] variant for an unlisted value, the description tables *)
(* indexed by discriminant, StandardRequest::description, and the          *)
(* recipient clause of the summary.                                        *)
(*                                                                         *)
(* A clause is a record of what it shows, not its text: which request,     *)
(* feature or descriptor it names and which numbers it prints.  A number   *)
(* the clause does not print is -1.  The device address that the summary  *)
(* takes from the Endpoint record is printed as is and left out.          *)
(***************************************************************************)
EXTENDS Integers, Sequences, TLC, Bitwise

\* x converted by a FromPrimitive enum whose discriminants are `codes`.
FromCode(codes, x, default) ==
  IF \E n \in DOMAIN codes : codes[n] = x
    THEN CHOOSE n \in DOMAIN codes : codes[n] = x
    ELSE default

\* enum StandardRequest (#[default] Unknown).
StandardRequestCode ==
     ("GetStatus" :> 0) @@ ("ClearFeature" :> 1) @@ ("SetFeature" :> 3)
  @@ ("SetAddress" :> 5) @@ ("GetDescriptor" :> 6) @@ ("SetDescriptor" :> 7)
  @@ ("GetConfiguration" :> 8) @@ ("SetConfiguration" :> 9)
  @@ ("GetInterface" :> 10) @@ ("SetInterface" :> 11) @@ ("SynchFrame" :> 12)
  @@ ("Unknown" :> 13)

\* enum DescriptorType (#[default] Unknown) and DescriptorType::description,
\* which indexes STRINGS by the discriminant.
DescriptorTypeCode ==
     ("Device" :> 1) @@ ("Configuration" :> 2) @@ ("String" :> 3)
  @@ ("Interface" :> 4) @@ ("Endpoint" :> 5) @@ ("DeviceQualifier" :> 6)
  @@ ("OtherSpeedConfiguration" :> 7) @@ ("InterfacePower" :> 8) @@ ("Unknown" :> 9)
DescriptorStrings ==
  <<"invalid", "device", "configuration", "string", "interface", "endpoint",
    "device qualifier", "other speed configuration", "interface power", "unknown">>

\* enum StandardFeature (#[default] Unknown) and StandardFeature::description.
StandardFeatureCode ==
  ("EndpointHalt" :> 0) @@ ("DeviceRemoteWakeup" :> 1) @@ ("TestMode" :> 2)
  @@ ("Unknown" :> 3)
FeatureStrings ==
  <<"endpoint halt", "device remote wakeup", "test mode", "unknown standard feature">>

DescriptorName(x) ==
  DescriptorStrings[DescriptorTypeCode[FromCode(DescriptorTypeCode, x, "Unknown")] + 1]
FeatureName(x) ==
  FeatureStrings[StandardFeatureCode[FromCode(StandardFeatureCode, x, "Unknown")] + 1]

\* Nothing shown beyond the name of the request.
Plain(name) == [request |-> name, feature |-> "", descriptor |-> "",
                number |-> -1, value |-> -1, index |-> -1, language |-> -1]

\* Mutant: the descriptor number taken from the high byte of wValue.
DescriptorClauseHighByte(req, f) ==
  LET type == shiftR(f.value, 8)
  IN [Plain(req) EXCEPT !.descriptor = DescriptorName(type), !.number = type,
                        !.language = IF FromCode(DescriptorTypeCode, type, "Unknown") = "String"
                                        /\ f.index > 0 THEN f.index ELSE -1]

\* The Get/SetDescriptor arm: the type from the high byte of wValue, the
\* descriptor number from the low byte, the language (wIndex) for a
\* String descriptor with a non-zero wIndex.
DescriptorClause(req, f) ==
  LET type == shiftR(f.value, 8)
  IN [Plain(req) EXCEPT !.descriptor = DescriptorName(type), !.number = f.value & 255,
                        !.language = IF FromCode(DescriptorTypeCode, type, "Unknown") = "String"
                                        /\ f.index > 0 THEN f.index ELSE -1]

\* StandardRequest::from(request).description(&fields).
StandardDescription(f) ==
  LET req == FromCode(StandardRequestCode, f.request, "Unknown")
  IN CASE req \in {"ClearFeature", "SetFeature"} ->
            [Plain(req) EXCEPT !.feature = FeatureName(f.value)]
       [] req \in {"SetAddress", "SetConfiguration"} -> [Plain(req) EXCEPT !.value = f.value]
       [] req = "GetInterface" -> [Plain(req) EXCEPT !.index = f.index]
       [] req = "SetInterface" -> [Plain(req) EXCEPT !.index = f.index, !.value = f.value]
       [] req \in {"GetDescriptor", "SetDescriptor"} -> DescriptorClause(req, f)
       [] OTHER -> Plain(req)

\* The action clause of get_summary: the table above for a Standard
\* request, "<Type> request #<req>, index <idx>, value <val>" otherwise.
ActionClause(f) ==
  IF f.request_type = "Standard" THEN StandardDescription(f)
  ELSE [Plain(f.request_type) EXCEPT !.number = f.request, !.index = f.index,
                                     !.value = f.value]

\* The recipient clause of get_summary.
RecipientClause(f) ==
  CASE f.recipient = "Device"    -> [to |-> "device", index |-> -1, direction |-> ""]
    [] f.recipient = "Interface" -> [to |-> "interface", index |-> f.index, direction |-> ""]
    [] f.recipient = "Endpoint"  ->
         [to |-> "endpoint", index |-> f.index & 127,
          direction |-> IF (f.index & 128) = 0 THEN "OUT" ELSE "IN"]
    [] OTHER -> [to |-> "device", index |-> f.index, direction |-> ""]

=============================================================================
