----------------------------- MODULE Connectors -----------------------------
(***************************************************************************)
(* Capture::get_connectors and Capture::transfer_extended (src/capture.rs):*)
(* the per-endpoint swimlane glyphs drawn beside every item of the tree    *)
(* view, computed from the endpoint-state snapshot of the item's transfer  *)
(* index entry.  They change no state, so they are operators over the     *)
(* capture record of Capture; the properties relate what they draw to the  *)
(* transfer log the ingest pipeline builds.                                *)
(*                                                                         *)
(* A glyph is named rather than spelled: Blank ' ', Circle '○', Vertical   *)
(* '│', Cross '┼', Corner '└', Tee '├', Horizontal '─'.  The suffixes are  *)
(* StartTail "─", EndBox "──□ ", TransactionTail "───", PacketTee          *)
(* "    ├──" and PacketCorner "    └──".                                  *)
(***************************************************************************)
EXTENDS Capture

\* Mutant: an Ending state at the next entry is taken as an extension.
TransferExtendedNotIdle(c, endpoint_id, index) ==
  IF index + 1 >= Len(c.transfer_index) THEN FALSE
  ELSE LET state == GetEndpointState(c, index + 1)
       IN endpoint_id < Len(state) /\ state[endpoint_id + 1] # "Idle"

\* Capture::transfer_extended: the endpoint is still Ongoing at the next
\* transfer index entry.
TransferExtended(c, endpoint_id, index) ==
  IF index + 1 >= Len(c.transfer_index) THEN FALSE
  ELSE LET state == GetEndpointState(c, index + 1)
       IN endpoint_id < Len(state) /\ state[endpoint_id + 1] = "Ongoing"

\* The three glyph tables of the loop in get_connectors.
TransferGlyph(state, thru) ==
  CASE state = "Idle"              -> "Blank"
    [] state = "Starting"          -> "Circle"
    [] state = "Ongoing" /\ ~thru  -> "Vertical"
    [] state = "Ongoing" /\ thru   -> "Cross"
    [] state = "Ending"            -> "Corner"

TransactionGlyph(on_endpoint, active, thru, last) ==
  CASE ~on_endpoint /\ ~active /\ ~thru -> "Blank"
    [] ~on_endpoint /\ ~active /\ thru  -> "Horizontal"
    [] ~on_endpoint /\ active /\ ~thru  -> "Vertical"
    [] ~on_endpoint /\ active /\ thru   -> "Cross"
    [] on_endpoint /\ ~last             -> "Tee"
    [] on_endpoint /\ last              -> "Corner"

PacketGlyph(on_endpoint, active, last) ==
  CASE ~on_endpoint /\ ~active -> "Blank"
    [] ~on_endpoint /\ active  -> "Vertical"
    [] on_endpoint /\ ~last    -> "Vertical"
    [] on_endpoint /\ last     -> "Blank"

\* Capture::get_connectors: one glyph per endpoint, then the suffix, as a
\* sequence.  thru is the running OR of the loop: it becomes true at the
\* first Starting/Ending column for a Transfer row, and at the item's own
\* endpoint for a Transaction or Packet row.
GetConnectors(c, item) ==
  LET endpoint_count == Len(c.endpoints)
      entry == c.transfer_index[item.u + 1]
      endpoint_id == entry.endpoint_id
      endpoint_state == GetEndpointState(c, item.u)
      state_length == Len(endpoint_state)
      extended == TransferExtended(c, endpoint_id, item.u)
      ep == c.endpoint_data[endpoint_id + 1]
      last_transaction ==
        /\ item.kind \in {"Transaction", "Packet"}
        /\ LET range == GetIndexRange(ep.transfer_index, Len(ep.transaction_ids),
                                      entry.transfer_id)
           IN item.v = ep.transaction_ids[range.end]
      last_packet ==
        /\ item.kind = "Packet"
        /\ item.w = GetIndexRange(c.transaction_index, Len(c.packets), item.v).end - 1
      last == last_transaction /\ ~extended
      Sets(j) == IF item.kind = "Transfer"
                   THEN endpoint_state[j + 1] \in {"Starting", "Ending"}
                   ELSE j = endpoint_id
      Glyph(i) ==
        LET state == endpoint_state[i + 1]
            thru == \E j \in 0..i : Sets(j)
        IN CASE item.kind = "Transfer"    -> TransferGlyph(state, thru)
             [] item.kind = "Transaction" ->
                  TransactionGlyph(i = endpoint_id, state # "Idle", thru, last)
             [] item.kind = "Packet"      ->
                  PacketGlyph(i = endpoint_id, state # "Idle", last)
      fill == IF item.kind = "Packet" THEN "Blank" ELSE "Horizontal"
      suffix ==
        CASE item.kind = "Transfer" /\ entry.is_start  -> "StartTail"
          [] item.kind = "Transfer" /\ ~entry.is_start -> "EndBox"
          [] item.kind = "Transaction"                 -> "TransactionTail"
          [] item.kind = "Packet" /\ ~last_packet      -> "PacketTee"
          [] item.kind = "Packet" /\ last_packet       -> "PacketCorner"
  IN [i \in 1..state_length |-> Glyph(i - 1)]
       \o [i \in 1..(endpoint_count - state_length) |-> fill]
       \o <<suffix>>

-----------------------------------------------------------------------------
(***************************************************************************)
(* Views used by the properties.                                           *)
(***************************************************************************)
\* The entry that ends the transfer started at entry u, or -1 while it is open.
EndEntryOf(c, u) ==
  LET e == c.transfer_index[u + 1].endpoint_id
      later == {k \in (u + 1)..(Len(c.transfer_index) - 1) :
                  c.transfer_index[k + 1].endpoint_id = e}
  IN IF later = {} THEN -1 ELSE Min(later)

OpensLane(g)     == g \in {"Circle", "Vertical", "Cross"}
ContinuesLane(g) == g \in {"Vertical", "Cross", "Corner"}

-----------------------------------------------------------------------------
(***************************************************************************)
(* Properties.                                                             *)
(***************************************************************************)
(* Closing a lane (transfer_extended, get_connectors' `last`, against      *)
(* transfer_end's top-level item rule): the last transaction of a transfer *)
(* draws its endpoint's lane closed with a Corner exactly when no row of   *)
(* the top level continues that lane, i.e. when the transfer's end entry   *)
(* is hidden from item_index; while the transfer is still open, only when  *)
(* its start is the newest entry of the capture.                           *)
LastTransactionClosesLane ==
  \A u \in StartEntries(capture) :
    LET n == ItemCount(capture, Transfer(u))
        e == capture.transfer_index[u + 1].endpoint_id
        row == GetConnectors(capture, GetItem(capture, Transfer(u), n - 1))
        k == EndEntryOf(capture, u)
    IN n > 0 =>
         (row[e + 1] = "Corner" <=>
            IF k >= 0 THEN ~Contains(capture.item_index, k)
                      ELSE u = Len(capture.transfer_index) - 1)

(* Swimlanes of the collapsed view (get_connectors on consecutive          *)
(* top-level items, from the add_endpoint_state snapshots): a lane that    *)
(* enters a row (Vertical, Cross or Corner) left the row above open        *)
(* (Circle, Vertical or Cross), and a lane left open continues into the    *)
(* next row unless it is a transfer whose end entry came right after its   *)
(* start and is hidden.                                                     *)
TopLevelLanesContinue ==
  LET I == capture.item_index
  IN \A j \in 1..(Len(I) - 1) :
       LET above == GetConnectors(capture, Transfer(I[j]))
           below == GetConnectors(capture, Transfer(I[j + 1]))
           next == I[j] + 1
       IN \A i \in 0..(Len(capture.endpoints) - 1) :
            /\ ContinuesLane(below[i + 1]) => OpensLane(above[i + 1])
            /\ OpensLane(above[i + 1]) =>
                 \/ ContinuesLane(below[i + 1])
                 \/ /\ above[i + 1] = "Circle"
                    /\ next < Len(capture.transfer_index)
                    /\ capture.transfer_index[next + 1].endpoint_id = i
                    /\ ~capture.transfer_index[next + 1].is_start

(* Spec section 8, scenario 7: once MaxPackets consecutive SOF packets     *)
(* have been ingested they form one Framing transfer on endpoint id 1 with *)
(* one transaction per SOF, whose end row draws Corner on that endpoint's  *)
(* lane.  The code (TransactionState::status continues SOF after SOF, and *)
(* EndpointData::status has no DONE row for Framing) says otherwise.       *)
SofGroupingScenario ==
  (Len(capture.packets) = MaxPackets /\ \A i \in DOMAIN capture.packets :
                                          capture.packets[i].pid = "SOF")
    => \E u \in StartEntries(capture) :
         /\ capture.transfer_index[u + 1].endpoint_id = 1
         /\ ItemCount(capture, Transfer(u)) = MaxPackets
         /\ EndEntryOf(capture, u) >= 0
         /\ GetConnectors(capture, Transfer(EndEntryOf(capture, u)))[2] = "Corner"

=============================================================================
