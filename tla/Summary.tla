------------------------------ MODULE Summary ------------------------------
(***************************************************************************)
(* Capture::get_summary with get_transaction_stats and get_packet_pid      *)
(* (src/capture.rs), as operators over the capture record of Capture.     *)
(* The text is abstracted to which template get_summary fills and the     *)
(* numbers it puts in; what the properties are about is which packets it   *)
(* reads and the arithmetic on them: the usize payload size len - 3, the  *)
(* packet taken as SETUP data and the data_size of a control transfer.     *)
(* A read that panics in the code (unwrap of a missing index entry, an    *)
(* out-of-bounds byte) makes the summary's `panics` TRUE.                  *)
(***************************************************************************)
EXTENDS Capture

\* Capture::get_packet: the packet whose bytes packet_index[index] up to
\* the next offset (or packet_data.len()) delimit.
GetPacket(c, index) == c.packets[index + 1]

\* Capture::get_packet_pid
GetPacketPid(c, index) == GetPacket(c, index).pid

NoPayload == [some |-> FALSE, size |-> 0]

\* Capture::get_transaction_stats.  len - 3 is a usize subtraction: a
\* negative size stands for its underflow (a panic in a debug build, a
\* wrap to near 2^64 in a release build).
GetTransactionStats(c, index) ==
  LET range == GetIndexRange(c.transaction_index, Len(c.packets), index)
      packet_count == range.end - range.start
      pid == GetPacketPid(c, range.start)
      data_packet == GetPacket(c, range.start + 1)
  IN [range |-> range,
      payload |-> IF /\ pid \in {"IN", "OUT"} /\ packet_count >= 2
                     /\ data_packet.pid \in {"DATA0", "DATA1"}
                    THEN [some |-> TRUE, size |-> data_packet.len - 3]
                    ELSE NoPayload]

\* The data_size of a control transfer: the payloads of the transactions
\* whose first PID matches the SETUP direction.
ControlDataSize(c, transaction_ids, direction) ==
  LET Size(id) ==
        LET stats == GetTransactionStats(c, id)
        IN IF /\ stats.payload.some
              /\ <<direction, GetPacketPid(c, stats.range.start)>>
                   \in {<<"In", "IN">>, <<"Out", "OUT">>}
             THEN stats.payload.size ELSE 0
  IN SumFunction([j \in DOMAIN transaction_ids |-> Size(transaction_ids[j])])

\* Capture::get_summary, reduced to the template and its numbers.
GetSummary(c, item) ==
  CASE item.kind = "Packet" ->
         LET packet == GetPacket(c, item.w)
         IN [form |-> PacketLayout(packet), count |-> 0,
             size |-> IF PacketLayout(packet) = "Data" THEN packet.len - 3 ELSE 0,
             data_packet |-> -1, panics |-> FALSE]
    [] item.kind = "Transaction" ->
         LET stats == GetTransactionStats(c, item.v)
             pid == GetPacketPid(c, stats.range.start)
         IN [form |-> CASE pid = "SOF"          -> "SOFPackets"
                        [] ~stats.payload.some -> "Transaction"
                        [] OTHER               -> "TransactionWithData",
             count |-> RangeLen(stats.range), size |-> stats.payload.size,
             data_packet |-> -1, panics |-> FALSE]
    [] item.kind = "Transfer" ->
         LET entry == c.transfer_index[item.u + 1]
             ep == c.endpoint_data[entry.endpoint_id + 1]
             range == ItemRange(c, item)
             transaction_ids == SubSeq(ep.transaction_ids, range.start + 1, range.end)
             data_packet_id == c.transaction_index[transaction_ids[1] + 1] + 1
             readable == /\ data_packet_id < Len(c.packets)
                         /\ GetPacket(c, data_packet_id).len >= 9
         IN CASE ~entry.is_start ->
                   [form |-> "End", count |-> 0, size |-> 0, data_packet |-> -1,
                    panics |-> FALSE]
              [] ep.ep_type = "Control" ->
                   [form |-> "Control", count |-> RangeLen(range),
                    size |-> IF readable
                               THEN ControlDataSize(c, transaction_ids,
                                                    GetPacket(c, data_packet_id).dir)
                               ELSE 0,
                    data_packet |-> data_packet_id, panics |-> ~readable]
              [] OTHER ->
                   [form |-> ep.ep_type, count |-> RangeLen(range), size |-> 0,
                    data_packet |-> -1, panics |-> FALSE]

-----------------------------------------------------------------------------
(***************************************************************************)
(* Views used by the properties.                                           *)
(***************************************************************************)
\* Every item get_item can return, walking down from the top level.
AllItems(c) ==
  LET tops == {GetItem(c, NoParent, i) : i \in 0..(ItemCount(c, NoParent) - 1)}
      transactions == UNION {{GetItem(c, t, i) : i \in 0..(ItemCount(c, t) - 1)} : t \in tops}
      packets == UNION {{GetItem(c, x, i) : i \in 0..(ItemCount(c, x) - 1)} : x \in transactions}
  IN tops \cup transactions \cup packets

\* The packets of transaction v alone: up to the next flushed transaction,
\* or the one being assembled.
OwnPackets(c, v) ==
  LET ti == c.transaction_index
      end == IF v + 2 <= Len(ti) THEN ti[v + 2]
             ELSE IF c.transaction_state.count > 0 THEN c.transaction_state.start
                  ELSE Len(c.packets)
  IN SubSeq(c.packets, ti[v + 1] + 1, end)

-----------------------------------------------------------------------------
(***************************************************************************)
(* Properties.                                                             *)
(***************************************************************************)
(* Spec 4.7: the summary of a control transfer decodes the SETUP fields    *)
(* from "the first transaction's second packet (the DATA0 after SETUP)".   *)
(* get_summary reads packet setup_packet_id + 1 without checking that the *)
(* first transaction is a SETUP stage (an INVALID control group starts    *)
(* with an IN or OUT) or that the packet exists and is long enough.        *)
ControlSummaryDecodesSetup ==
  \A u \in StartEntries(capture) :
    LET s == GetSummary(capture, Transfer(u))
    IN s.form = "Control" =>
         /\ ~s.panics
         /\ GetPacket(capture, s.data_packet - 1).pid = "SETUP"
         /\ GetPacket(capture, s.data_packet).pid = "DATA0"

(* Spec 8, scenario 6: the data_size of a control transfer counts only the *)
(* data of successful transactions.  get_summary sums every IN (or OUT)    *)
(* transaction with a data packet, including an attempt that was never     *)
(* acknowledged and that transfer_update filed as a failed retry.          *)
DataSizeCountsSuccessful ==
  \A u \in StartEntries(capture) :
    LET s == GetSummary(capture, Transfer(u))
        entry == capture.transfer_index[u + 1]
        ep == capture.endpoint_data[entry.endpoint_id + 1]
        range == ItemRange(capture, Transfer(u))
        ids == SubSeq(ep.transaction_ids, range.start + 1, range.end)
        Acked(v) == Last(OwnPackets(capture, v)).pid = "ACK"
        direction == GetPacket(capture, s.data_packet).dir
        Counted(v) ==
          LET stats == GetTransactionStats(capture, v)
          IN IF /\ Acked(v) /\ stats.payload.some
                /\ <<direction, GetPacketPid(capture, stats.range.start)>>
                     \in {<<"In", "IN">>, <<"Out", "OUT">>}
               THEN stats.payload.size ELSE 0
    IN s.form = "Control" /\ ~s.panics =>
         s.size = SumFunction([j \in DOMAIN ids |-> Counted(ids[j])])

(* Spec 3 and 7: every byte sequence of length >= 1 is a packet the        *)
(* capture absorbs.  The summary of a data packet and of an IN/OUT         *)
(* transaction subtracts 3 (PID and CRC16) from the data packet's length   *)
(* as a usize, which underflows for a DATA0/DATA1 shorter than 3 bytes.    *)
PayloadSizeDefined ==
  \A item \in AllItems(capture) : GetSummary(capture, item).size >= 0

=============================================================================
