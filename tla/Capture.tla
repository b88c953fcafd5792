------------------------------ MODULE Capture ------------------------------
(***************************************************************************)
(* The ingest pipeline of packetry's src/capture.rs: one step of this      *)
(* specification is one call of Capture::handle_raw_packet, modelled as    *)
(* the whole chain of calls it makes (transaction_update, transaction_end, *)
(* add_transaction, transfer_update, transfer_start/append/end,            *)
(* add_transfer_entry, add_endpoint_state, add_endpoint).  The Capture     *)
(* struct is the single variable `capture`; each Rust method is an         *)
(* operator from a capture record to the capture record it leaves, so      *)
(* that the order of the calls inside a handler is kept exactly.           *)
(*                                                                         *)
(* Data is abstracted: a packet is its PID, its byte length and the       *)
(* fields the code reads from its bytes: the device address and endpoint  *)
(* number of a token, and the direction bit (bit 7 of byte 1) that a      *)
(* SETUP-stage DATA0 carries; other bytes are not kept.  All indices      *)
(* are 0-based as in the code; S[i+1] reads element i of sequence S.      *)
(***************************************************************************)
EXTENDS Integers, Sequences, SequencesExt, FiniteSets

CONSTANTS
  Bursts,         \* Set of packet sequences the bus may send back to back.
  MaxPackets,     \* Bound on the number of packets ingested.
  EndpointIdBits  \* Width of TransferIndexEntry.endpoint_id (11 in the code).

ASSUME MaxPackets \in Nat \ {0}
ASSUME EndpointIdBits \in Nat \ {0}

VARIABLES
  capture,  \* The Capture struct.
  wire      \* Packets of the current burst not yet handed to the capture.

vars == <<capture, wire>>

(***************************************************************************)
(* PIDs, layouts and enumerations (PID, PacketFields, EndpointType,        *)
(* EndpointState, DecodeStatus).                                           *)
(***************************************************************************)
TokenPID     == {"SETUP", "IN", "OUT"}
PID          == TokenPID \cup {"SOF", "DATA0", "DATA1", "DATA2", "ACK", "NAK",
                               "STALL", "NYET", "Malformed"}
EndpointType == {"Control", "Normal", "Framing", "Invalid"}
EndpointState == {"Idle", "Starting", "Ongoing", "Ending"}

Packet == [pid : PID, addr : 0..127, num : 0..15, len : Nat \ {0}, dir : {"In", "Out"}]

\* PacketFields::from_packet, reduced to which layout the packet has.
PacketLayout(p) ==
  CASE p.pid = "SOF"               -> "SOF"
    [] p.pid \in TokenPID          -> "Token"
    [] p.pid \in {"DATA0", "DATA1"} -> "Data"
    [] OTHER                       -> "None"

\* EndpointType::from(num as u8): unlisted discriminants default to Normal.
EndpointTypeOf(num) ==
  CASE num = 0   -> "Control"
    [] num = 254 -> "Framing"
    [] num = 255 -> "Invalid"
    [] OTHER     -> "Normal"

(***************************************************************************)
(* The two decode tables.  The rows of each Rust match are disjoint, so a  *)
(* CASE keeps the code's meaning.                                          *)
(***************************************************************************)
\* TransactionState::status
TransactionStatus(first, last, next) ==
  CASE next \in TokenPID                                   -> "NEW"
    [] last = "Malformed" /\ next = "SOF"                   -> "NEW"
    [] last = "SOF" /\ next = "SOF"                         -> "CONTINUE"
    [] last = "SETUP" /\ next = "DATA0"                     -> "CONTINUE"
    [] first = "SETUP" /\ last = "DATA0" /\ next = "ACK"    -> "DONE"
    [] last = "IN" /\ next \in {"NAK", "STALL"}             -> "DONE"
    [] last \in {"IN", "OUT"} /\ next \in {"DATA0", "DATA1"} -> "CONTINUE"
    [] first \in {"IN", "OUT"} /\ last \in {"DATA0", "DATA1"}
         /\ next = "ACK"                                    -> "DONE"
    [] first = "OUT" /\ last \in {"DATA0", "DATA1"}
         /\ next \in {"NAK", "STALL"}                       -> "DONE"
    [] OTHER                                                -> "INVALID"

\* EndpointData::status
EndpointStatus(ep_type, last, next) ==
  CASE ep_type = "Control" /\ next = "SETUP"                    -> "NEW"
    [] ep_type = "Control" /\ last = "SETUP" /\ next \in {"IN", "OUT"}
                                                              -> "CONTINUE"
    [] ep_type = "Control" /\ last = next /\ next \in {"IN", "OUT"}
                                                              -> "CONTINUE"
    [] ep_type = "Control" /\ {last, next} = {"IN", "OUT"}      -> "DONE"
    [] ep_type = "Normal" /\ last = "Malformed" /\ next \in {"IN", "OUT"}
                                                              -> "NEW"
    [] ep_type = "Normal" /\ last = next /\ next \in {"IN", "OUT"}
                                                              -> "CONTINUE"
    [] ep_type = "Framing" /\ last = "Malformed" /\ next = "SOF" -> "NEW"
    [] ep_type = "Framing" /\ last = "SOF" /\ next = "SOF"       -> "CONTINUE"
    [] OTHER                                                    -> "INVALID"

(***************************************************************************)
(* Endpoint registry.                                                      *)
(***************************************************************************)
\* Mutant: add_endpoint forgets to push the EndpointData.
AddEndpointNoData(c, addr, num) ==
  [c EXCEPT
     !.endpoints = Append(@, [device_address |-> addr, endpoint_number |-> num]),
     !.last_endpoint_state = Append(@, "Idle")]

\* Capture::add_endpoint
AddEndpoint(c, addr, num) ==
  [c EXCEPT
     !.endpoint_data = Append(@, [ep_type |-> EndpointTypeOf(num),
                                  transaction_ids |-> <<>>,
                                  transfer_index |-> <<>>,
                                  transaction_start |-> 0,
                                  transaction_count |-> 0,
                                  last |-> "Malformed"]),
     !.endpoints = Append(@, [device_address |-> addr, endpoint_number |-> num]),
     !.last_endpoint_state = Append(@, "Idle")]

\* The (device, endpoint) pairs the bus can address.
TokenKeys == {<<p.addr, p.num>> : p \in {q \in UNION {ToSet(b) : b \in Bursts} :
                                         q.pid \in TokenPID}}

(***************************************************************************)
(* Endpoint-state timeline and transfer index entries.                     *)
(***************************************************************************)
\* Mutant: only a Starting endpoint becomes Ongoing, an Ongoing one goes Idle.
NextEndpointStateNoHold(same, start, last) ==
  CASE same /\ start         -> "Starting"
    [] same /\ ~start        -> "Ending"
    [] last = "Starting"     -> "Ongoing"
    [] OTHER                 -> "Idle"

\* One arm of the match in Capture::add_endpoint_state.
NextEndpointState(same, start, last) ==
  CASE same /\ start                     -> "Starting"
    [] same /\ ~start                    -> "Ending"
    [] last \in {"Starting", "Ongoing"}  -> "Ongoing"
    [] OTHER                             -> "Idle"

\* Mutant: the snapshot is taken of the vector before it is updated.
AddEndpointStateStale(c, endpoint_id, start) ==
  LET new == [i \in 1..Len(c.endpoints) |->
                NextEndpointState(endpoint_id = i - 1, start,
                                  c.last_endpoint_state[i])]
  IN [c EXCEPT !.last_endpoint_state = new,
               !.endpoint_states = @ \o c.last_endpoint_state,
               !.endpoint_state_index = Append(@, Len(c.endpoint_states))]

\* Capture::add_endpoint_state
AddEndpointState(c, endpoint_id, start) ==
  LET new == [i \in 1..Len(c.endpoints) |->
                NextEndpointState(endpoint_id = i - 1, start,
                                  c.last_endpoint_state[i])]
  IN [c EXCEPT !.last_endpoint_state = new,
               !.endpoint_states = @ \o new,
               !.endpoint_state_index = Append(@, Len(c.endpoint_states))]

\* Capture::add_transfer_entry; set_endpoint_id keeps the low bits only.
AddTransferEntry(c, endpoint_id, start) ==
  LET entry == [endpoint_id |-> endpoint_id % (2 ^ EndpointIdBits),
                transfer_id |-> Len(c.endpoint_data[endpoint_id + 1].transfer_index),
                is_start |-> start]
  IN AddEndpointState([c EXCEPT !.transfer_index = Append(@, entry)],
                      endpoint_id, start)

(***************************************************************************)
(* Transfer FSM (per endpoint).                                            *)
(***************************************************************************)
\* Capture::transfer_start
TransferStart(c) ==
  LET id == c.transaction_state.endpoint_id
      c1 == AddTransferEntry([c EXCEPT !.item_index = Append(@, Len(c.transfer_index)),
                                       !.last_item_endpoint = id], id, TRUE)
      ep == c1.endpoint_data[id + 1]
  IN [c1 EXCEPT !.endpoint_data[id + 1] =
        [ep EXCEPT !.transaction_start = Len(ep.transaction_ids),
                   !.transaction_count = 0,
                   !.transfer_index = Append(@, Len(ep.transaction_ids))]]

\* Capture::transfer_append
TransferAppend(c, success) ==
  LET id == c.transaction_state.endpoint_id
      ep == c.endpoint_data[id + 1]
  IN [c EXCEPT !.endpoint_data[id + 1] =
        [ep EXCEPT !.transaction_ids = Append(@, Len(c.transaction_index)),
                   !.transaction_count = @ + 1,
                   !.last = IF success THEN c.transaction_state.first ELSE @]]

\* Mutant: transfer_end writes an end entry even with no transfer open.
TransferEndUnguarded(c) ==
  LET id == c.transaction_state.endpoint_id
      c1 == IF c.last_item_endpoint # id
              THEN [c EXCEPT !.item_index = Append(@, Len(c.transfer_index)),
                             !.last_item_endpoint = id]
              ELSE c
  IN [AddTransferEntry(c1, id, FALSE) EXCEPT
        !.endpoint_data[id + 1].transaction_count = 0,
        !.endpoint_data[id + 1].last = "Malformed"]

\* Mutant: transfer_end makes every end entry a top-level item.
TransferEndAlwaysItem(c) ==
  LET id == c.transaction_state.endpoint_id
      c1 == [c EXCEPT !.item_index = Append(@, Len(c.transfer_index)),
                      !.last_item_endpoint = id]
      c2 == IF c.endpoint_data[id + 1].transaction_count > 0
              THEN AddTransferEntry(c1, id, FALSE)
              ELSE c
  IN [c2 EXCEPT !.endpoint_data[id + 1].transaction_count = 0,
                !.endpoint_data[id + 1].last = "Malformed"]

\* Capture::transfer_end
TransferEnd(c) ==
  LET id == c.transaction_state.endpoint_id
      c1 == IF c.last_item_endpoint # id
              THEN [c EXCEPT !.item_index = Append(@, Len(c.transfer_index)),
                             !.last_item_endpoint = id]
              ELSE c
      c2 == IF c.endpoint_data[id + 1].transaction_count > 0
              THEN AddTransferEntry(c1, id, FALSE)
              ELSE c
  IN [c2 EXCEPT !.endpoint_data[id + 1].transaction_count = 0,
                !.endpoint_data[id + 1].last = "Malformed"]

\* Mutant: a retry is recognised even when no transfer is open.
TransferUpdateRetryUnguarded(c) ==
  LET ts == c.transaction_state
      ep == c.endpoint_data[ts.endpoint_id + 1]
      status == EndpointStatus(ep.ep_type, ep.last, ts.first)
      completed == ts.count = 3 /\ ts.last = "ACK"
  IN IF status # "INVALID" /\ ~completed THEN TransferAppend(c, FALSE)
     ELSE CASE status = "NEW"      -> TransferAppend(TransferStart(TransferEnd(c)), TRUE)
            [] status = "CONTINUE" -> TransferAppend(c, TRUE)
            [] status = "DONE"     -> TransferEnd(TransferAppend(c, TRUE))
            [] status = "INVALID"  ->
                 TransferEnd(TransferAppend(TransferStart(TransferEnd(c)), FALSE))

\* Capture::transfer_update, run on the transaction being flushed.
TransferUpdate(c) ==
  LET ts == c.transaction_state
      ep == c.endpoint_data[ts.endpoint_id + 1]
      status == EndpointStatus(ep.ep_type, ep.last, ts.first)
      completed == ts.count = 3 /\ ts.last = "ACK"
      retry_needed == ep.transaction_count > 0 /\ status # "INVALID" /\ ~completed
  IN IF retry_needed THEN TransferAppend(c, FALSE)
     ELSE CASE status = "NEW"      -> TransferAppend(TransferStart(TransferEnd(c)), TRUE)
            [] status = "CONTINUE" -> TransferAppend(c, TRUE)
            [] status = "DONE"     -> TransferEnd(TransferAppend(c, TRUE))
            [] status = "INVALID"  ->
                 TransferEnd(TransferAppend(TransferStart(TransferEnd(c)), FALSE))

(***************************************************************************)
(* Transaction FSM.                                                        *)
(***************************************************************************)
\* Mutant: the transaction is pushed before the transfer FSM files it.
AddTransactionPushFirst(c) ==
  IF c.transaction_state.count = 0 THEN c
  ELSE TransferUpdate([c EXCEPT !.transaction_index =
                                  Append(@, c.transaction_state.start)])

\* Capture::add_transaction: the transfer FSM runs before the push, so the
\* id it files is the index the transaction is about to get.
AddTransaction(c) ==
  IF c.transaction_state.count = 0 THEN c
  ELSE LET c1 == TransferUpdate(c)
       IN [c1 EXCEPT !.transaction_index = Append(@, c1.transaction_state.start)]

\* Capture::transaction_end
TransactionEnd(c) ==
  [AddTransaction(c) EXCEPT !.transaction_state.count = 0,
                            !.transaction_state.first = "Malformed",
                            !.transaction_state.last = "Malformed"]

\* Capture::transaction_start: the packet is not yet in packet_index, so
\* its id is the current length.
TransactionStart(c, p) ==
  LET c1 == [c EXCEPT !.transaction_state.start = Len(c.packets),
                      !.transaction_state.count = 1,
                      !.transaction_state.first = p.pid,
                      !.transaction_state.last = p.pid]
      key == <<p.addr, p.num>>
      c2 == IF c1.endpoint_index[key] < 0
              THEN AddEndpoint([c1 EXCEPT !.endpoint_index[key] = Len(c1.endpoints)],
                               p.addr, p.num)
              ELSE c1
  IN CASE PacketLayout(p) = "SOF"   -> [c1 EXCEPT !.transaction_state.endpoint_id = 1]
       [] PacketLayout(p) = "Token" ->
            [c2 EXCEPT !.transaction_state.endpoint_id = c2.endpoint_index[key]]
       [] OTHER                     -> [c1 EXCEPT !.transaction_state.endpoint_id = 0]

\* Capture::transaction_append
TransactionAppend(c, pid) ==
  [c EXCEPT !.transaction_state.count = @ + 1, !.transaction_state.last = pid]

\* Capture::transaction_update
TransactionUpdate(c, p) ==
  LET ts == c.transaction_state
  IN CASE TransactionStatus(ts.first, ts.last, p.pid) = "NEW" ->
            TransactionStart(TransactionEnd(c), p)
       [] TransactionStatus(ts.first, ts.last, p.pid) = "CONTINUE" ->
            TransactionAppend(c, p.pid)
       [] TransactionStatus(ts.first, ts.last, p.pid) = "DONE" ->
            TransactionEnd(TransactionAppend(c, p.pid))
       [] TransactionStatus(ts.first, ts.last, p.pid) = "INVALID" ->
            TransactionEnd(TransactionStart(TransactionEnd(c), p))

\* Capture::handle_raw_packet: decode first, then store the packet.
HandleRawPacket(c, p) ==
  [TransactionUpdate(c, p) EXCEPT !.packets = Append(@, p)]

(***************************************************************************)
(* Query API (C7): get_index_range, item_range, item_count, get_item and   *)
(* get_endpoint_state.  They do not change the capture.                    *)
(***************************************************************************)
Transfer(u)          == [kind |-> "Transfer", u |-> u, v |-> 0, w |-> 0]
Transaction(u, v)    == [kind |-> "Transaction", u |-> u, v |-> v, w |-> 0]
PacketItem(u, v, w)  == [kind |-> "Packet", u |-> u, v |-> v, w |-> w]
NoParent             == [kind |-> "None", u |-> 0, v |-> 0, w |-> 0]

\* get_index_range: the last entry of an index ends at the collection length.
GetIndexRange(index, length, id) ==
  [start |-> index[id + 1],
   end   |-> IF id + 2 > Len(index) THEN length ELSE index[id + 2]]

\* Capture::item_range (the Packet arm ranges over bytes, which are not kept).
ItemRange(c, item) ==
  IF item.kind = "Transfer"
    THEN LET entry == c.transfer_index[item.u + 1]
             ep == c.endpoint_data[entry.endpoint_id + 1]
         IN GetIndexRange(ep.transfer_index, Len(ep.transaction_ids), entry.transfer_id)
    ELSE GetIndexRange(c.transaction_index, Len(c.packets), item.v)

RangeLen(r) == r.end - r.start

\* Capture::item_count; the parent None is NoParent.
ItemCount(c, parent) ==
  CASE parent.kind = "None"             -> Len(c.item_index)
    [] parent.kind = "Transfer"    ->
         IF c.transfer_index[parent.u + 1].is_start
           THEN RangeLen(ItemRange(c, parent)) ELSE 0
    [] parent.kind = "Transaction" -> RangeLen(ItemRange(c, parent))
    [] parent.kind = "Packet"      -> 0

\* Capture::get_item (a Packet parent panics in the code and is excluded).
GetItem(c, parent, index) ==
  CASE parent.kind = "None" -> Transfer(c.item_index[index + 1])
    [] parent.kind = "Transfer" ->
         LET entry == c.transfer_index[parent.u + 1]
             ep == c.endpoint_data[entry.endpoint_id + 1]
             offset == ep.transfer_index[entry.transfer_id + 1]
         IN Transaction(parent.u, ep.transaction_ids[offset + index + 1])
    [] parent.kind = "Transaction" ->
         PacketItem(parent.u, parent.v, c.transaction_index[parent.v + 1] + index)

\* Capture::get_endpoint_state: the snapshot taken at transfer entry k.
GetEndpointState(c, k) ==
  LET r == GetIndexRange(c.endpoint_state_index, Len(c.endpoint_states), k)
  IN SubSeq(c.endpoint_states, r.start + 1, r.end)

-----------------------------------------------------------------------------
(***************************************************************************)
(* Views used by the properties.                                           *)
(***************************************************************************)
Endpoints(c) == 0..(Len(c.endpoints) - 1)

\* The transfer index entries that name endpoint e, in order.
EntriesOn(c, e) == SelectSeq(c.transfer_index, LAMBDA x : x.endpoint_id = e)

\* Whether endpoint e has a transfer open just before entry k.
OpenBefore(c, e, k) ==
  LET prior == SelectSeq(SubSeq(c.transfer_index, 1, k),
                         LAMBDA x : x.endpoint_id = e)
  IN prior # <<>> /\ Last(prior).is_start

\* The state endpoint i must have in the snapshot of entry k, read from the
\* entries alone.
ExpectedState(c, i, k) ==
  LET entry == c.transfer_index[k + 1]
  IN CASE entry.endpoint_id = i /\ entry.is_start  -> "Starting"
       [] entry.endpoint_id = i /\ ~entry.is_start -> "Ending"
       [] OpenBefore(c, i, k)                     -> "Ongoing"
       [] OTHER                                   -> "Idle"

\* The endpoint a transaction is filed under, read from its first packet.
EndpointOfPacket(c, p) ==
  CASE PacketLayout(p) = "SOF"   -> 1
    [] PacketLayout(p) = "Token" -> c.endpoint_index[<<p.addr, p.num>>]
    [] OTHER                     -> 0

\* The transaction ids of transfer m of endpoint e.
TransferTransactions(c, e, m) ==
  LET ep == c.endpoint_data[e + 1]
      r == GetIndexRange(ep.transfer_index, Len(ep.transaction_ids), m)
  IN SubSeq(ep.transaction_ids, r.start + 1, r.end)

StartEntries(c) == {k \in 0..(Len(c.transfer_index) - 1) : c.transfer_index[k + 1].is_start}

\* Index of the latest start entry on endpoint e before entry k (-1 if none).
LatestStartBefore(c, e, k) ==
  LET js == {j \in 0..(k - 1) : c.transfer_index[j + 1].endpoint_id = e
                                 /\ c.transfer_index[j + 1].is_start}
  IN IF js = {} THEN -1 ELSE Max(js)

-----------------------------------------------------------------------------
(***************************************************************************)
(* Properties.                                                             *)
(***************************************************************************)
TypeOK ==
  /\ capture.packets \in Seq(Packet)
  /\ \A f \in {"item_index", "transaction_index", "endpoint_state_index"} :
       capture[f] \in Seq(Nat)
  /\ capture.transfer_index \in
       Seq([endpoint_id : Nat, transfer_id : Nat, is_start : BOOLEAN])
  /\ capture.endpoint_index \in [TokenKeys -> -1..2049]
  /\ capture.endpoints \in Seq([device_address : 0..127, endpoint_number : 0..255])
  /\ \A i \in DOMAIN capture.endpoint_data :
       capture.endpoint_data[i] \in
         [ep_type : EndpointType, transaction_ids : Seq(Nat), transfer_index : Seq(Nat),
          transaction_start : Nat, transaction_count : Nat, last : PID]
  /\ Len(capture.endpoint_data) = Len(capture.endpoints)
  /\ capture.endpoint_states \in Seq(EndpointState)
  /\ capture.last_endpoint_state \in Seq(EndpointState)
  /\ capture.last_item_endpoint \in -1..2049
  /\ capture.transaction_state \in
       [first : PID, last : PID, start : Nat, count : Nat, endpoint_id : Nat]
  /\ wire \in Seq(Packet)

(* Transfer FSM (transfer_start, transfer_end, the retry guard of          *)
(* transfer_update): on every endpoint the entries of transfer_index       *)
(* alternate start, end, start, ..., the m-th start carries transfer_id m, *)
(* the endpoint's own transfer_index has one entry per start, and the      *)
(* endpoint has transactions pending (transaction_count > 0) exactly when  *)
(* its last entry is a start.                                              *)
TransferLogWellFormed ==
  \A e \in Endpoints(capture) :
    LET log == EntriesOn(capture, e)
        ep == capture.endpoint_data[e + 1]
    IN /\ \A j \in 1..Len(log) : log[j].is_start <=> j % 2 = 1
       /\ \A j \in 1..Len(log) : log[j].is_start => log[j].transfer_id = (j - 1) \div 2
       /\ Len(ep.transfer_index) = (Len(log) + 1) \div 2
       /\ (ep.transaction_count > 0) <=> Len(log) % 2 = 1

(* Endpoint-state timeline (add_endpoint_state, read back by               *)
(* get_endpoint_state for get_connectors): the snapshot stored for entry k *)
(* marks the entry's own endpoint Starting or Ending and every other       *)
(* endpoint Ongoing exactly when it has a transfer open at that point, it  *)
(* covers the entry's endpoint, and snapshots never get shorter; the live  *)
(* vector marks an endpoint Starting/Ongoing exactly when the transfer FSM *)
(* has transactions pending on it.                                         *)
EndpointStatesMatchTransfers ==
  /\ \A k \in 0..(Len(capture.transfer_index) - 1) :
       LET snap == GetEndpointState(capture, k)
       IN /\ capture.transfer_index[k + 1].endpoint_id < Len(snap)
          /\ k > 0 => Len(GetEndpointState(capture, k - 1)) <= Len(snap)
          /\ \A i \in 0..(Len(snap) - 1) : snap[i + 1] = ExpectedState(capture, i, k)
  /\ \A e \in Endpoints(capture) :
       capture.last_endpoint_state[e + 1] \in {"Starting", "Ongoing"}
         <=> capture.endpoint_data[e + 1].transaction_count > 0

(* Top-level items (item_index, pushed by transfer_start and, guarded by   *)
(* last_item_endpoint, by transfer_end): items point at increasing entries,*)
(* every start entry is an item, and an end entry is left out exactly when *)
(* the item just before it is the start of the same transfer, so that no  *)
(* other endpoint's activity is shown between a hidden end and its start.  *)
TopLevelItems ==
  LET I == capture.item_index
      T == capture.transfer_index
  IN /\ \A j \in 1..(Len(I) - 1) : I[j] < I[j + 1]
     /\ \A k \in StartEntries(capture) : Contains(I, k)
     /\ \A k \in (0..(Len(T) - 1)) \ StartEntries(capture) :
          ~Contains(I, k) <=>
            /\ \E x \in ToSet(I) : x < k
            /\ Max({x \in ToSet(I) : x < k}) = LatestStartBefore(capture, T[k + 1].endpoint_id, k)

(* Hierarchical navigation (get_item and item_count over the transfer      *)
(* FSM's indices): every transaction flushed to transaction_index is       *)
(* reached as a child of exactly one start entry, that entry names the     *)
(* endpoint the transaction's first packet addresses, and the children of *)
(* a transfer come in increasing order.                                    *)
NavigationCoversTransactions ==
  LET Children(u) == [j \in 1..ItemCount(capture, Transfer(u)) |->
                        GetItem(capture, Transfer(u), j - 1).v]
  IN /\ \A v \in 0..(Len(capture.transaction_index) - 1) :
          LET owners == {u \in StartEntries(capture) : Contains(Children(u), v)}
              first == capture.packets[capture.transaction_index[v + 1] + 1]
          IN /\ Cardinality(owners) = 1
             /\ \A u \in owners :
                  capture.transfer_index[u + 1].endpoint_id = EndpointOfPacket(capture, first)
     /\ \A u \in StartEntries(capture) :
          \A j \in 1..(Len(Children(u)) - 1) : Children(u)[j] < Children(u)[j + 1]

(* Spec 4.6/8: the packets item_count and get_item give for a flushed      *)
(* transaction are exactly its own packets: it ends where the next         *)
(* flushed transaction, or else the one still being assembled, starts.     *)
TransactionRangeExact ==
  \A v \in 0..(Len(capture.transaction_index) - 1) :
    LET ti == capture.transaction_index
        ts == capture.transaction_state
        end == IF v + 2 <= Len(ti) THEN ti[v + 2]
               ELSE IF ts.count > 0 THEN ts.start ELSE Len(capture.packets)
    IN ItemCount(capture, Transaction(0, v)) = end - ti[v + 1]

(* Spec 8: every end entry carries the endpoint and transfer_id of the     *)
(* start entry it closes (add_transfer_entry called from transfer_end).    *)
EndEntryMatchesStart ==
  \A k \in (0..(Len(capture.transfer_index) - 1)) \ StartEntries(capture) :
    LET e == capture.transfer_index[k + 1].endpoint_id
        s == LatestStartBefore(capture, e, k)
    IN s >= 0 /\ capture.transfer_index[k + 1].transfer_id
                   = capture.transfer_index[s + 1].transfer_id

(***************************************************************************)
(* Construction and the specification.                                     *)
(***************************************************************************)
EmptyCapture ==
  [packets |-> <<>>,
   item_index |-> <<>>,
   transaction_index |-> <<>>,
   transfer_index |-> <<>>,
   endpoint_index |-> [k \in TokenKeys |-> -1],
   endpoints |-> <<>>,
   endpoint_data |-> <<>>,
   endpoint_states |-> <<>>,
   endpoint_state_index |-> <<>>,
   last_endpoint_state |-> <<>>,
   last_item_endpoint |-> -1,
   transaction_state |-> [first |-> "Malformed", last |-> "Malformed",
                          start |-> 0, count |-> 0, endpoint_id |-> 0]]

\* Capture::new: ids 0 and 1 are the Invalid and Framing endpoints.
NewCapture == AddEndpoint(AddEndpoint(EmptyCapture, 0, 255), 0, 254)

Init ==
  /\ capture = NewCapture
  /\ wire = <<>>

\* The bus hands the capture the next packet of the current burst, or the
\* first packet of a new burst.
ReceivePacket ==
  /\ Len(capture.packets) < MaxPackets
  /\ \/ /\ wire # <<>>
        /\ capture' = HandleRawPacket(capture, Head(wire))
        /\ wire' = Tail(wire)
     \/ /\ wire = <<>>
        /\ \E b \in Bursts :
             /\ capture' = HandleRawPacket(capture, Head(b))
             /\ wire' = Tail(b)

Next == ReceivePacket

Spec == Init /\ [][Next]_vars

-----------------------------------------------------------------------------
(***************************************************************************)
(* Refinement of TransferLog.  transfers[e] is what get_item lists for     *)
(* each transfer of endpoint e (its slice of ep.transaction_ids), open[e]  *)
(* is transaction_count > 0, and filed is the length of transaction_index. *)
(* Endpoint ids run over the two fixed endpoints and one per token key.    *)
(***************************************************************************)
EndpointIdSpace == 0..(1 + Cardinality(TokenKeys))

Allocated(e) == e < Len(capture.endpoints)

AbstractTransfers ==
  [e \in EndpointIdSpace |->
     IF Allocated(e)
       THEN [m \in 1..Len(capture.endpoint_data[e + 1].transfer_index) |->
               TransferTransactions(capture, e, m - 1)]
       ELSE <<>>]

AbstractOpen ==
  [e \in EndpointIdSpace |->
     Allocated(e) /\ capture.endpoint_data[e + 1].transaction_count > 0]

TL == INSTANCE TransferLog WITH EndpointIds <- EndpointIdSpace,
        transfers <- AbstractTransfers, open <- AbstractOpen,
        filed <- Len(capture.transaction_index)

(* The ingest pipeline (add_transaction, transfer_update and the transfer  *)
(* FSM below it) implements the transfer log: every handle_raw_packet     *)
(* files zero, one or two transactions, in id order, each into an open    *)
(* transfer or a new one on the endpoint its first packet addresses, and  *)
(* never touches a closed transfer.                                        *)
TransferLogRefinement == TL!Spec

=============================================================================
