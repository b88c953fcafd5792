# TLA+ models of packetry's capture decoder (`src/src/capture.rs`)

This directory holds TLA+ specifications of the streaming USB decoder in
`src/src/capture.rs`, the TLC configurations that check them, and
`PROJECT.json`. That file maps every TLA+ definition to the source lines it
models and lists the runs, mutants, findings and hazards.

## 1. Inventory of the system

`capture.rs` has one owner of all state, `struct Capture` (lines 391-405).
One entry point changes state: `handle_raw_packet` (514). The query functions
`get_item`, `item_count`, `get_summary` and `get_connectors` take `&mut self`
only so that the storage can cache reads. Everything is single-threaded and
sequential. The hard parts are the order in which one packet's effects happen,
and what a long sequence of packets builds up.

| # | Component | State it keeps | Operations | Interacts with |
|---|-----------|----------------|-----------|----------------|
| C1 | Packed formats | none (`PID`, `SOFFields`, `TokenFields`, `DataFields`, `RequestTypeFields`, `SetupFields`, `TransferIndexEntry`, `Endpoint`) | `PacketFields::from_packet`, bitfield getters/setters | used by C3 (token address), C5/C6 (entries), C8 |
| C2 | Storage (`FileVec`, `HybridIndex`, external crates) | append-only vectors and monotonic indices | push, append, get, get_range, len | everything |
| C3 | Transaction FSM | `transaction_state` {first, last, start, count, endpoint_id}, `transaction_index`, `packet_index`, `packet_data` | `transaction_update/start/append/end`, `add_transaction` | calls C4 on a token and C5 on every flush |
| C4 | Endpoint registry | `endpoint_index[128][16]`, `endpoints`, `endpoint_data`, `last_endpoint_state` | `add_endpoint`, lookup in `transaction_start` | called by C3 |
| C5 | Transfer FSM | per endpoint: `transaction_ids`, `transfer_index`, `transaction_start`, `transaction_count`, `last`; global `transfer_index`, `item_index`, `last_item_endpoint` | `transfer_update` (with the retry rule), `transfer_start/append/end`, `add_transfer_entry` | called by C3, calls C6 |
| C6 | Endpoint-state timeline | `last_endpoint_state`, `endpoint_states`, `endpoint_state_index` | `add_endpoint_state` | called on every transfer entry; read by C8 |
| C7 | Item API | none | `get_index_range`, `item_range`, `item_count`, `get_item`, `get_endpoint_state`, `get_packet` | reads C2-C6 |
| C8 | Summaries and connectors | none | `get_summary`, `get_connectors`, `transfer_extended`, `get_transaction_stats`, `StandardRequest::description` with the `DescriptorType`/`StandardFeature` tables | reads C7 |
| C9 | Storage report | none | `print_storage_summary` | reads C2-C6 |

Control flow of one packet: `handle_raw_packet` → `transaction_update`.
Depending on `TransactionState::status` it calls `transaction_end` (which runs
`add_transaction` → `transfer_update` → `transfer_*` → `add_transfer_entry` →
`add_endpoint_state`, and only then pushes to `transaction_index`) and/or
`transaction_start` (which may allocate an endpoint). Only after all of that is
the packet itself stored.

What is hard here:
- **Ordering inside one call.** Transaction ids are filed before they are
  pushed. Transfer ids are read before `transfer_start` pushes. The packet id
  is taken before the packet is stored.
- **Long protocol sequences.** Retries (incomplete transactions) join an open
  transfer without moving its logical state. INVALID yields singleton groups.
  Whether an end entry becomes a top-level item depends on what other
  endpoints did since its start.
- **Transient states seen by a live UI.** A transaction is flushed only when
  the next packet arrives.
- **Widths.** The 11-bit `endpoint_id` field must hold up to 2050 endpoint ids.

What makes each component correct:
- C3: the transactions tile the packets, and each flushed transaction's range
  is exactly its packets.
- C4: a transaction is filed under the endpoint its token addresses.
- C5: per endpoint, entries alternate start/end. An end closes its own start.
  Retries never touch an ended transfer. Every transaction is in exactly one
  transfer.
- C6: every snapshot agrees with the entries before it.
- C7: navigation reaches every transaction exactly once.
- C8: glyphs and summaries agree with C5/C6 and with the encoded SETUP data.
- C9: the report's total is the sum of the sizes it lists.

There is no concurrency and nothing is persisted across runs, so those hazard
kinds do not arise. The decoder has no timers either; the only retries are the
host's, which arrive as packets (an IN that was not acknowledged is asked
again). `PROJECT.json` "hazards" lists the hazards this code does have, each
at its line.

## 2. Modules and how they correspond to the code

### `Capture.tla` (C1 in part, C3, C4, C5, C6, C7)

- The single variable `capture` is the `Capture` struct. It has the same field
  names.
  - The `FileVec`/`HybridIndex` fields are sequences.
  - `packet_index` + `packet_data` are abstracted to `packets`, a sequence of
    packets, so `packet_index.len()` is `Len(packets)`.
  - A packet is `[pid, addr, num, len, dir]`: what `PID::from` and
    `TokenFields` extract, its length in bytes, and for a SETUP's DATA0 the
    direction bit of `bmRequestType`. The other bytes are dropped; the
    `PacketFields` module keeps them.
- Each Rust method is an operator from a capture record to a capture record:
  `TransactionUpdate`, `TransactionStart`, `TransactionAppend`,
  `TransactionEnd`, `AddTransaction`, `TransferUpdate`, `TransferStart`,
  `TransferAppend`, `TransferEnd`, `AddTransferEntry`, `AddEndpointState`,
  `AddEndpoint`. Nesting the operators keeps the exact call order of the code,
  including "file, then push" in `add_transaction` and "decode, then store" in
  `handle_raw_packet`.
- One TLC step, `ReceivePacket`, is one whole `handle_raw_packet` call.
- The two decode tables are `TransactionStatus` and `EndpointStatus`. Their
  Rust match arms are pairwise disjoint, so a `CASE` is faithful to them.
- `AddTransferEntry` stores `endpoint_id % 2^EndpointIdBits`, as the
  bitfield setter masks to the field width.
- The query functions are the operators `GetIndexRange`, `ItemRange`,
  `ItemCount`, `GetItem` and `GetEndpointState`. Items are records
  (`Transfer(u)`, `Transaction(u,v)`, `PacketItem(u,v,w)`, `NoParent`).
- The variable `wire` is the environment, not code. It models the bus: it
  either continues the current burst or starts a new burst chosen from the
  constant `Bursts`. This lets a config choose realistic transaction shapes
  without enumerating every byte string.

### `TransferLog.tla` (abstract specification of C5) and the refinement

`TransferLog` says what the transfer layer promises, with no indices and no
decode tables:
- transactions are filed in id order, each into exactly one transfer of one
  endpoint;
- an endpoint has at most one open transfer, and only an open transfer is
  appended to;
- a closed transfer never changes.

How a transaction is filed (`Append`, `Start`, `Finish`, `Single`) is left
free. In the code, `EndpointData::status` chooses it. One abstract step files
one or two transactions, because one `handle_raw_packet` files at most two:
the pending one and, on INVALID, a singleton.

`Capture.tla` instantiates it as `TL` with a refinement mapping:
- `transfers` is, per allocated endpoint, the transaction ids of each of its
  transfers, read back through `ep.transfer_index` and `ep.transaction_ids`;
- `open` is `transaction_count > 0`;
- `filed` is `Len(transaction_index)`.

The property `TransferLogRefinement == TL!Spec` is checked by TLC. It replaces
the earlier action property "ended transfers are frozen", which it implies.

### `Connectors.tla` (C8: `get_connectors`, `transfer_extended`)

These are operators over `capture`, because they change no state.
- `TransferGlyph`, `TransactionGlyph` and `PacketGlyph` are the three match
  tables of the loop.
- `GetConnectors` follows the loop:
  - `thru` is the running OR, taken at the first Starting/Ending column (for a
    Transfer row) or at the item's own endpoint (for a Transaction or Packet
    row);
  - the fill covers the endpoints that are missing from a short snapshot;
  - the suffix comes last.
- Glyphs are named (`Circle`, `Corner`, ...), not spelled.

### `Summary.tla` (C8: `get_summary`, `get_transaction_stats`, `get_packet_pid`)

- `GetSummary` returns the template it fills plus the numbers it computes:
  counts, the payload size, the setup packet id and whether a read panics.
  Text and the descriptor/request/feature name tables are formatting only.
- `len - 3` is computed as an integer. A negative value stands for the usize
  underflow.
- `ControlDataSize` is the `data_size` fold over the transfer's transactions.
- `GetPacket` is `get_packet` (C7). It returns the packet record that `Capture` keeps.

### `Requests.tla` (C8: how a control transfer is described)

- `StandardRequestCode`, `DescriptorTypeCode` and `StandardFeatureCode` are
  the enums. `FromCode` is their `FromPrimitive` conversion, which falls back
  to the `#[default]` variant for an unlisted value.
- `DescriptorStrings` and `FeatureStrings` are the `STRINGS` tables, indexed
  by discriminant.
- `StandardDescription` is `StandardRequest::description`, and
  `DescriptorClause` is its Get/SetDescriptor arm. `ActionClause` and
  `RecipientClause` are the first two clauses of the control summary in
  `get_summary`.
- A clause is a record of what it names and prints, not its text.
- The device address comes from the `Endpoint` record and is printed as it
  is, so it is left out.

### `StorageSummary.tla` (C9)

`StorageReport` is `print_storage_summary`, reduced to the numbers it prints.
- `AccountEndpoint` is one iteration of its loop over `endpoint_data`.
- `size()` belongs to the external storage crates. It is taken as a fixed
  number of bytes per value. The finding below only needs a non-empty index
  to have a positive size.

### `PacketFields.tla` (C1: byte and bit level)

- `PIDFrom` decodes all 16 discriminants; any other byte is `Malformed`.
- `FromPacket` is `PacketFields::from_packet`, and `SOFFields`/`TokenFields`
  are its bitfields. `BitRange` is the bitfield getter (shift, then mask).
- `SetupFromDataPacket` is `SetupFields::from_data_packet` with
  `RequestTypeFields`, `RecipientFrom`, `RequestTypeFrom` and
  `DirectionFrom`.
- A Rust panic (an index out of bounds) is the result `Panic`.
- One behaviour takes one input packet and runs each parser once
  (`ParsePacket`, `ParseSetup`). `ParseSetup` is the whole setup step of
  `get_summary`: decode, then describe with `Requests`.

`MCPacketFields.tla` builds its inputs with the USB 2.0 wire layout (fields
sent LSB first), independently of the code's bitfield declarations:
- every token PID × addresses {0,1,2,64,127} × endpoints {0,1,8,15} × CRC5
  values;
- SOF frame numbers and CRCs at their bounds;
- data packets, including the unit-test vectors;
- SETUP data for every recipient, type and direction. These inputs are
  built from what the request means, as USB 2.0 chapter 9 defines it: a
  descriptor type and number, a language, a feature selector, an interface,
  an endpoint number and direction. Each input carries the description the
  summary must give. Unlisted request codes, descriptor types and features
  are included;
- truncated packets (`ShortInputs`).

### `MCCapture.tla`

It extends `Connectors`, `Summary` and `StorageSummary`, and defines the burst sets the configs
use:
- `ProtocolBursts`: complete SETUP, IN and OUT transactions on control
  endpoint 2.0, with real lengths (SETUP data is 11 bytes); an IN on 2.0
  NAKed (a retry); an IN and an OUT ending in STALL on bulk endpoint 2.1;
  SOF; a stray ACK.
- `SinglePacketBursts`: any single packet (all token PIDs on 2.0 and 2.1,
  SOF, DATA0/1/2, ACK, NAK), so any order can arrive.
- `ThreeEndpointBursts`: IN+NAK on three devices.
- `SofBursts`: SOF only.
- `RetryBursts`: a SETUP stage, an IN+DATA1 with no ACK, and an IN+DATA1+ACK.
- `ShortDataBursts`: an IN with a 2-byte DATA1.

## 3. Runs

| run | cfg | bounds | expect | what it shows |
|-----|-----|--------|--------|---------------|
| protocol | `MCCapture_protocol.cfg` | ProtocolBursts, 10 packets | pass (≈167k states) | A full control transfer needs 9 packets, so 10 packets reach a finished control transfer interleaved with SOF/bulk activity, retries and invalid groups. It checks all the invariants below, both connector properties, and the refinement. |
| anypacket | `MCCapture_anypacket.cfg` | SinglePacketBursts, 5 packets | pass (≈270k states) | Arbitrary and malformed orders reach every row of the transaction table and every row of the transfer table except the control status stage (reached by the protocol run). They also reach singleton invalid groups and new endpoints. The refinement holds here too, including INVALID steps that file two transactions. |
| packet_fields | `MCPacketFields.cfg` | AllInputs (2720 states) | pass | Every encoded SOF, token, data and SETUP packet decodes bit-exactly, and the summary's request and recipient clauses name what was encoded. |
| range_overlap | `MCCapture_range.cfg` | ProtocolBursts, 6 | violation | `TransactionRangeExact`: finding 1. |
| end_transfer_id | `MCCapture_endid.cfg` | ProtocolBursts, 6 | violation | `EndEntryMatchesStart`: finding 2. |
| endpoint_id_width | `MCCapture_epwidth.cfg` | ThreeEndpointBursts, 6, `EndpointIdBits = 2` | violation | `EndpointStatesMatchTransfers`: finding 3. |
| truncated_packet | `MCPacketFields_short.cfg` | ShortInputs | violation | `ParseNeverPanics`: finding 4. |
| sof_grouping | `MCCapture_sof.cfg` | SofBursts, 10 | violation | `SofGroupingScenario`: finding 5. |
| summary_setup_packet | `MCCapture_summary_setup.cfg` | ProtocolBursts, 4 | violation | `ControlSummaryDecodesSetup`: finding 6. |
| summary_retry_size | `MCCapture_summary_retry.cfg` | RetryBursts, 8 | violation | `DataSizeCountsSuccessful`: finding 7. |
| summary_short_data | `MCCapture_summary_short.cfg` | ShortDataBursts, 3 | violation | `PayloadSizeDefined`: finding 8. |
| storage_overhead | `MCCapture_storage.cfg` | ProtocolBursts, 4 | violation | `OverheadCountsIndicesOnce`: finding 9. |

Properties of the passing runs:
- `TypeOK` (in `Capture` and in `PacketFields`).
- `TransferLogWellFormed`: per endpoint, entries alternate start/end. The
  m-th start has `transfer_id` m. `ep.transfer_index` has one offset per
  start. `transaction_count > 0` holds exactly when a transfer is open.
- `EndpointStatesMatchTransfers`: every stored snapshot equals the state
  computed from the entries up to it. Snapshots cover the entry's endpoint and
  never shrink. The live vector says Starting/Ongoing exactly when the
  transfer FSM has transactions pending.
- `TopLevelItems`: items are increasing and every start entry is an item. An
  end entry is hidden exactly when the preceding item is its own start.
- `NavigationCoversTransactions`: through `get_item`/`item_count`, every
  flushed transaction is a child of exactly one start entry. That entry names
  the endpoint its first packet addresses. Children come in increasing order.
- `LastTransactionClosesLane`: the last transaction of a transfer draws `└`
  on its lane exactly when no top-level row continues the lane. That is,
  either its end entry is hidden, or, while the transfer is open, its start is
  the newest entry. This ties `transfer_extended` to `transfer_end`'s
  item rule.
- `TopLevelLanesContinue`: between consecutive top-level rows, a lane that
  enters a row was left open by the row above. A lane left open continues,
  except when a hidden end entry came right after its start.
- `TransferLogRefinement`: see section 2.
- `FieldsRoundTrip`, `SetupRoundTrip`: the decoders return exactly the
  encoded field values.
- `DescriptionRoundTrip`: the summary's request and recipient clauses name
  what the host encoded. This covers the descriptor type (`value >> 8`) and
  number (`value & 0xFF`), the language of string descriptors, the feature
  selector, and the endpoint number (`index & 0x7F`) and direction (bit 7).
  It also covers the `#[default]` fallbacks. `STRINGS[0]` ("invalid") is
  unreachable, because type 0 converts to `Unknown`.

Every passing property has a mutant in `PROJECT.json` that TLC kills under
the run's own config. Examples: a dropped guard, a swapped call order, a stale
snapshot, a missing push, a retry that reopens an ended transfer, `Ending`
taken as an extension, an endpoint field read one bit high, and a bitfield
getter that does not mask.

### Findings

1. **Transaction ranges overlap while a transaction is being assembled**
   (`capture.rs:459`, code bug).
   - `get_index_range` ends the last flushed transaction at
     `packet_index.len()`.
   - Example: after SOF, IN, the SOF transaction reports two packets, and
     `get_item` returns the IN token as its child.
2. **End entries carry the next transfer's id** (`capture.rs:731`, divergence
   from spec §8).
   - `add_transfer_entry` reads `ep.transfer_index.len()`. For an end entry
     this happens after `transfer_start` pushed, so the end entry of transfer
     k says k+1.
3. **Endpoint ids overflow the 11-bit field** (`capture.rs:730`, code bug).
   - 2 + 128·16 = 2050 ids can be allocated, but the field holds 2048. The
     run scales this down to 2 bits and 5 ids.
   - The 5th endpoint's entries are recorded as endpoint 0.
4. **Truncated packets panic** (`capture.rs:87`, code bug).
   - `from_packet` indexes `packet[1]`, `packet[2]` (SOF, token) and
     `packet[end-2]` (DATA0/1) without checking the length.
   - A 1-byte IN token makes `handle_raw_packet` panic. Spec §3/§7 says every
     byte sequence of length ≥ 1 is absorbed.
5. **SOFs never form a closed Framing transfer** (`capture.rs:433`,
   divergence from spec scenario 7).
   - `(_, SOF, SOF) => CONTINUE`, so ten SOFs are one unflushed transaction.
   - `EndpointData::status` has no DONE row for Framing, so the transfer
     never ends.
6. **A control summary can decode a NAK as SETUP data** (`capture.rs:900`,
   code bug).
   - IN+NAK on a fresh control endpoint is an INVALID one-transaction
     control transfer.
   - `get_summary` reads `setup_packet_id + 1` (the NAK) and passes it to
     `from_data_packet`, which panics.
7. **`data_size` counts unacknowledged attempts** (`capture.rs:910`,
   divergence from spec scenario 6).
   - An IN+DATA1 with no ACK is counted. TLC's shortest trace is: the SETUP
     stage, IN+DATA1 with no ACK, then a new IN. There 4 bytes are reported
     when none was acknowledged.
   - Once the retried IN+DATA1+ACK follows, 8 bytes are reported for the 4
     delivered.
8. **Payload size underflows** (`capture.rs:1105` and `:843`, code bug).
   - `len() - 3` is a usize subtraction. A 1- or 2-byte DATA0/1, which
     `from_packet` accepts, underflows.

9. **The storage report counts endpoint indices more than once**
   (`capture.rs:540`, code bug).
   - Inside the loop, `overhead += trx_size + xfr_size` adds the running
     totals. So endpoint k's indices are counted once for every endpoint
     from k on.
   - One stray ACK (an invalid group on endpoint 0, with the Framing
     endpoint 1 always present) already counts endpoint 0's indices twice.

Spec scenario 5 (a control transfer gives two top-level items) disagrees with
the code (one item). Spec §9 itself describes the code's behaviour, so this
is recorded as the behaviour `TopLevelItems` states, not as a separate run.

## 4. Bounds, fairness, deadlock

- The bounds are named constants (`MaxPackets`, the burst and input sets).
  They are chosen so the deep cases happen:
  - a completed control transfer with other endpoints' activity around it;
  - retries inside open transfers;
  - INVALID closing a bulk transfer and opening a singleton;
  - allocation of new endpoints between entries.
- Going larger is limited by state count: each packet multiplies the
  reachable histories. The any-order run checks the refinement together
  with the invariants, in about two minutes.
- `PacketFields` covers every field at its bounds and every bit of the
  request-type byte. A full enumeration of 16-bit words is not needed,
  because the getters are shift-and-mask.
- There is no liveness property and no fairness. The decoder does nothing on
  its own: every step is driven by the external packet source, which may stop
  at any time (end of a capture file). For the same reason the configs say
  `CHECK_DEADLOCK FALSE`: the only stop is the packet bound or the source
  ending, and that is a legitimate end of the program.
- No symmetry is used. Endpoint numbers and addresses are not interchangeable,
  because endpoint 0 is Control.

## 5. Not modelled and why

- C2 storage encoding and spill to disk: external crates, not under `src/`.
  They are treated as perfect append-only sequences. Storage errors `unwrap()`
  and panic, and nothing recovers from them.
- Packet bytes in `Capture`. `get_packet` returns the packet record that
  `Capture` keeps (PID, token address, length, SETUP direction). The
  byte-level parsing is checked separately, in `PacketFields`.
- The wording of summaries and reports, `fmt_count`, `fmt_size` and the
  `Display` of `PID`. Their content (what is named, which numbers appear) is
  modelled. The percentage that `print_storage_summary` prints is an `f32`
  division; on an empty capture it is NaN, which is printed, not a panic.
- The length clause of the control summary compares `data_size` with
  `wLength`. `Capture` does not keep `wLength`. The `data_size` it reports
  is already shown wrong by finding 7.

## 6. Plan

Done: `Capture`, `TransferLog` with the refinement, `Connectors`, `Summary`,
`Requests`, `StorageSummary`, `PacketFields`, and their MC modules and
configs.

Next:
1. Keep `wLength` in `Capture`'s SETUP data packet, and check the length
   clause of the control summary under retries.
2. Larger instances of the any-order run (6 packets) if time allows.
