--------------------------- MODULE StorageSummary ---------------------------
(***************************************************************************)
(* Capture::print_storage_summary (src/capture.rs), reduced to the numbers *)
(* it prints: the value counts and byte sizes of the per-endpoint          *)
(* transaction and transfer indices, and the total overhead of the indices *)
(* over the packet data.  The report changes no state; it is an operator  *)
(* over the capture record of Capture.  The text, fmt_size and fmt_count   *)
(* are formatting only.                                                    *)
(*                                                                         *)
(* size() belongs to the storage crates, which are not modelled.  A        *)
(* FileVec stores its values verbatim; a HybridIndex is delta-encoded and  *)
(* its exact size does not matter here, only that a non-empty index takes  *)
(* some bytes, so it is taken as eight bytes per value.                    *)
(***************************************************************************)
EXTENDS Capture

\* HybridIndex::size of an index of n values, FileVec::size of n values of
\* `width` bytes.
IndexSize(n)      == 8 * n
VecSize(n, width) == n * width

\* The overhead of the global indices, before the loop over the endpoints.
GlobalOverhead(c) ==
  IndexSize(Len(c.packets)) + IndexSize(Len(c.transaction_index))
    + VecSize(Len(c.transfer_index), 8) + VecSize(Len(c.endpoint_states), 1)
    + IndexSize(Len(c.endpoint_state_index))

\* One iteration of the loop over endpoint_data.  trx_size and xfr_size
\* are running totals, and the running totals are what is added to the
\* overhead at each endpoint.
AccountEndpoint(acc, ep) ==
  LET trx_size == acc.trx_size + IndexSize(Len(ep.transaction_ids))
      xfr_size == acc.xfr_size + IndexSize(Len(ep.transfer_index))
  IN [trx_count |-> acc.trx_count + Len(ep.transaction_ids),
      trx_size  |-> trx_size,
      xfr_count |-> acc.xfr_count + Len(ep.transfer_index),
      xfr_size  |-> xfr_size,
      overhead  |-> acc.overhead + trx_size + xfr_size]

\* Capture::print_storage_summary: the numbers of the report.
StorageReport(c) ==
  FoldLeft(AccountEndpoint,
           [trx_count |-> 0, trx_size |-> 0, xfr_count |-> 0, xfr_size |-> 0,
            overhead |-> GlobalOverhead(c)],
           c.endpoint_data)

(* Spec section 6: print_storage_summary reports the bytes used per index  *)
(* and the total overhead.  The total is the global indices plus the       *)
(* endpoint transaction and transfer indices the report lists, each once.  *)
(* The loop adds the running totals trx_size + xfr_size at every endpoint, *)
(* so the indices of an endpoint are counted again for every endpoint      *)
(* allocated after it.                                                     *)
OverheadCountsIndicesOnce ==
  LET r == StorageReport(capture)
  IN r.overhead = GlobalOverhead(capture) + r.trx_size + r.xfr_size

=============================================================================
