----------------------------- MODULE TransferLog -----------------------------
(***************************************************************************)
(* What the transfer layer of src/capture.rs promises, without its indices *)
(* or its decode tables: transactions are filed one at a time, in the     *)
(* order of their ids, each into exactly one transfer of one endpoint; an *)
(* endpoint has at most one open transfer, a transaction is added only to *)
(* an open transfer, and a transfer once closed never changes.  How a      *)
(* transaction is filed (the mode) is left free: the decode tables of     *)
(* EndpointData::status choose it in the code.                             *)
(*                                                                         *)
(* One ingested packet files at most two transactions (the one it ends and *)
(* an INVALID singleton), so a step of this specification files one or    *)
(* two.  Capture refines this specification: its property                *)
(* TransferLogRefinement.                                                   *)
(***************************************************************************)
EXTENDS Naturals, Sequences

CONSTANT EndpointIds  \* The endpoint ids that may be allocated.

VARIABLES
  transfers,  \* transfers[e]: the transfers of endpoint e, each a sequence of transaction ids.
  open,       \* open[e]: the last transfer of e is open.
  filed       \* Number of transactions filed so far (the next id).

vars == <<transfers, open, filed>>

Modes == {"Append", "Start", "Finish", "Single"}

\* Whether transaction `filed` may be filed on e in this mode.
CanFile(s, e, mode) == mode \in {"Append", "Finish"} => s.open[e]

\* The log after transaction `filed` is filed on e: appended to the open
\* transfer (Append, Finish), or made the first transaction of a new one
\* after the open transfer, if any, is closed (Start, Single).  Finish and
\* Single leave the endpoint with no open transfer.
File(s, e, mode) ==
  LET t == s.filed
      xs == s.transfers[e]
  IN [transfers |-> [s.transfers EXCEPT ![e] =
                       IF mode \in {"Append", "Finish"}
                         THEN [xs EXCEPT ![Len(xs)] = Append(@, t)]
                         ELSE Append(xs, <<t>>)],
      open |-> [s.open EXCEPT ![e] = mode \in {"Append", "Start"}],
      filed |-> t + 1]

Now == [transfers |-> transfers, open |-> open, filed |-> filed]

Became(s) == transfers' = s.transfers /\ open' = s.open /\ filed' = s.filed

Init ==
  /\ transfers = [e \in EndpointIds |-> <<>>]
  /\ open = [e \in EndpointIds |-> FALSE]
  /\ filed = 0

\* The endpoints a step changes: filing always lengthens a sequence of e.
Changed == {e \in EndpointIds : transfers'[e] # transfers[e]}

\* One transaction is filed.
FileOne ==
  /\ filed' = filed + 1
  /\ \E e \in Changed, m \in Modes :
       CanFile(Now, e, m) /\ Became(File(Now, e, m))

\* Two transactions are filed by one step.
FileTwo ==
  /\ filed' = filed + 2
  /\ \E e1, e2 \in Changed, m1, m2 \in Modes :
       LET s1 == File(Now, e1, m1)
       IN CanFile(Now, e1, m1) /\ CanFile(s1, e2, m2) /\ Became(File(s1, e2, m2))

Next == FileOne \/ FileTwo

Spec == Init /\ [][Next]_vars

=============================================================================
