----------------------------- MODULE MCCapture -----------------------------
(***************************************************************************)
(* Model-checking instances of Capture and Connectors: the packets and    *)
(* bursts the bus may send.  Device 2 has its control endpoint 0 and bulk *)
(* endpoint 1; device 3's endpoint 1 is a third token endpoint for the    *)
(* registry.                                                               *)
(***************************************************************************)
EXTENDS Connectors, Summary, StorageSummary

\* A token, a handshake or SOF, a data packet with `size` payload bytes, and
\* the eight-byte DATA0 of a SETUP stage whose request has direction `dir`.
Tok(pid, addr, num) == [pid |-> pid, addr |-> addr, num |-> num, len |-> 3, dir |-> "Out"]
Pkt(pid)            == [pid |-> pid, addr |-> 0, num |-> 0,
                        len |-> IF pid = "SOF" THEN 3 ELSE 1, dir |-> "Out"]
Data(pid, size)     == [pid |-> pid, addr |-> 0, num |-> 0, len |-> size + 3, dir |-> "Out"]
SetupData(dir)      == [Data("DATA0", 8) EXCEPT !.dir = dir]

\* Well-formed transactions and the failures the decoder must absorb: a
\* NAKed IN, a missing handshake, a stray handshake, SOFs.
ProtocolBursts ==
  { <<Tok("SETUP", 2, 0), SetupData("In"), Pkt("ACK")>>,
    <<Tok("IN", 2, 0), Data("DATA1", 4), Pkt("ACK")>>,
    <<Tok("OUT", 2, 0), Data("DATA1", 0), Pkt("ACK")>>,
    <<Tok("IN", 2, 0), Pkt("NAK")>>,
    <<Tok("IN", 2, 1), Data("DATA1", 4), Pkt("ACK")>>,
    <<Tok("OUT", 2, 1), Data("DATA0", 4), Pkt("STALL")>>,
    <<Pkt("SOF")>>,
    <<Pkt("ACK")>> }

\* Any packet at any point: every row of the transaction table and all but
\* the control DONE row of the transfer table.  STALL takes
\* the same rows as NAK and is left to ProtocolBursts.
SinglePacketBursts ==
  { <<Tok(t, 2, n)>> : t \in TokenPID, n \in {0, 1} } \cup
  { <<Pkt(x)>> : x \in {"SOF", "DATA2", "ACK", "NAK"} } \cup
  { <<Data(x, 0)>> : x \in {"DATA0", "DATA1"} }

\* Three token endpoints, enough to exceed a 2-bit endpoint_id.
ThreeEndpointBursts ==
  { <<Tok("IN", a, 1), Pkt("NAK")>> : a \in {2, 3, 4} }

\* A bus that sends nothing but start-of-frame packets (spec scenario 7).
SofBursts == { <<Pkt("SOF")>> }

\* Spec scenario 6 with a data stage that is retried: the first IN gets its
\* DATA1 but no ACK, and the host asks again.
RetryBursts ==
  { <<Tok("SETUP", 2, 0), SetupData("In"), Pkt("ACK")>>,
    <<Tok("IN", 2, 0), Data("DATA1", 4)>>,
    <<Tok("IN", 2, 0), Data("DATA1", 4), Pkt("ACK")>> }

\* An IN transaction whose DATA1 is two bytes long: shorter than its PID and
\* CRC16.
ShortDataBursts ==
  { <<Tok("IN", 2, 1), [Data("DATA1", 0) EXCEPT !.len = 2], Pkt("ACK")>> }

=============================================================================
