--------------------------- MODULE MCOrderGateway ---------------------------
(***************************************************************************)
(* OrderGateway for TLC: two strategies say HELO, send heartbeats and      *)
(* messages of a bad type, and reconnect.  One has an order at the venue,  *)
(* which may report on it; the request of the other does not parse, so it  *)
(* is cached and goes no further.                                          *)
(***************************************************************************)
EXTENDS OrderGateway

CONSTANTS s1, s2, o1, o2, b

MCStrategy == {s1, s2}
MCOrderId == {o1, o2}
MCReportBody == {b}

Req(oid, type, orig, sid, good) ==
  [oid |-> oid, type |-> type, orig |-> orig, sid |-> sid, good |-> good]

New1 == Req(o1, "ORDER_NEW", NO_OID, s1, TRUE)
Garbled2 == Req(o2, "ORDER_NEW", NO_OID, s2, FALSE)

MCRequests == {New1, Garbled2}

MCAdmin == AdminTypes
=============================================================================
