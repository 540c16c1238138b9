---------------------------- MODULE MCOrderFlow ----------------------------
(***************************************************************************)
(* OrderFlow for TLC.  Strategies that never say HELO get no reports, which *)
(* makes no difference to what the serializer records.                     *)
(***************************************************************************)
EXTENDS OrderFlow

CONSTANTS s1, o1, o2, o3, e1

MCStrategy == {s1}
MCOrderId == {o1, o2, o3}
MCExec == {e1}

Req(oid, type, orig, sid) ==
  [oid |-> oid, type |-> type, orig |-> orig, sid |-> sid, good |-> TRUE]

New1 == Req(o1, "ORDER_NEW", NO_OID, s1)
Replace1 == Req(o2, "ORDER_REPLACE", o1, s1)
CancelReplaced1 == Req(o3, "ORDER_CANCEL", o2, s1)

MCOne == {New1}
MCReplace == {New1, Replace1}
MCChain == {New1, Replace1, CancelReplaced1}

MCNoAdmin == {}
MCBad == {"BAD"}
=============================================================================
