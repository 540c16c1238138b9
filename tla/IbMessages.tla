----------------------------- MODULE IbMessages -----------------------------
(***************************************************************************)
(* The messages Trader Workstation (TWS) sends to the Interactive Brokers  *)
(* client, as EClientSocketBase::processMsg decodes them.                  *)
(*                                                                         *)
(* A message has no length: it is a run of fields, each ended by a NUL,    *)
(* and how many there are follows from the message's id, the version it    *)
(* declares, the server's version and from counts and flags among the      *)
(* fields themselves.  Every operator below that ends in Size gives that   *)
(* number of fields, the id included, for a sequence `f` of fields that    *)
(* starts with the id.  A field is its number, or 0 when it is empty; text *)
(* counts as some other number.                                            *)
(***************************************************************************)
EXTENDS Integers, Sequences

MsgId ==
    [TICK_PRICE |-> 1, TICK_SIZE |-> 2, ORDER_STATUS |-> 3, ERR_MSG |-> 4,
     OPEN_ORDER |-> 5, ACCT_VALUE |-> 6, PORTFOLIO_VALUE |-> 7,
     ACCT_UPDATE_TIME |-> 8, NEXT_VALID_ID |-> 9, CONTRACT_DATA |-> 10,
     EXECUTION_DATA |-> 11, MARKET_DEPTH |-> 12, MARKET_DEPTH_L2 |-> 13,
     NEWS_BULLETINS |-> 14, MANAGED_ACCTS |-> 15, RECEIVE_FA |-> 16,
     HISTORICAL_DATA |-> 17, BOND_CONTRACT_DATA |-> 18, SCANNER_PARAMETERS |-> 19,
     SCANNER_DATA |-> 20, TICK_OPTION_COMPUTATION |-> 21, TICK_GENERIC |-> 45,
     TICK_STRING |-> 46, TICK_EFP |-> 47, CURRENT_TIME |-> 49,
     REAL_TIME_BARS |-> 50, FUNDAMENTAL_DATA |-> 51, CONTRACT_DATA_END |-> 52,
     OPEN_ORDER_END |-> 53, ACCT_DOWNLOAD_END |-> 54, EXECUTION_DATA_END |-> 55,
     DELTA_NEUTRAL_VALIDATION |-> 56, TICK_SNAPSHOT_END |-> 57,
     MARKET_DATA_TYPE |-> 58]

KnownIds == {MsgId[n] : n \in DOMAIN MsgId}

TickType ==
    [BID_SIZE |-> 0, BID |-> 1, ASK |-> 2, ASK_SIZE |-> 3, LAST |-> 4,
     LAST_SIZE |-> 5, MODEL_OPTION |-> 13, NOT_SET |-> 58]

\* Server versions that change what is read or asked.
MIN_SERVER_VER ==
    [SUPPORTED |-> 38, UNDER_COMP |-> 40, REQ_MKT_DATA_CONID |-> 47, SSHORTX_OLD |-> 51]

---------------------------------------------------------------------------
(* Where a field is still missing its value does not matter: the size of a *)
(* message only grows behind the field that decides it, so the message is  *)
(* incomplete either way.                                                  *)
Field(f, i) == IF i <= Len(f) THEN f[i] ELSE 0
Version(f) == Field(f, 2)
Also(condition, n) == IF condition THEN n ELSE 0
Times(count, n) == IF count > 0 THEN count * n ELSE 0

(* The messages of one size, in the order of processMsg's cases: their ids *)
(* with that size.                                                         *)
TickSizes == {<<MsgId.TICK_GENERIC, 5>>, <<MsgId.TICK_STRING, 5>>, <<MsgId.TICK_EFP, 11>>}
StatusSizes == {<<MsgId.ORDER_STATUS, 12>>, <<MsgId.ERR_MSG, 5>>}
AccountSizes == {<<MsgId.ACCT_UPDATE_TIME, 3>>, <<MsgId.NEXT_VALID_ID, 3>>}
DepthSizes ==
    {<<MsgId.MARKET_DEPTH, 8>>, <<MsgId.MARKET_DEPTH_L2, 9>>, <<MsgId.NEWS_BULLETINS, 6>>,
     <<MsgId.MANAGED_ACCTS, 3>>, <<MsgId.RECEIVE_FA, 4>>}
DownloadSizes ==
    {<<MsgId.SCANNER_PARAMETERS, 3>>, <<MsgId.CURRENT_TIME, 3>>, <<MsgId.REAL_TIME_BARS, 11>>,
     <<MsgId.FUNDAMENTAL_DATA, 4>>}
EndSizes ==
    {<<MsgId.CONTRACT_DATA_END, 3>>, <<MsgId.OPEN_ORDER_END, 2>>, <<MsgId.ACCT_DOWNLOAD_END, 3>>,
     <<MsgId.EXECUTION_DATA_END, 3>>, <<MsgId.DELTA_NEUTRAL_VALIDATION, 6>>,
     <<MsgId.TICK_SNAPSHOT_END, 3>>, <<MsgId.MARKET_DATA_TYPE, 4>>}
FixedSizes ==
    TickSizes \cup StatusSizes \cup AccountSizes \cup DepthSizes \cup DownloadSizes \cup EndSizes
        \cup {<<MsgId.TICK_PRICE, 7>>, <<MsgId.TICK_SIZE, 5>>, <<MsgId.ACCT_VALUE, 6>>}

FixedIds == {s[1] : s \in FixedSizes}
FixedSize(id) == (CHOOSE s \in FixedSizes : s[1] = id)[2]

OptionComputationSize(f) ==
    6 + Also(Version(f) >= 6 \/ Field(f, 4) = TickType.MODEL_OPTION, 2)
      + Also(Version(f) >= 6, 4)

PortfolioSize(f, serverVersion) ==
    17 + Also(Version(f) >= 7, 2) + Also(Version(f) = 6 /\ serverVersion = 39, 1)

ContractSize(f) ==
    18 + Also(Version(f) >= 3, 1) + Also(Version(f) >= 4, 1)
       + Also(Version(f) >= 5, 2) + Also(Version(f) >= 6, 7)

BondSize(f) == 27 + Also(Version(f) >= 3, 1) + Also(Version(f) >= 4, 1)

ExecutionSize(f) ==
    22 + Also(Version(f) >= 7, 1) + Also(Version(f) >= 6, 2) + Also(Version(f) >= 8, 1)

(* A count and then as many bars, or scanner rows.  A negative count, which *)
(* the code would fail to reserve room for, is taken for none.              *)
HistoricalSize(f) == 6 + Times(Field(f, 6), 9)
ScannerSize(f) == 4 + Times(Field(f, 4), 16)

(* An open order up to its delta neutral fields: the order type there      *)
(* decides whether four more follow.                                       *)
OpenOrderHead(f, serverVersion) ==
    LET auxPrice == 61 + Also(\/ serverVersion = MIN_SERVER_VER.SSHORTX_OLD
                              \/ Version(f) >= 23, 1)
    IN  auxPrice + Also(Version(f) >= 27 /\ Field(f, auxPrice - 1) # 0, 4)

(* The rest of it.  Each LET names the last field read so far.             *)
OpenOrderSize(f, serverVersion) ==
    LET v        == Version(f)
        legs     == OpenOrderHead(f, serverVersion) + 6
        routing  == legs + Also(v >= 26, 1 + Times(Field(f, legs + 1), 2))
        scale    == routing + 3
        hedge    == scale + Also(v >= 24, 1 + Also(Field(f, scale + 1) # 0, 1))
        clearing == hedge + Also(v >= 25, 1) + 2
        notHeld  == clearing + Also(v >= 22, 1)
        under    == notHeld + Also(v >= 20, 1 + Also(Field(f, notHeld + 1) > 0, 3))
        strategy == under + Also(v >= 21, 1)
        params   == strategy + Also(v >= 21 /\ Field(f, strategy) # 0,
                                    1 + Times(Field(f, strategy + 1), 2))
    IN  params + 10

MsgSize(f, serverVersion) ==
    LET id == f[1]
    IN  CASE id \in FixedIds -> FixedSize(id)
          [] id = MsgId.TICK_OPTION_COMPUTATION -> OptionComputationSize(f)
          [] id = MsgId.PORTFOLIO_VALUE -> PortfolioSize(f, serverVersion)
          [] id = MsgId.CONTRACT_DATA -> ContractSize(f)
          [] id = MsgId.BOND_CONTRACT_DATA -> BondSize(f)
          [] id = MsgId.EXECUTION_DATA -> ExecutionSize(f)
          [] id = MsgId.HISTORICAL_DATA -> HistoricalSize(f)
          [] id = MsgId.SCANNER_DATA -> ScannerSize(f)
          [] id = MsgId.OPEN_ORDER -> OpenOrderSize(f, serverVersion)
          [] OTHER -> 1

---------------------------------------------------------------------------
(* The calls a whole message makes on the EWrapper.                        *)
Call(name, id, tick, value) == [name |-> name, id |-> id, tick |-> tick, value |-> value]

(* Mutant: a price's size is not told.                                     *)
SizeTickTypeNone(tick) == TickType.NOT_SET

(* A price carries a size, which is told in a second call.                 *)
SizeTickType(tick) ==
    CASE tick = TickType.BID -> TickType.BID_SIZE
      [] tick = TickType.ASK -> TickType.ASK_SIZE
      [] tick = TickType.LAST -> TickType.LAST_SIZE
      [] OTHER -> TickType.NOT_SET

(* A call for each row: its count is the field at, and each takes width    *)
(* fields.                                                                 *)
Rows(name, f, at, width) ==
    [i \in 1 .. Times(f[at], 1) |-> Call(name, f[3], i, f[at + width * (i - 1) + 1])]

Calls(f) ==
    CASE f[1] = MsgId.TICK_PRICE ->
           <<Call("tickPrice", f[3], f[4], f[5])>>
             \o IF SizeTickType(f[4]) # TickType.NOT_SET
                THEN <<Call("tickSize", f[3], SizeTickType(f[4]), f[6])>> ELSE <<>>
      [] f[1] = MsgId.TICK_SIZE -> <<Call("tickSize", f[3], f[4], f[5])>>
      [] f[1] = MsgId.ERR_MSG -> <<Call("error", f[3], f[4], f[5])>>
      [] f[1] = MsgId.HISTORICAL_DATA ->
           Rows("historicalData", f, 6, 9) \o <<Call("historicalData", f[3], 0, 0)>>
      [] f[1] = MsgId.SCANNER_DATA ->
           Rows("scannerData", f, 4, 16) \o <<Call("scannerDataEnd", f[3], 0, 0)>>
      [] OTHER -> <<Call(IF f[1] \in KnownIds THEN "other" ELSE "unknown", f[1], 0, 0)>>
=============================================================================
