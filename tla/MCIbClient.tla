----------------------------- MODULE MCIbClient -----------------------------
(***************************************************************************)
(* IbClient for TLC.  A script is one message of any kind, in the versions *)
(* that differ in their fields, and then a tick; or a few ticks, also a    *)
(* price under a size's number and the other way round; or a message that  *)
(* ends the connection with another behind it.                             *)
(***************************************************************************)
EXTENDS IbClient

Fields(n) == [i \in 1 .. n |-> 7]

Of(name) == MsgId[name]
Plain(name, n) == <<Of(name)>> \o Fields(n - 1)
Versioned(name, version, n) == <<Of(name), version>> \o Fields(n - 2)

Price(tick, price, size) == <<Of("TICK_PRICE"), 6, TickerId, TickType[tick], price, size, 1>>
SizeOf(tick, size) == <<Of("TICK_SIZE"), 6, TickerId, TickType[tick], size>>
Error(id, code) == <<Of("ERR_MSG"), 2, id, code, 7>>

(* An open order of version 19 has 61 fields up to the delta neutral price *)
(* and 21 behind it; the later versions add to that.                       *)
\* Versions 20 to 22: a flag for the underlying, an algorithm, not held.
OpenOrder22 ==
    <<Of("OPEN_ORDER"), 22>> \o Fields(59) \o Fields(6) \o Fields(3) \o Fields(2) \o <<0>>
      \o <<0>> \o <<7, 1>> \o Fields(2) \o Fields(10)
\* Version 27 with everything it can have, and with nothing.
OpenOrder27 ==
    <<Of("OPEN_ORDER"), 27>> \o Fields(60) \o Fields(4) \o Fields(6) \o <<1>> \o Fields(2)
      \o Fields(3) \o <<7, 7>> \o <<1>> \o Fields(2) \o <<1>> \o <<1>> \o Fields(3)
      \o <<7, 2>> \o Fields(4) \o Fields(10)
OpenOrder27Bare ==
    <<Of("OPEN_ORDER"), 27>> \o Fields(58) \o <<0>> \o <<7>> \o Fields(6) \o <<0>>
      \o Fields(3) \o <<0>> \o <<1>> \o Fields(2) \o <<1>> \o <<0>> \o <<0>> \o Fields(10)
\* What a server of version 51 sends: an exempt code whatever the version.
OpenOrder51 == Versioned("OPEN_ORDER", 19, 83)

AnyVersion == {
    Versioned("TICK_OPTION_COMPUTATION", 5, 6), Versioned("TICK_OPTION_COMPUTATION", 6, 12),
    <<Of("TICK_OPTION_COMPUTATION"), 5, 1, TickType.MODEL_OPTION>> \o Fields(4),
    Plain("TICK_GENERIC", 5), Plain("TICK_STRING", 5), Plain("TICK_EFP", 11),
    Plain("ORDER_STATUS", 12), Error(7, 7), Plain("ACCT_VALUE", 6),
    Versioned("PORTFOLIO_VALUE", 6, 17), Versioned("PORTFOLIO_VALUE", 7, 19),
    Plain("ACCT_UPDATE_TIME", 3), Plain("NEXT_VALID_ID", 3),
    Versioned("CONTRACT_DATA", 2, 18), Versioned("CONTRACT_DATA", 6, 29),
    Versioned("BOND_CONTRACT_DATA", 2, 27), Versioned("BOND_CONTRACT_DATA", 4, 29),
    Versioned("EXECUTION_DATA", 5, 22), Versioned("EXECUTION_DATA", 8, 26),
    Plain("MARKET_DEPTH", 8), Plain("MARKET_DEPTH_L2", 9), Plain("NEWS_BULLETINS", 6),
    Plain("MANAGED_ACCTS", 3), Plain("RECEIVE_FA", 4),
    <<Of("HISTORICAL_DATA"), 3, 1, 7, 7, 0>>, <<Of("HISTORICAL_DATA"), 3, 1, 7, 7, 2>> \o Fields(18),
    <<Of("SCANNER_DATA"), 3, 1, 1>> \o Fields(16), Plain("SCANNER_PARAMETERS", 3),
    Plain("CURRENT_TIME", 3), Plain("REAL_TIME_BARS", 11), Plain("FUNDAMENTAL_DATA", 4),
    Plain("CONTRACT_DATA_END", 3), Plain("OPEN_ORDER_END", 2), Plain("ACCT_DOWNLOAD_END", 3),
    Plain("EXECUTION_DATA_END", 3), Plain("DELTA_NEUTRAL_VALIDATION", 6),
    Plain("TICK_SNAPSHOT_END", 3), Plain("MARKET_DATA_TYPE", 4)}

BidTick == Price("BID", 5, 3)

TickScripts ==
    {<<BidTick, SizeOf("ASK_SIZE", 4), Price("ASK", 6, 2), SizeOf("BID_SIZE", 9)>>,
     <<Price("LAST", 5, 1), SizeOf("LAST_SIZE", 2), <<Of("TICK_SIZE"), 6, TickerId, 8, 4>>>>,
     <<BidTick, SizeOf("BID", 4), Price("ASK_SIZE", 6, 2), Price("BID", 7, 8)>>}

EndingScripts ==
    {<<Error(NO_VALID_ID, CONNECTIVITY_LOST), Plain("NEXT_VALID_ID", 3)>>,
     <<Plain("MANAGED_ACCTS", 3), <<99>>, BidTick>>}

WithTick(messages) == {<<m, BidTick>> : m \in messages}

\* What depends on the server's version goes with that version; 37 is too old.
MCScripts ==
    37 :> {<<>>}
      @@ 39 :> WithTick({Versioned("PORTFOLIO_VALUE", 6, 18)})
      @@ 51 :> WithTick({OpenOrder51})
      @@ 58 :> TickScripts \cup EndingScripts
                 \cup WithTick(AnyVersion \cup {OpenOrder22, OpenOrder27, OpenOrder27Bare})
=============================================================================
