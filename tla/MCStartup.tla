----------------------------- MODULE MCStartup -----------------------------
(***************************************************************************)
(* Startup for TLC: a collector and a gateway of one venue, started with   *)
(* good and with refused settings, and a file that has the venue, has it   *)
(* with other addresses, is cut inside a section or behind one.            *)
(***************************************************************************)
EXTENDS Startup, TLC

CONSTANTS p, X, Y, EU, GB

Global == [name |-> "global", opts |-> [o \in GlobalOptions |-> 0]]

Section(mic, id, md, order) ==
  [name |-> mic,
   opts |-> [venue_id |-> id, mic_name |-> mic, order_interface_addr |-> order,
             order_ping_addr |-> order, market_data_broadcast_addr |-> md]]

Cut(section) ==
  [section EXCEPT !.opts = [o \in {"venue_id", "mic_name"} |-> section.opts[o]]]

MCContents ==
  {<<Global, Section(Y, 2, "y1", "y2"), Section(X, 1, "x1", "x2")>>,
   <<Global, Section(X, 3, "x3", NO_ADDR), Section(X, 4, "x4", "x5")>>,
   <<Global, Section(Y, 2, "y1", "y2")>>,
   <<Global, Cut(Section(X, 1, "x1", "x2"))>>}

Dict(version, depth, individual) ==
  [MIC |-> X, FIXVersion |-> version, MarketDepth |-> depth, MDUpdateType |-> 1,
   publishing |-> TRUE, individual |-> individual]

GatewayDict(sender) == [MIC |-> X, SenderCompID |-> sender, TargetCompID |-> TRUE]

Collector(options, symbols, dict, venues) ==
  [kind |-> "collector", options |-> options, symbols |-> symbols, dict |-> dict,
   venues |-> venues]

LocalFile(options) ==
  [hasGlobal |-> TRUE, VENUES |-> <<X>>,
   sections |-> (X :> [o \in options |-> CASE o = "venue_id" -> 1 [] OTHER -> X])]

MCSetups ==
  {Collector({"c", "s"}, <<EU, BLANK, GB>>, Dict(42, 1, FALSE), Absent),
   Collector({"c", "s", "config-server"}, <<EU, GB, BLANK>>, Dict(50, 0, TRUE), Absent),
   Collector({"c", "s", "config-server"}, <<EU>>, Dict(44, 0, TRUE), Absent),
   Collector({"c", "s"}, <<EU>>, Dict(42, -1, FALSE), Absent),
   Collector({"c", "s", "v"}, <<BLANK>>, Dict(44, 1, TRUE),
             LocalFile({"venue_id", "mic_name"})),
   Collector({"c", "s", "v"}, <<EU>>, Dict(52, 1, FALSE), LocalFile({"mic_name"})),
   Collector({"c", "s", "v"}, <<EU>>, Dict(42, 1, FALSE), Absent),
   [kind |-> "gateway", options |-> {"c"}, symbols |-> Absent, dict |-> GatewayDict(TRUE),
    venues |-> Absent],
   [kind |-> "gateway", options |-> {"c"}, symbols |-> Absent, dict |-> GatewayDict(FALSE),
    venues |-> Absent]}
=============================================================================
