------------------------------ MODULE Startup ------------------------------
(***************************************************************************)
(* How the programs get their configuration and start: the configuration   *)
(* server (configuration_server.py), its client in utils/config_server.cpp *)
(* and the main functions of the FIX collector (md_fix.cpp) and of the     *)
(* order gateway (order-fix.cpp), up to the subscription the collector     *)
(* sends when it is logged on.                                             *)
(*                                                                         *)
(* The server's file is edited at any time, also half way: a content may   *)
(* lack options or whole sections.  A file is read in one step.            *)
(*                                                                         *)
(* The ZeroMQ sockets are external.  A request waits in its socket until   *)
(* the server can be reached; one that has arrived is lost when the server *)
(* ends, and is not sent again.  A request whose sender has gone gets no   *)
(* reply.                                                                  *)
(*                                                                         *)
(* What zmq_bind and the gateway's get_config_params return is not looked  *)
(* at.  get_config_params is in no file of the repository: it is taken to  *)
(* do what readConfigServer does.                                          *)
(***************************************************************************)
EXTENDS Integers, SequencesExt

CONSTANTS
  Process,
  Tool,         \* the operator's tool that asks for a refresh
  Contents,     \* what the server's file may contain: see Sections
  Absent,       \* no such file
  Setups,       \* what a process may be started with: see Setup
  BLANK,        \* an empty line of a symbol file
  NO_ADDR,      \* an address that is empty or not set
  CompiledIn,   \* the FIX versions the collector is built with (USE_FIX_42)
  MaxVersions,  \* bound: contents the server's file has had
  MaxStarts,    \* bound: how often processes are started
  MaxCrashes    \* bound: how often the server is killed

Peer == Process \cup {Tool}

(* A section is [name, opts]; opts is a function on the options it has.    *)
GlobalOptions == {"trade_serialization_addr", "recovery_listener_addr",
                  "aggregated_bbo_book_addr", "aggregated_bbo_book_id"}
VenueOptions  == {"venue_id", "mic_name", "order_interface_addr", "order_ping_addr",
                  "market_data_broadcast_addr"}

(* A setup is [kind, options, symbols, dict, venues]: the program, the     *)
(* options of its command line, the pieces of its symbol file between line *)
(* ends, the session settings of its FIX file, the local venue file.       *)
Kinds == {"collector", "gateway"}

ASSUME StartupAssumption ==
  /\ Tool \notin Process /\ Absent \notin Contents
  /\ \A c \in Contents : DOMAIN c \subseteq Nat
  /\ \A s \in Setups :
       /\ s.kind \in Kinds
       /\ s.symbols = Absent \/ s.symbols \in Seq(ToSet(s.symbols))
  /\ CompiledIn \subseteq {42, 43, 44, 50, 52}
  /\ MaxVersions \in Nat \ {0} /\ MaxStarts \in Nat /\ MaxCrashes \in Nat

VARIABLES
  history,     \* the contents the server's file has had, the present one last
  server,      \* the server answers
  fullConfig,  \* full_config
  request,     \* peer -> where its request is, and what it asks for
  reply,       \* process -> the reply that has come
  proc,        \* the processes: see Down
  starts, crashes,
  acked        \* the version the last refresh that was answered has read

fileVars == <<history, acked>>
zmqVars  == <<request, reply>>
vars     == <<fileVars, server, fullConfig, zmqVars, proc, starts, crashes>>

NoRequest == [at |-> "none", what |-> "C"]
NoReply   == <<>>
NoVenue   == [id |-> 0, addr |-> NO_ADDR]

\* pc: where the process is; retry_count: the polls left; venue: the id and
\* the address taken from the configuration; books: the symbols with a book;
\* sent: the market data requests of the last logon; asked: what acked was
\* when the process made its request.
Down == [pc |-> "down", setup |-> Absent, retry_count |-> 0, venue |-> NoVenue,
         books |-> {}, sent |-> <<>>, asked |-> 1]

Init ==
  /\ history \in {<<c>> : c \in Contents}
  /\ server = FALSE /\ fullConfig = <<>> /\ crashes = 0 /\ acked = 1
  /\ request = [x \in Peer |-> NoRequest] /\ reply = [p \in Process |-> NoReply]
  /\ proc = [p \in Process |-> Down] /\ starts = 0

File == Last(history)

EditFile(content) ==
  /\ content # File /\ Len(history) < MaxVersions
  /\ history' = Append(history, content)
  /\ UNCHANGED <<acked, server, fullConfig, zmqVars, proc, starts, crashes>>

-----------------------------------------------------------------------------
(* The configuration server *)

\* ConfigParser reads a file that is not there as one without sections.
SectionsOf(file) == IF file = Absent THEN <<>> ELSE file

IsGlobal(s) == s.name = "global"

\* An option that is not in its section raises an exception.
ParseRaises(file) ==
  \E i \in DOMAIN SectionsOf(file) :
    LET s == SectionsOf(file)[i]
    IN  ~((IF IsGlobal(s) THEN GlobalOptions ELSE VenueOptions) \subseteq DOMAIN s.opts)

MakeProtobuf(s) == [o \in VenueOptions |-> s.opts[o]]

VenueSections(file) == {i \in DOMAIN SectionsOf(file) : ~IsGlobal(SectionsOf(file)[i])}

\* Mutant: full_config is not cleared first.
ParseWithoutClear(file) ==
  [i \in DOMAIN fullConfig \cup VenueSections(file) |->
     IF i \in DOMAIN fullConfig THEN fullConfig[i] ELSE MakeProtobuf(SectionsOf(file)[i])]

\* The venues of full_config, each at the position of its section; nothing
\* reads its global part here.
Parse(file) == [i \in VenueSections(file) |-> MakeProtobuf(SectionsOf(file)[i])]

\* main: without a file, or with one that cannot be parsed, it ends.
ServerStarts ==
  /\ ~server /\ File # Absent /\ ~ParseRaises(File)
  /\ server' = TRUE /\ fullConfig' = Parse(File)
  /\ UNCHANGED <<fileVars, zmqVars, proc, starts, crashes>>

ServerEnds ==
  /\ server' = FALSE /\ fullConfig' = <<>>
  /\ request' = [x \in Peer |-> IF request[x].at = "arrived" THEN NoRequest ELSE request[x]]

ServerCrashes ==
  /\ server /\ crashes < MaxCrashes
  /\ crashes' = crashes + 1
  /\ ServerEnds
  /\ UNCHANGED <<fileVars, reply, proc, starts>>

\* The network takes a request to the server's socket.
Arrives(x) ==
  /\ server /\ request[x].at = "queued"
  /\ request' = [request EXCEPT ![x].at = "arrived"]
  /\ UNCHANGED <<fileVars, server, fullConfig, reply, proc, starts, crashes>>

Replies(x, answer) ==
  /\ request' = [request EXCEPT ![x] = NoRequest]
  /\ reply' = IF x \in Process THEN [reply EXCEPT ![x] = answer] ELSE reply
  /\ UNCHANGED server

\* A turn of run's loop.  A refresh that raises ends the server unanswered;
\* parse never returns anything but True, so that a refresh that is answered
\* is answered with OK.
Serve(x) ==
  /\ server /\ request[x].at = "arrived"
  /\ CASE request[x].what = "C" ->
            Replies(x, <<"CONFIG", fullConfig>>) /\ UNCHANGED <<fullConfig, acked>>
       [] request[x].what = "R" /\ ~ParseRaises(File) ->
            /\ Replies(x, <<"REFRESH", "OK">>)
            /\ fullConfig' = Parse(File) /\ acked' = Len(history)
       [] request[x].what = "R" /\ ParseRaises(File) ->
            ServerEnds /\ UNCHANGED <<reply, acked>>
       [] OTHER ->
            Replies(x, <<"ERROR", "unknown message">>) /\ UNCHANGED <<fullConfig, acked>>
  /\ UNCHANGED <<history, proc, starts, crashes>>

ToolAsks(what) ==
  /\ request[Tool] = NoRequest
  /\ request' = [request EXCEPT ![Tool] = [at |-> "queued", what |-> what]]
  /\ UNCHANGED <<fileVars, server, fullConfig, reply, proc, starts, crashes>>

ServerNext ==
  \/ \E c \in Contents \cup {Absent} : EditFile(c)
  \/ ServerStarts \/ ServerCrashes
  \/ \E x \in Peer : Arrives(x) \/ Serve(x)
  \/ \E what \in {"R", "?"} : ToolAsks(what)

-----------------------------------------------------------------------------
(* What the programs read when they start *)

\* A missing parameter, help, and two sources of the configuration.
ReadCommandLineParams(options) ==
  /\ {"c", "s"} \subseteq options /\ "help" \notin options
  /\ ~({"config-server", "v"} \subseteq options)

\* The piece behind the last line end is a line as well; so a file that can
\* be read is never without symbols.
readSymbolsFile(pieces) == IF pieces = Absent THEN <<>> ELSE pieces

\* The settings that are refused; a settings file that cannot be read, or a
\* number in it, is a FIX::Exception and refused as well.
ReadFIXConfig(dict) ==
  /\ dict # Absent
  /\ dict.FIXVersion # 0 /\ dict.MarketDepth >= 0 /\ dict.MDUpdateType >= 0

\* Of the gateway's settings only these two are looked at.
GatewaySettings(dict) == dict # Absent /\ dict.SenderCompID /\ dict.TargetCompID

\* readVenueConfigFile: the sections that [VENUES] names.  A file that is not
\* there, or lacks [GLOBAL], [VENUES] or a section, raises an exception that
\* main does not catch; an option that is missing is left unset.
LocalFileRaises(f) ==
  \/ f = Absent
  \/ ~f.hasGlobal \/ \E i \in DOMAIN f.VENUES : f.VENUES[i] \notin DOMAIN f.sections

Unset == [o \in VenueOptions |-> IF o = "venue_id" THEN 0 ELSE NO_ADDR]

readVenueConfigFile(f) ==
  [i \in DOMAIN f.VENUES |->
     [o \in VenueOptions |->
        IF o \in DOMAIN f.sections[f.VENUES[i]] THEN f.sections[f.VENUES[i]][o] ELSE Unset[o]]]

get_venue_config(config, mic) ==
  LET mine == {i \in DOMAIN config : config[i]["mic_name"] = mic}
  IN  IF mine = {} THEN Unset ELSE config[Min(mine)]

\* The collector publishes without an address if it has none.
ReadVenue(s, config) ==
  LET vc == get_venue_config(config, s.dict.MIC)
  IN  [id |-> vc["venue_id"],
       addr |-> IF s.dict.publishing THEN vc["market_data_broadcast_addr"] ELSE NO_ADDR]

ReadGatewayVenue(s, config) ==
  LET vc == get_venue_config(config, s.dict.MIC)
  IN  [id |-> IF vc["order_ping_addr"] = NO_ADDR \/ vc["order_interface_addr"] = NO_ADDR
              THEN 0 ELSE vc["venue_id"],
       addr |-> vc["order_interface_addr"]]

-----------------------------------------------------------------------------
(* The market data requests of the collector, one operator for each FIX    *)
(* version there is code for.                                              *)

MarketDataRequest(reqID, symbols, security, dict) ==
  [MDReqID |-> reqID, type |-> "SNAPSHOT_PLUS_UPDATES", depth |-> dict.MarketDepth,
   entries |-> {"BID", "OFFER"}, symbols |-> symbols, security |-> security,
   update |-> dict.MDUpdateType]

\* Mutant: empty lines are not left out.
WantedWithBlanks(lines) == lines

\* The loop over the lines, which adds a group for each that is not empty.
Wanted(lines) ==
  LET upTo[n \in 0 .. Len(lines)] ==
        IF n = 0 THEN <<>>
        ELSE IF lines[n] = BLANK THEN upTo[n - 1] ELSE Append(upTo[n - 1], lines[n])
  IN  upTo[Len(lines)]

\* One request with all symbols, or one for each of them.
RequestsFor(lines, security, dict) ==
  LET wanted == Wanted(lines)
  IN  IF dict.individual
      THEN [i \in DOMAIN wanted |->
              MarketDataRequest(<<"CAPK", wanted[i]>>, <<wanted[i]>>, security, dict)]
      ELSE <<MarketDataRequest(<<"CAPK">>, wanted, "none", dict)>>

Requests42(lines, dict) == RequestsFor(lines, "none", dict)
Requests43(lines, dict) == RequestsFor(lines, "none", dict)
Requests44(lines, dict) == RequestsFor(lines, "none", dict)
Requests50(lines, dict) == RequestsFor(lines, "FOR", dict)
Requests50SP2(lines, dict) == RequestsFor(lines, "FOR", dict)

\* Individual requests for empty lines only are none.
RequestsAny(lines, dict) == dict.individual => Wanted(lines) # <<>>

Requests(lines, dict) ==
  IF ~RequestsAny(lines, dict) THEN <<>>
  ELSE CASE dict.FIXVersion = 42 -> Requests42(lines, dict)
         [] dict.FIXVersion = 43 -> Requests43(lines, dict)
         [] dict.FIXVersion = 44 -> Requests44(lines, dict)
         [] dict.FIXVersion = 50 -> Requests50(lines, dict)
         [] dict.FIXVersion = 52 -> Requests50SP2(lines, dict)

\* run() makes books up to the first empty line.
Booked(lines) == {lines[i] : i \in {j \in DOMAIN lines : \A k \in 1 .. j : lines[k] # BLANK}}

-----------------------------------------------------------------------------
(* The processes *)

Becomes(p, state) == proc' = [proc EXCEPT ![p] = state]

\* A process that is gone has no socket: neither its request nor a reply.
Hangs(p) ==
  /\ request' = [request EXCEPT ![p] = NoRequest]
  /\ reply' = [reply EXCEPT ![p] = NoReply]

\* main up to the configuration.
CollectorStarts(s) ==
  IF ~ReadCommandLineParams(s.options) \/ readSymbolsFile(s.symbols) = <<>>
     \/ ~ReadFIXConfig(s.dict)
  THEN Down
  ELSE [Down EXCEPT !.pc = IF "v" \in s.options THEN "local" ELSE "remote", !.setup = s]

GatewayStarts(s) ==
  IF "c" \notin s.options \/ "help" \in s.options \/ ~GatewaySettings(s.dict)
  THEN Down ELSE [Down EXCEPT !.pc = "remote", !.setup = s]

Start(p, s) ==
  /\ proc[p] = Down /\ starts < MaxStarts
  /\ starts' = starts + 1
  /\ Becomes(p, IF s.kind = "collector" THEN CollectorStarts(s) ELSE GatewayStarts(s))
  /\ UNCHANGED <<fileVars, server, fullConfig, zmqVars, crashes>>

\* A configuration without the venue, or with an id of 0, ends the process.
Configured(state, venue) ==
  IF venue.id > 0 THEN [state EXCEPT !.pc = "ready", !.venue = venue] ELSE Down

ReadLocalVenueConfig(p) ==
  /\ proc[p].pc = "local"
  /\ LET s == proc[p].setup
     IN  Becomes(p, IF LocalFileRaises(s.venues) THEN Down
                    ELSE Configured(proc[p], ReadVenue(s, readVenueConfigFile(s.venues))))
  /\ UNCHANGED <<fileVars, server, fullConfig, zmqVars, starts, crashes>>

\* readConfigServer: one request, then at most three polls.
AsksServer(p) ==
  /\ proc[p].pc = "remote"
  /\ request' = [request EXCEPT ![p] = [at |-> "queued", what |-> "C"]]
  /\ Becomes(p, [proc[p] EXCEPT !.pc = "poll", !.retry_count = 3, !.asked = acked])
  /\ UNCHANGED <<fileVars, server, fullConfig, reply, starts, crashes>>

GetsReply(p) ==
  /\ proc[p].pc = "poll" /\ reply[p] # NoReply
  /\ LET s == proc[p].setup
         config == reply[p][2]
     IN  Becomes(p, Configured([proc[p] EXCEPT !.retry_count = 0],
                               IF s.kind = "collector" THEN ReadVenue(s, config)
                               ELSE ReadGatewayVenue(s, config)))
  /\ Hangs(p)
  /\ UNCHANGED <<fileVars, server, fullConfig, starts, crashes>>

\* Mutant: a poll that comes back empty is not counted.
PollTimesOutUncounted(p) ==
  /\ proc[p].pc = "poll" /\ reply[p] = NoReply
  /\ UNCHANGED vars

\* The collector leaves when all polls came back empty, the gateway when it
\* then finds no venue.
PollTimesOut(p) ==
  /\ proc[p].pc = "poll" /\ reply[p] = NoReply
  /\ IF proc[p].retry_count = 1
     THEN Becomes(p, Down) /\ Hangs(p)
     ELSE Becomes(p, [proc[p] EXCEPT !.retry_count = @ - 1]) /\ UNCHANGED zmqVars
  /\ UNCHANGED <<fileVars, server, fullConfig, starts, crashes>>

\* The rest of the collector's main; the pid file, the directories and the
\* FIX engine's files may not be writable.
StartsInitiator(p) ==
  /\ proc[p].pc = "ready" /\ proc[p].setup.kind = "collector"
  /\ Becomes(p, [proc[p] EXCEPT !.pc = "run"]) \/ Becomes(p, Down)
  /\ UNCHANGED <<fileVars, server, fullConfig, zmqVars, starts, crashes>>

GatewayRuns(p) ==
  /\ proc[p].pc = "ready" /\ proc[p].setup.kind = "gateway"
  /\ Becomes(p, [proc[p] EXCEPT !.pc = "run"]) \/ Becomes(p, Down)
  /\ UNCHANGED <<fileVars, server, fullConfig, zmqVars, starts, crashes>>

\* The collector's onLogon.  To make a request of a version that is not
\* compiled in throws an exception that ends the process.
Logon(p) ==
  /\ proc[p].pc = "run" /\ proc[p].setup.kind = "collector"
  /\ LET dict == proc[p].setup.dict
         lines == readSymbolsFile(proc[p].setup.symbols)
     IN  Becomes(p, IF RequestsAny(lines, dict) /\ dict.FIXVersion \notin CompiledIn THEN Down
                    ELSE [proc[p] EXCEPT !.pc = "on", !.books = @ \cup Booked(lines),
                                         !.sent = Requests(lines, dict)])
  /\ UNCHANGED <<fileVars, server, fullConfig, zmqVars, starts, crashes>>

Logout(p) ==
  /\ proc[p].pc = "on"
  /\ Becomes(p, [proc[p] EXCEPT !.pc = "run"])
  /\ UNCHANGED <<fileVars, server, fullConfig, zmqVars, starts, crashes>>

\* A signal, or q.  The handlers assert that there is an initiator: before
\* there is one a signal aborts the process.
Ends(p) ==
  /\ proc[p] # Down
  /\ Becomes(p, Down) /\ Hangs(p)
  /\ UNCHANGED <<fileVars, server, fullConfig, starts, crashes>>

\* What a process does of its own accord on its way to running.
Proceeds(p) ==
  \/ ReadLocalVenueConfig(p) \/ AsksServer(p) \/ GetsReply(p) \/ PollTimesOut(p)
  \/ StartsInitiator(p) \/ GatewayRuns(p)

ProcessNext(p) ==
  \/ \E s \in Setups : Start(p, s)
  \/ Proceeds(p) \/ Logon(p) \/ Logout(p) \/ Ends(p)

Next == ServerNext \/ \E p \in Process : ProcessNext(p)

\* zmq_poll returns after its timeout, so a process goes on.  Nothing is
\* assumed of the server.
Spec == Init /\ [][Next]_vars /\ \A p \in Process : WF_vars(Proceeds(p))

-----------------------------------------------------------------------------
(* Properties *)

Running(p) == proc[p].pc \in {"ready", "run", "on"}

\* What version v of the server's file says to a process with setup s: the
\* first section of its MIC.
Says(v, s) ==
  LET mine == {i \in VenueSections(history[v]) : history[v][i].opts["mic_name"] = s.dict.MIC}
      opts == history[v][CHOOSE i \in mine : \A j \in mine : i <= j].opts
      addr == IF s.kind = "gateway" THEN "order_interface_addr" ELSE "market_data_broadcast_addr"
  IN  {[id |-> opts["venue_id"],
        addr |-> IF s.kind = "gateway" \/ s.dict.publishing THEN opts[addr] ELSE NO_ADDR] :
         i \in mine}

\* A process that the server configured runs with an id and an address that
\* one version of the file gives its venue, and not an older one than a
\* refresh had been acknowledged for when the process asked: in spite of
\* edits under way, of files that cannot be parsed, and of a server that
\* ends and comes back between the request and the reply.
RunsOnAcknowledgedVersion ==
  \A p \in Process :
    Running(p) /\ "v" \notin proc[p].setup.options =>
      \E v \in proc[p].asked .. Len(history) : ~ParseRaises(history[v]) /\ proc[p].venue \in Says(v, proc[p].setup)

AskedFor(p) == FlattenSeq([i \in DOMAIN proc[p].sent |-> proc[p].sent[i].symbols])

\* At every logon the collector asks for both sides of each line of its
\* symbol file that is not empty, once and in the order of the file, in
\* whichever form its venue wants; so no book is left without updates.
EverySymbolRequested ==
  \A p \in Process :
    proc[p].pc = "on" =>
      LET lines  == proc[p].setup.symbols
          filled == {i \in DOMAIN lines : lines[i] # BLANK}
          asked  == AskedFor(p)
      IN  /\ \E line \in Surjection(DOMAIN asked, filled) :
               /\ \A i, j \in DOMAIN asked : i < j => line[i] < line[j]
               /\ \A i \in DOMAIN asked : asked[i] = lines[line[i]]
          /\ proc[p].books \subseteq ToSet(asked)
          /\ \A i \in DOMAIN proc[p].sent : {"BID", "OFFER"} = proc[p].sent[i].entries

\* A process that is started comes up or gives up, whatever becomes of the
\* server and of its request.
StartupEnds ==
  \A p \in Process : proc[p].pc \in {"local", "remote", "poll"} ~> Running(p) \/ proc[p] = Down
=============================================================================
