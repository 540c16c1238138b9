--------------------------- MODULE StartupProofs ---------------------------
(***************************************************************************)
(* No program runs on a configuration that is older than an acknowledged   *)
(* refresh or mixed from two, and the collector asks for every symbol of   *)
(* its file, for all files, setups, edits, crashes and numbers of          *)
(* processes.                                                              *)
(***************************************************************************)
EXTENDS Startup, WellFoundedInduction, TLAPS

PC == {"down", "local", "remote", "poll", "ready", "run", "on"}

\* A process is a record with the fields of Down.
IsState(st) ==
  /\ st \in [pc : PC, setup : {st.setup}, retry_count : Int, venue : {st.venue},
             books : {st.books}, sent : {st.sent}, asked : Nat \ {0}]
  /\ st.pc # "down" => st.setup \in Setups

PeerRequest == [at : {"none", "queued", "arrived"}, what : {"C", "R", "?"}]

\* A value for every process.
IsMap(f) == f = [p \in Process |-> f[p]]

Types ==
  /\ history \in Seq(Contents \cup {Absent}) /\ acked \in 1 .. Len(history)
  /\ server \in BOOLEAN
  /\ request \in [Peer -> PeerRequest]
  /\ IsMap(reply)
  /\ proc = [p \in Process |-> proc[p]] /\ \A p \in Process : IsState(proc[p])

\* A configuration that some version from v on says.
SaidSince(v, config) ==
  \E w \in v .. Len(history) : ~ParseRaises(history[w]) /\ config = Parse(history[w])

\* What the server answers with is not older than the last acknowledgement.
ServerInv == server => SaidSince(acked, fullConfig)

\* Only a process that waits has a request or a reply; the reply is not
\* older than what was acknowledged when it asked.
WaitInv ==
  \A p \in Process :
    /\ proc[p].asked <= acked
    /\ request[p].at # "none" => proc[p].pc = "poll" /\ request[p].what = "C"
    /\ reply[p] # NoReply =>
         /\ proc[p].pc = "poll"
         /\ reply[p] = <<"CONFIG", reply[p][2]>> /\ SaidSince(proc[p].asked, reply[p][2])

\* A local file is read only by a process that was told to.
LocalInv == \A p \in Process : proc[p].pc = "local" => "v" \in proc[p].setup.options

\* A running process that the server configured has what a version says.
RunOk(st) ==
  st.pc \in {"ready", "run", "on"} /\ "v" \notin st.setup.options =>
    \E v \in st.asked .. Len(history) :
      ~ParseRaises(history[v]) /\ st.venue \in Says(v, st.setup)

RunInv == \A p \in Process : RunOk(proc[p])

SInv == Types /\ ServerInv /\ WaitInv /\ LocalInv /\ RunInv

-----------------------------------------------------------------------------
LEMMA SProperty == SInv => RunsOnAcknowledgedVersion
BY DEF SInv, RunInv, RunOk, RunsOnAcknowledgedVersion, Running

LEMMA LeastNat ==
  ASSUME NEW T, T \subseteq Nat, T # {}
  PROVE  \E n \in T : \A m \in T : n <= m
<1>1. PICK n \in T : \A m \in T : <<m, n>> \notin OpToRel(<, Nat)
  BY WFMin, NatLessThanWellFounded
<1>2. \A m \in T : ~(m < n)
  <2> TAKE m \in T
  <2>1. <<m, n>> \notin OpToRel(<, Nat) /\ m \in Nat /\ n \in Nat
    BY <1>1
  <2> QED BY <2>1 DEF OpToRel
<1> QED BY <1>2

\* The venue a program finds in the venues of a file is that of the first
\* section of its MIC; if there is none its id is 0.
LEMMA VenueFound ==
  ASSUME Types, NEW v \in 1 .. Len(history), NEW mic
  PROVE  LET mine == {i \in VenueSections(history[v]) : history[v][i].opts["mic_name"] = mic}
             vc == get_venue_config(Parse(history[v]), mic)
         IN  \/ mine = {} /\ vc = Unset
             \/ mine # {} /\ LET opts == history[v][CHOOSE i \in mine : \A j \in mine : i <= j].opts
                             IN  \A o \in VenueOptions : vc[o] = opts[o]
<1> DEFINE file == history[v]
           mine == {i \in VenueSections(file) : file[i].opts["mic_name"] = mic}
           first == CHOOSE i \in mine : \A j \in mine : i <= j
           config == Parse(file)
           found == {i \in DOMAIN config : config[i]["mic_name"] = mic}
<1>1. file \in Contents \cup {Absent}
  BY DEF Types
<1>2. /\ VenueSections(file) \subseteq Nat
      /\ VenueSections(file) # {} => file # Absent
  BY <1>1, StartupAssumption DEF VenueSections, SectionsOf, StartupAssumption
<1>3. /\ DOMAIN config = VenueSections(file)
      /\ \A i \in VenueSections(file) : \A o \in VenueOptions : config[i][o] = file[i].opts[o]
  BY <1>2 DEF Parse, MakeProtobuf, SectionsOf
<1>4. found = mine
  BY <1>3 DEF VenueOptions
<1>5. first = Min(mine)
  BY DEF Min
<1>6. get_venue_config(config, mic) = IF mine = {} THEN Unset ELSE config[first]
  BY <1>4, <1>5 DEF get_venue_config
<1>7. mine # {} => first \in mine
  <2> SUFFICES ASSUME mine # {} PROVE first \in mine
    OBVIOUS
  <2>1. mine \subseteq Nat
    BY <1>2
  <2>2. \E i \in mine : \A j \in mine : i <= j
    <3> HIDE DEF mine
    <3> QED BY <2>1, LeastNat
  <2> QED BY <2>2
<1>8. mine # {} => first \in VenueSections(file)
  BY <1>7
<1>9. mine # {} => \A o \in VenueOptions : config[first][o] = file[first].opts[o]
  <2> HIDE DEF first, config, mine
  <2> QED BY <1>3, <1>8
<1> HIDE DEF config
<1> QED BY <1>6, <1>9 DEF config

\* What a program takes from the venues of a version, that version says.
LEMMA CollectorReads ==
  ASSUME Types, NEW v \in 1 .. Len(history), NEW s, s.kind = "collector",
         ReadVenue(s, Parse(history[v])).id > 0
  PROVE  ReadVenue(s, Parse(history[v])) \in Says(v, s)
<1> DEFINE mine == {i \in VenueSections(history[v]) : history[v][i].opts["mic_name"] = s.dict.MIC}
           vc == get_venue_config(Parse(history[v]), s.dict.MIC)
           opts == history[v][CHOOSE i \in mine : \A j \in mine : i <= j].opts
<1>1. \/ mine = {} /\ vc = Unset
      \/ mine # {} /\ \A o \in VenueOptions : vc[o] = opts[o]
  BY VenueFound
<1>2. ReadVenue(s, Parse(history[v])) =
        [id |-> vc["venue_id"],
         addr |-> IF s.dict.publishing THEN vc["market_data_broadcast_addr"] ELSE NO_ADDR]
  BY DEF ReadVenue
<1>3. Says(v, s) =
        {[id |-> opts["venue_id"],
          addr |-> IF s.dict.publishing THEN opts["market_data_broadcast_addr"] ELSE NO_ADDR] :
           i \in mine}
  BY DEF Says
<1> HIDE DEF mine, vc, opts
<1>4. mine # {} /\ \A o \in VenueOptions : vc[o] = opts[o]
  <2>1. Unset["venue_id"] = 0
    BY DEF Unset, VenueOptions
  <2>2. ~(0 > 0)
    OBVIOUS
  <2> QED BY <1>1, <1>2, <2>1, <2>2
<1> QED BY <1>2, <1>3, <1>4 DEF VenueOptions

LEMMA GatewayReads ==
  ASSUME Types, NEW v \in 1 .. Len(history), NEW s, s.kind # "collector", s.kind \in Kinds,
         ReadGatewayVenue(s, Parse(history[v])).id > 0
  PROVE  ReadGatewayVenue(s, Parse(history[v])) \in Says(v, s)
<1> DEFINE mine == {i \in VenueSections(history[v]) : history[v][i].opts["mic_name"] = s.dict.MIC}
           vc == get_venue_config(Parse(history[v]), s.dict.MIC)
           opts == history[v][CHOOSE i \in mine : \A j \in mine : i <= j].opts
<1>1. \/ mine = {} /\ vc = Unset
      \/ mine # {} /\ \A o \in VenueOptions : vc[o] = opts[o]
  BY VenueFound
<1>2. ReadGatewayVenue(s, Parse(history[v])) =
        [id |-> IF vc["order_ping_addr"] = NO_ADDR \/ vc["order_interface_addr"] = NO_ADDR
                THEN 0 ELSE vc["venue_id"],
         addr |-> vc["order_interface_addr"]]
  BY DEF ReadGatewayVenue
<1>3. s.kind = "gateway"
  BY DEF Kinds
<1>4. Says(v, s) =
        {[id |-> opts["venue_id"], addr |-> opts["order_interface_addr"]] : i \in mine}
  BY <1>3 DEF Says
<1> HIDE DEF mine, vc, opts
<1>5. /\ mine # {} /\ \A o \in VenueOptions : vc[o] = opts[o]
      /\ ~(vc["order_ping_addr"] = NO_ADDR \/ vc["order_interface_addr"] = NO_ADDR)
  <2>1. Unset["venue_id"] = 0
    BY DEF Unset, VenueOptions
  <2>2. ~(0 > 0)
    OBVIOUS
  <2> QED BY <1>1, <1>2, <2>1, <2>2
<1> QED BY <1>2, <1>4, <1>5 DEF VenueOptions

-----------------------------------------------------------------------------
\* A step of one process, which may drop its request and its reply.
LEMMA ProcessMoves ==
  ASSUME SInv, NEW p \in Process, NEW st, IsState(st),
         proc' = [proc EXCEPT ![p] = st],
         UNCHANGED <<fileVars, server, fullConfig>>,
         request' \in [Peer -> PeerRequest], IsMap(reply'),
         \A q \in Process \ {p} : request'[q] = request[q] /\ reply'[q] = reply[q],
         st.asked <= acked,
         request'[p].at # "none" => st.pc = "poll" /\ request'[p].what = "C",
         reply'[p] # NoReply =>
           reply'[p] = reply[p] /\ st.pc = "poll" /\ st.asked = proc[p].asked,
         st.pc = "local" => "v" \in st.setup.options,
         RunOk(st)
  PROVE  SInv'
<1>1. /\ proc'[p] = st /\ \A q \in Process \ {p} : proc'[q] = proc[q]
      /\ proc' = [q \in Process |-> proc'[q]]
  BY DEF SInv, Types
<1>2. Types'
  BY <1>1 DEF SInv, Types, fileVars, IsState
<1>3. ServerInv'
  BY DEF SInv, ServerInv, SaidSince, fileVars
<1>4. WaitInv'
  <2> SUFFICES ASSUME NEW q \in Process
               PROVE  (/\ proc[q].asked <= acked
                       /\ request[q].at # "none" => proc[q].pc = "poll" /\ request[q].what = "C"
                       /\ reply[q] # NoReply =>
                            /\ proc[q].pc = "poll" /\ reply[q] = <<"CONFIG", reply[q][2]>>
                            /\ SaidSince(proc[q].asked, reply[q][2]))'
    BY DEF WaitInv
  <2>0. /\ proc[q].asked <= acked
        /\ request[q].at # "none" => proc[q].pc = "poll" /\ request[q].what = "C"
        /\ reply[q] # NoReply =>
             /\ proc[q].pc = "poll" /\ reply[q] = <<"CONFIG", reply[q][2]>>
             /\ SaidSince(proc[q].asked, reply[q][2])
    BY DEF SInv, WaitInv
  <2>1. CASE q = p
    BY <1>1, <2>0, <2>1 DEF SaidSince, fileVars
  <2>2. CASE q # p
    BY <1>1, <2>0, <2>2 DEF SaidSince, fileVars
  <2> QED BY <2>1, <2>2
<1>5. LocalInv'
  BY <1>1 DEF SInv, LocalInv
<1>6. RunInv'
  <2>1. ASSUME NEW CONSTANT v, NEW CONSTANT s PROVE Says(v, s)' = Says(v, s)
    BY DEF Says, fileVars
  <2> SUFFICES ASSUME NEW q \in Process,
                      proc'[q].pc \in {"ready", "run", "on"}, "v" \notin proc'[q].setup.options
               PROVE  \E v \in proc'[q].asked .. Len(history) :
                        ~ParseRaises(history[v]) /\ proc'[q].venue \in Says(v, proc'[q].setup)
    BY <2>1 DEF RunInv, RunOk, fileVars
  <2> QED BY <1>1 DEF RunOk, SInv, RunInv
<1> QED BY <1>2, <1>3, <1>4, <1>5, <1>6 DEF SInv

\* A step of the server or the network, which leaves the processes alone.
ServerMove ==
  /\ proc' = proc /\ acked' \in acked .. Len(history') /\ server' \in BOOLEAN
  /\ history' \in Seq(Contents \cup {Absent})
  /\ Len(history) <= Len(history') /\ \A v \in 1 .. Len(history) : history'[v] = history[v]
  /\ server' => SaidSince(acked, fullConfig)'
  /\ request' \in [Peer -> PeerRequest] /\ IsMap(reply')
  /\ \A q \in Process :
       /\ request'[q].at # "none" => request[q].at # "none" /\ request'[q].what = request[q].what
       /\ reply'[q] # NoReply =>
            \/ reply'[q] = reply[q]
            \/ /\ request[q].at # "none" /\ reply'[q] = <<"CONFIG", fullConfig>>
               /\ SaidSince(acked, fullConfig)

LEMMA ServerMoves == ASSUME SInv, ServerMove PROVE SInv'
<1> USE DEF ServerMove
<1>1. /\ Len(history) \in Nat /\ Len(history') \in Nat /\ acked \in 1 .. Len(history)
      /\ acked' \in Nat
  BY DEF SInv, Types
<1>2. Types'
  BY <1>1 DEF SInv, Types, IsState
<1>3. ServerInv'
  BY DEF ServerInv
<1>4. \A q \in Process : proc[q].asked \in Nat \ {0} /\ proc[q].asked <= acked
  BY DEF SInv, Types, IsState, WaitInv
<1>5. ASSUME NEW v \in Nat \ {0}, NEW c, SaidSince(v, c)
      PROVE  \E w \in v .. Len(history') : ~ParseRaises(history'[w]) /\ c = Parse(history'[w])
  BY <1>1, <1>5 DEF SaidSince
<1>6. WaitInv'
  <2> SUFFICES ASSUME NEW q \in Process
               PROVE  (/\ proc[q].asked <= acked
                       /\ request[q].at # "none" => proc[q].pc = "poll" /\ request[q].what = "C"
                       /\ reply[q] # NoReply =>
                            /\ proc[q].pc = "poll" /\ reply[q] = <<"CONFIG", reply[q][2]>>
                            /\ SaidSince(proc[q].asked, reply[q][2]))'
    BY DEF WaitInv
  <2>0. /\ proc[q].asked <= acked
        /\ request[q].at # "none" => proc[q].pc = "poll" /\ request[q].what = "C"
        /\ reply[q] # NoReply =>
             /\ proc[q].pc = "poll" /\ reply[q] = <<"CONFIG", reply[q][2]>>
             /\ SaidSince(proc[q].asked, reply[q][2])
    BY DEF SInv, WaitInv
  <2>1. proc'[q].asked <= acked'
    BY <1>1, <1>4
  <2>2. CASE reply'[q] = NoReply
    BY <2>0, <2>1, <2>2
  <2>3. CASE reply'[q] = reply[q] /\ reply[q] # NoReply
    <3>1. \E w \in proc[q].asked .. Len(history') :
            ~ParseRaises(history'[w]) /\ reply[q][2] = Parse(history'[w])
      BY <1>4, <1>5, <2>0, <2>3
    <3> QED BY <2>0, <2>1, <2>3, <3>1 DEF SaidSince
  <2>4. CASE request[q].at # "none" /\ reply'[q] = <<"CONFIG", fullConfig>>
               /\ SaidSince(acked, fullConfig)
    <3>1. SaidSince(proc[q].asked, fullConfig)
      BY <1>1, <1>4, <2>4 DEF SaidSince
    <3>2. \E w \in proc[q].asked .. Len(history') :
            ~ParseRaises(history'[w]) /\ fullConfig = Parse(history'[w])
      BY <1>4, <1>5, <3>1
    <3>3. reply'[q][2] = fullConfig
      BY <2>4
    <3> QED BY <2>0, <2>1, <2>4, <3>2, <3>3 DEF SaidSince
  <2> QED BY <2>2, <2>3, <2>4
<1>7. LocalInv'
  BY DEF SInv, LocalInv
<1>8. RunInv'
  <2> SUFFICES ASSUME NEW q \in Process,
                      proc[q].pc \in {"ready", "run", "on"}, "v" \notin proc[q].setup.options
               PROVE  \E v \in proc[q].asked .. Len(history') :
                        ~ParseRaises(history'[v]) /\ proc[q].venue \in Says(v, proc[q].setup)'
    BY DEF RunInv, RunOk
  <2>1. PICK v \in proc[q].asked .. Len(history) :
          ~ParseRaises(history[v]) /\ proc[q].venue \in Says(v, proc[q].setup)
    BY DEF SInv, RunInv, RunOk
  <2>2. v \in proc[q].asked .. Len(history') /\ history'[v] = history[v]
    BY <1>1, <1>4
  <2>3. Says(v, proc[q].setup)' = Says(v, proc[q].setup)
    BY <2>2 DEF Says
  <2> QED BY <2>1, <2>2, <2>3
<1> QED BY <1>2, <1>3, <1>6, <1>7, <1>8 DEF SInv

-----------------------------------------------------------------------------
LEMMA ServerKeeps == SInv /\ ServerNext => SInv'
<1> SUFFICES ASSUME SInv, ServerNext PROVE SInv'
  OBVIOUS
<1>1. /\ history \in Seq(Contents \cup {Absent}) /\ Len(history) \in Nat
      /\ acked \in 1 .. Len(history) /\ acked \in acked .. Len(history)
      /\ server \in BOOLEAN /\ request \in [Peer -> PeerRequest]
      /\ IsMap(reply)
      /\ server => SaidSince(acked, fullConfig)
      /\ Process \subseteq Peer /\ Tool \in Peer /\ Tool \notin Process
  BY StartupAssumption DEF SInv, Types, ServerInv, Peer, StartupAssumption
<1>2. File = history[Len(history)]
  BY DEF File, Last
<1>3. ASSUME NEW content \in Contents \cup {Absent}, EditFile(content) PROVE SInv'
  <2>1. /\ history' = Append(history, content) /\ UNCHANGED <<acked, server, fullConfig, zmqVars, proc>>
    BY <1>3 DEF EditFile
  <2>2. /\ history' \in Seq(Contents \cup {Absent}) /\ Len(history') = Len(history) + 1
        /\ \A v \in 1 .. Len(history) : history'[v] = history[v]
    BY <1>1, <2>1
  <2>3. server => SaidSince(acked, fullConfig)'
    BY <1>1, <2>1, <2>2 DEF SaidSince
  <2> QED BY <1>1, <2>1, <2>2, <2>3, ServerMoves DEF ServerMove, zmqVars
<1>4. CASE ServerStarts
  <2>1. SaidSince(acked, fullConfig)'
    BY <1>1, <1>2, <1>4 DEF ServerStarts, SaidSince, fileVars
  <2> QED BY <1>1, <1>4, <2>1, ServerMoves DEF ServerMove, ServerStarts, fileVars, zmqVars
<1>5. ASSUME ServerEnds
      PROVE  /\ request' \in [Peer -> PeerRequest] /\ ~server' /\ server' \in BOOLEAN
             /\ \A q \in Process : request'[q].at # "none" => request'[q] = request[q]
  BY <1>1, <1>5 DEF ServerEnds, NoRequest, PeerRequest
<1>6. CASE ServerCrashes
  <2>1. ServerEnds /\ UNCHANGED <<fileVars, reply, proc>>
    BY <1>6 DEF ServerCrashes
  <2> QED BY <1>1, <1>5, <2>1, ServerMoves DEF ServerMove, fileVars
<1>7. ASSUME NEW x \in Peer, Arrives(x) PROVE SInv'
  <2>1. UNCHANGED <<fileVars, server, fullConfig, reply, proc>>
    BY <1>7 DEF Arrives
  <2>2. /\ request' \in [Peer -> PeerRequest]
        /\ \A q \in Process : request'[q].at # "none" =>
             request[q].at # "none" /\ request'[q].what = request[q].what
    BY <1>1, <1>7 DEF Arrives, PeerRequest
  <2>3. server => SaidSince(acked, fullConfig)'
    BY <1>1, <2>1 DEF SaidSince, fileVars
  <2> QED BY <1>1, <2>1, <2>2, <2>3, ServerMoves DEF ServerMove, fileVars
<1>8. ASSUME NEW x \in Peer, Serve(x) PROVE SInv'
  <2>1. UNCHANGED <<history, proc>> /\ server /\ request[x].at = "arrived"
    BY <1>8 DEF Serve
  <2>2. ASSUME NEW answer, Replies(x, answer)
        PROVE  /\ request' \in [Peer -> PeerRequest] /\ server' = server
               /\ \A q \in Process : request'[q].at # "none" => request'[q] = request[q]
               /\ IsMap(reply')
               /\ \A q \in Process : reply'[q] = reply[q] \/ (x = q /\ reply'[q] = answer)
    <3>1. /\ request' \in [Peer -> PeerRequest] /\ server' = server
          /\ \A q \in Process : request'[q].at # "none" => request'[q] = request[q]
      BY <1>1, <2>2 DEF Replies, NoRequest, PeerRequest
    <3>2. CASE x \in Process
      <4>1. reply' = [reply EXCEPT ![x] = answer] /\ DOMAIN reply = Process
        BY <1>1, <2>2, <3>2 DEF Replies, IsMap
      <4> QED BY <3>1, <3>2, <4>1 DEF IsMap
    <3>3. CASE x \notin Process
      <4>1. reply' = reply
        BY <2>2, <3>3 DEF Replies
      <4> QED BY <1>1, <3>1, <4>1
    <3> QED BY <3>2, <3>3
  <2>3. CASE request[x].what = "C"
    <3>1. Replies(x, <<"CONFIG", fullConfig>>) /\ UNCHANGED <<fullConfig, acked>>
      BY <1>8, <2>3 DEF Serve
    <3>2. SaidSince(acked, fullConfig) /\ SaidSince(acked, fullConfig)'
      BY <1>1, <2>1, <3>1 DEF SaidSince
    <3>3. /\ request' \in [Peer -> PeerRequest] /\ server' = server
          /\ \A q \in Process : request'[q].at # "none" => request'[q] = request[q]
          /\ IsMap(reply')
          /\ \A q \in Process : reply'[q] = reply[q] \/ (x = q /\ reply'[q] = <<"CONFIG", fullConfig>>)
      BY <2>2, <3>1
    <3> QED BY <1>1, <2>1, <3>1, <3>2, <3>3, ServerMoves DEF ServerMove
  <2>4. CASE request[x].what # "C"
    <3>1. x \notin Process
      BY <2>1, <2>4 DEF SInv, WaitInv
    <3>2. CASE request[x].what = "R" /\ ~ParseRaises(File)
      <4>1. /\ Replies(x, <<"REFRESH", "OK">>)
            /\ fullConfig' = Parse(File) /\ acked' = Len(history)
        BY <1>8, <3>2 DEF Serve
      <4>2. SaidSince(acked, fullConfig)'
        BY <1>1, <1>2, <2>1, <3>2, <4>1 DEF SaidSince
      <4>3. /\ request' \in [Peer -> PeerRequest] /\ server' = server
            /\ \A q \in Process : request'[q].at # "none" => request'[q] = request[q]
            /\ IsMap(reply')
            /\ \A q \in Process : reply'[q] = reply[q]
        BY <2>2, <3>1, <4>1
      <4> QED BY <1>1, <2>1, <4>1, <4>2, <4>3, ServerMoves DEF ServerMove
    <3>3. CASE request[x].what = "R" /\ ParseRaises(File)
      <4>1. ServerEnds /\ UNCHANGED <<reply, acked>>
        BY <1>8, <3>3 DEF Serve
      <4> QED BY <1>1, <1>5, <2>1, <4>1, ServerMoves DEF ServerMove
    <3>4. CASE request[x].what \notin {"C", "R"}
      <4>1. Replies(x, <<"ERROR", "unknown message">>) /\ UNCHANGED <<fullConfig, acked>>
        BY <1>8, <3>4 DEF Serve
      <4>2. SaidSince(acked, fullConfig)'
        BY <1>1, <2>1, <4>1 DEF SaidSince
      <4>3. /\ request' \in [Peer -> PeerRequest] /\ server' = server
            /\ \A q \in Process : request'[q].at # "none" => request'[q] = request[q]
            /\ IsMap(reply')
            /\ \A q \in Process : reply'[q] = reply[q]
        <5> DEFINE answer == <<"ERROR", "unknown message">>
        <5>1. Replies(x, answer)
          BY <4>1
        <5> HIDE DEF answer
        <5> QED BY <2>2, <3>1, <5>1
      <4>4. proc' = proc /\ history' = history /\ acked' = acked
        BY <2>1, <4>1
      <4>5. ServerMove
        BY <1>1, <4>2, <4>3, <4>4 DEF ServerMove
      <4> QED BY <4>5, ServerMoves
    <3> QED BY <2>4, <3>2, <3>3, <3>4
  <2> QED BY <2>3, <2>4
<1>9. ASSUME NEW what \in {"R", "?"}, ToolAsks(what) PROVE SInv'
  <2>1. UNCHANGED <<fileVars, server, fullConfig, reply, proc>>
    BY <1>9 DEF ToolAsks
  <2>2. request' \in [Peer -> PeerRequest] /\ \A q \in Process : request'[q] = request[q]
    BY <1>1, <1>9 DEF ToolAsks, PeerRequest
  <2>3. server => SaidSince(acked, fullConfig)'
    BY <1>1, <2>1 DEF SaidSince, fileVars
  <2> QED BY <1>1, <2>1, <2>2, <2>3, ServerMoves DEF ServerMove, fileVars
<1> QED BY <1>3, <1>4, <1>6, <1>7, <1>8, <1>9 DEF ServerNext

LEMMA DownState == IsState(Down) /\ Down.pc = "down" /\ Down.asked = 1
BY StartupAssumption DEF IsState, Down, PC

\* What the steps of a process set.
Asking(st, a) == [st EXCEPT !.pc = "poll", !.retry_count = 3, !.asked = a]
OnePollLess(st) == [st EXCEPT !.retry_count = @ - 1]
Answered(st, venue) == Configured([st EXCEPT !.retry_count = 0], venue)
LoggedOn(st, books, sent) == [st EXCEPT !.pc = "on", !.books = books, !.sent = sent]

\* What a configured process has of what it was.
HasVenue(new, st, venue) ==
  /\ IsState(new) /\ new.pc = "ready" /\ venue.id > 0 /\ new.venue = venue
  /\ new.setup = st.setup /\ new.asked = st.asked

LEMMA SetFields ==
  ASSUME NEW st, IsState(st), st.pc # "down"
  PROVE  /\ \A a \in Nat \ {0} :
              LET new == Asking(st, a) IN IsState(new) /\ new.pc = "poll" /\ new.asked = a
         /\ LET new == OnePollLess(st)
            IN  IsState(new) /\ new.pc = st.pc /\ new.asked = st.asked
         /\ \A books, sent :
              LET new == LoggedOn(st, books, sent)
              IN  /\ IsState(new) /\ new.pc = "on" /\ new.setup = st.setup
                  /\ new.venue = st.venue /\ new.asked = st.asked
<1>1. ASSUME NEW a \in Nat \ {0}
      PROVE  LET new == Asking(st, a) IN IsState(new) /\ new.pc = "poll" /\ new.asked = a
  <2>1. PICK b : b = [st EXCEPT !.pc = "poll"]
    OBVIOUS
  <2>2. PICK c : c = [b EXCEPT !.retry_count = 3]
    OBVIOUS
  <2>3. PICK d : d = [c EXCEPT !.asked = a]
    OBVIOUS
  <2>4. Asking(st, a) = d
    BY <2>1, <2>2, <2>3 DEF Asking
  <2>5. IsState(b) /\ b.pc = "poll"
    BY <2>1 DEF IsState, PC
  <2>6. IsState(c) /\ c.pc = "poll"
    BY <2>2, <2>5 DEF IsState
  <2>7. IsState(d) /\ d.pc = "poll" /\ d.asked = a
    BY <2>3, <2>6 DEF IsState
  <2> QED BY <2>4, <2>7
<1>2. LET new == OnePollLess(st)
      IN  IsState(new) /\ new.pc = st.pc /\ new.asked = st.asked
  BY DEF OnePollLess, IsState, PC
<1>3. ASSUME NEW books, NEW sent
      PROVE  LET new == LoggedOn(st, books, sent)
             IN  /\ IsState(new) /\ new.pc = "on" /\ new.setup = st.setup
                 /\ new.venue = st.venue /\ new.asked = st.asked
  BY DEF LoggedOn, IsState, PC
<1> QED BY <1>1, <1>2, <1>3

LEMMA ConfiguredState ==
  ASSUME NEW st, IsState(st), st.pc # "down", NEW venue
  PROVE  /\ Configured(st, venue) = Down \/ HasVenue(Configured(st, venue), st, venue)
         /\ Answered(st, venue) = Down \/ HasVenue(Answered(st, venue), st, venue)
<1>1. ASSUME NEW s, IsState(s), s.pc # "down"
      PROVE  Configured(s, venue) = Down \/ HasVenue(Configured(s, venue), s, venue)
  <2>1. CASE venue.id > 0
    BY <1>1, <2>1 DEF HasVenue, Configured, IsState, PC
  <2>2. CASE ~(venue.id > 0)
    BY <2>2 DEF Configured
  <2> QED BY <2>1, <2>2
<1>2. PICK s : s = [st EXCEPT !.retry_count = 0]
  OBVIOUS
<1>3. IsState(s) /\ s.pc = st.pc /\ s.setup = st.setup /\ s.asked = st.asked
  BY <1>2 DEF IsState
<1>4. Answered(st, venue) = Configured(s, venue)
  BY <1>2 DEF Answered
<1>5. Answered(st, venue) = Down \/ HasVenue(Answered(st, venue), st, venue)
  BY <1>1, <1>3, <1>4 DEF HasVenue
<1> QED BY <1>1, <1>5

LEMMA ProcessKeeps ==
  ASSUME SInv, NEW p \in Process, ProcessNext(p)
  PROVE  SInv'
<1> DEFINE st == proc[p]
<1>1. /\ IsState(st) /\ st.asked <= acked /\ acked \in Int /\ 1 <= acked
      /\ request \in [Peer -> PeerRequest] /\ IsMap(reply) /\ DOMAIN reply = Process
      /\ Process \subseteq Peer /\ DOMAIN proc = Process
      /\ request[p].at # "none" => st.pc = "poll" /\ request[p].what = "C"
      /\ reply[p] # NoReply =>
           /\ st.pc = "poll" /\ reply[p] = <<"CONFIG", reply[p][2]>>
           /\ SaidSince(st.asked, reply[p][2])
      /\ st.pc = "local" => "v" \in st.setup.options
      /\ RunOk(st)
  BY DEF SInv, Types, WaitInv, LocalInv, RunInv, IsMap, Peer
<1>2. IsState(Down) /\ Down.pc = "down" /\ Down.asked = 1 /\ RunOk(Down)
  BY <1>1, DownState DEF RunOk
<1>3. ASSUME Hangs(p)
      PROVE  /\ request' \in [Peer -> PeerRequest] /\ IsMap(reply')
             /\ request'[p].at = "none" /\ reply'[p] = NoReply
             /\ \A q \in Process \ {p} : request'[q] = request[q] /\ reply'[q] = reply[q]
  BY <1>1, <1>3 DEF Hangs, NoRequest, PeerRequest, IsMap
<1>4. ASSUME Becomes(p, Down), Hangs(p), UNCHANGED <<fileVars, server, fullConfig>>
      PROVE  SInv'
  BY <1>1, <1>2, <1>3, <1>4, ProcessMoves DEF Becomes, IsMap
<1>5. ASSUME NEW s \in Setups, Start(p, s) PROVE SInv'
  <2> DEFINE new == IF s.kind = "collector" THEN CollectorStarts(s) ELSE GatewayStarts(s)
  <2>1. /\ proc[p] = Down /\ Becomes(p, new)
        /\ UNCHANGED <<fileVars, server, fullConfig, zmqVars>>
    BY <1>5 DEF Start
  <2>2. /\ IsState(new) /\ new.asked = 1 /\ new.pc \in {"down", "local", "remote"}
        /\ new.pc = "local" => "v" \in new.setup.options
    BY <1>2 DEF CollectorStarts, GatewayStarts, Down, IsState, PC
  <2>3. RunOk(new)
    BY <2>2 DEF RunOk
  <2>4. request[p].at = "none" /\ reply[p] = NoReply
    BY <1>1, <1>2, <2>1
  <2> HIDE DEF new
  <2> QED BY <1>1, <2>1, <2>2, <2>3, <2>4, ProcessMoves DEF Becomes, zmqVars, IsMap
<1>6. CASE ReadLocalVenueConfig(p)
  <2>1. st.pc = "local" /\ UNCHANGED <<fileVars, server, fullConfig, zmqVars>>
    BY <1>6 DEF ReadLocalVenueConfig
  <2>2. PICK venue : Becomes(p, Down) \/ Becomes(p, Configured(st, venue))
    BY <1>6 DEF ReadLocalVenueConfig
  <2>3. PICK new : Becomes(p, new) /\ (new = Down \/ new = Configured(st, venue))
    BY <2>2
  <2>4. \/ new = Down
        \/ IsState(new) /\ new.pc = "ready" /\ new.setup = st.setup /\ new.asked = st.asked
    <3>2. Configured(st, venue) = Down \/ HasVenue(Configured(st, venue), st, venue)
      BY <1>1, <2>1, ConfiguredState
    <3> QED BY <2>3, <3>2 DEF HasVenue
  <2>5. IsState(new) /\ new.asked <= acked /\ new.pc # "local" /\ RunOk(new)
    BY <1>1, <1>2, <2>1, <2>4 DEF RunOk
  <2>6. request[p].at = "none" /\ reply[p] = NoReply
    BY <1>1, <2>1
  <2> QED BY <1>1, <2>1, <2>3, <2>5, <2>6, ProcessMoves DEF Becomes, zmqVars
<1>7. CASE AsksServer(p)
  <2> DEFINE new == Asking(st, acked)
  <2>1. /\ st.pc = "remote" /\ Becomes(p, new)
        /\ request' = [request EXCEPT ![p] = [at |-> "queued", what |-> "C"]]
        /\ UNCHANGED <<fileVars, server, fullConfig, reply>>
    BY <1>7 DEF AsksServer, Asking
  <2>2. IsState(new) /\ new.pc = "poll" /\ new.asked = acked
    BY <1>1, <2>1, SetFields DEF PC
  <2>3. RunOk(new)
    BY <2>2 DEF RunOk
  <2>4. /\ request' \in [Peer -> PeerRequest] /\ request'[p].what = "C"
        /\ \A q \in Process \ {p} : request'[q] = request[q]
        /\ reply'[p] = NoReply
    BY <1>1, <2>1 DEF PeerRequest
  <2>5. IsMap(reply') /\ reply' = reply /\ new.asked <= acked /\ proc' = [proc EXCEPT ![p] = new]
    BY <1>1, <2>1, <2>2 DEF Becomes
  <2>6. UNCHANGED <<fileVars, server, fullConfig>>
    BY <2>1
  <2> HIDE DEF new
  <2> QED BY <2>2, <2>3, <2>4, <2>5, <2>6, ProcessMoves
<1>8. CASE GetsReply(p)
  <2> DEFINE config == reply[p][2]
             venue == IF st.setup.kind = "collector" THEN ReadVenue(st.setup, config)
                      ELSE ReadGatewayVenue(st.setup, config)
             new == Answered(st, venue)
  <2>1. /\ st.pc = "poll" /\ reply[p] # NoReply /\ Becomes(p, new) /\ Hangs(p)
        /\ UNCHANGED <<fileVars, server, fullConfig>>
    BY <1>8 DEF GetsReply, Answered
  <2>2. new = Down \/ HasVenue(new, st, venue)
    <3> HIDE DEF venue
    <3> QED BY <1>1, <2>1, ConfiguredState
  <2>3. PICK w \in st.asked .. Len(history) : ~ParseRaises(history[w]) /\ config = Parse(history[w])
    BY <1>1, <2>1 DEF SaidSince
  <2>4. w \in 1 .. Len(history) /\ Types /\ st.setup \in Setups /\ st.setup.kind \in Kinds
    BY <1>1, <2>1, StartupAssumption DEF IsState, SInv, Types, StartupAssumption
  <2>5. venue.id > 0 => venue \in Says(w, st.setup)
    <3> HIDE DEF config
    <3>1. CASE st.setup.kind = "collector"
      <4>1. venue = ReadVenue(st.setup, Parse(history[w]))
        BY <2>3, <3>1
      <4> QED BY <2>4, <3>1, <4>1, CollectorReads
    <3>2. CASE st.setup.kind # "collector"
      <4>1. venue = ReadGatewayVenue(st.setup, Parse(history[w]))
        BY <2>3, <3>2
      <4> QED BY <2>4, <3>2, <4>1, GatewayReads
    <3> QED BY <3>1, <3>2
  <2> HIDE DEF new, venue, config
  <2>6. IsState(new) /\ new.asked <= acked /\ new.pc # "local" /\ RunOk(new)
    BY <1>1, <1>2, <2>2, <2>3, <2>5 DEF RunOk, HasVenue
  <2> QED BY <1>1, <1>3, <2>1, <2>6, ProcessMoves DEF Becomes
<1>9. CASE PollTimesOut(p)
  <2>1. st.pc = "poll" /\ reply[p] = NoReply /\ UNCHANGED <<fileVars, server, fullConfig>>
    BY <1>9 DEF PollTimesOut
  <2>2. CASE st.retry_count = 1
    BY <1>4, <1>9, <2>1, <2>2 DEF PollTimesOut
  <2>3. CASE st.retry_count # 1
    <3> DEFINE new == OnePollLess(st)
    <3>1. Becomes(p, new) /\ UNCHANGED zmqVars
      BY <1>9, <2>1, <2>3 DEF PollTimesOut, OnePollLess
    <3>2. IsState(new) /\ new.pc = "poll" /\ new.asked = st.asked
      BY <1>1, <2>1, SetFields
    <3>3. RunOk(new)
      BY <3>2 DEF RunOk
    <3> HIDE DEF new
    <3> QED BY <1>1, <2>1, <3>1, <3>2, <3>3, ProcessMoves DEF Becomes, zmqVars
  <2> QED BY <2>2, <2>3
\* Steps of a process that has its configuration.
<1>10. ASSUME NEW new, Becomes(p, new), UNCHANGED <<fileVars, server, fullConfig, zmqVars>>,
              st.pc \in {"ready", "run", "on"}, IsState(new), new.pc \in {"run", "on"},
              new.setup = st.setup, new.venue = st.venue, new.asked = st.asked
       PROVE  SInv'
  <2>1. RunOk(new)
    BY <1>1, <1>10 DEF RunOk
  <2>2. request[p].at = "none" /\ reply[p] = NoReply
    BY <1>1, <1>10
  <2> QED BY <1>1, <1>10, <2>1, <2>2, ProcessMoves DEF Becomes, zmqVars
<1>11. ASSUME Becomes(p, Down), UNCHANGED <<fileVars, server, fullConfig, zmqVars>>,
              st.pc \in {"ready", "run", "on"}
       PROVE  SInv'
  <2>1. request[p].at = "none" /\ reply[p] = NoReply
    BY <1>1, <1>11
  <2> QED BY <1>1, <1>2, <1>11, <2>1, ProcessMoves DEF Becomes, zmqVars
<1>12. ASSUME NEW pc \in {"run", "on"}, st.pc # "down"
       PROVE  LET new == [st EXCEPT !.pc = pc]
              IN  /\ IsState(new) /\ new.pc = pc /\ new.setup = st.setup /\ new.venue = st.venue
                  /\ new.asked = st.asked
  BY <1>1, <1>12 DEF IsState, PC
<1>13. CASE StartsInitiator(p) \/ GatewayRuns(p)
  <2>1. /\ st.pc = "ready" /\ UNCHANGED <<fileVars, server, fullConfig, zmqVars>>
        /\ Becomes(p, [st EXCEPT !.pc = "run"]) \/ Becomes(p, Down)
    BY <1>13 DEF StartsInitiator, GatewayRuns
  <2> QED BY <1>10, <1>11, <1>12, <2>1
<1>14. CASE Logon(p)
  <2>1. st.pc = "run" /\ UNCHANGED <<fileVars, server, fullConfig, zmqVars>>
    BY <1>14 DEF Logon
  <2>2. PICK books, sent :
          Becomes(p, Down) \/ Becomes(p, LoggedOn(st, books, sent))
    BY <1>14 DEF Logon, LoggedOn
  <2>3. LET new == LoggedOn(st, books, sent)
        IN  /\ IsState(new) /\ new.pc = "on" /\ new.setup = st.setup /\ new.venue = st.venue
            /\ new.asked = st.asked
    BY <1>1, <2>1, SetFields
  <2> QED BY <1>10, <1>11, <2>1, <2>2, <2>3
<1>15. CASE Logout(p)
  <2>1. /\ st.pc = "on" /\ UNCHANGED <<fileVars, server, fullConfig, zmqVars>>
        /\ Becomes(p, [st EXCEPT !.pc = "run"])
    BY <1>15 DEF Logout
  <2> QED BY <1>10, <1>12, <2>1
<1>16. CASE Ends(p)
  BY <1>4, <1>16 DEF Ends
<1> QED BY <1>5, <1>6, <1>7, <1>8, <1>9, <1>13, <1>14, <1>15, <1>16 DEF ProcessNext, Proceeds

-----------------------------------------------------------------------------
LEMMA SInit == Init => SInv
<1> SUFFICES ASSUME Init PROVE SInv
  OBVIOUS
<1>1. PICK c \in Contents : history = <<c>>
  BY DEF Init
<1>2. history \in Seq(Contents \cup {Absent}) /\ Len(history) = 1
  BY <1>1
<1>3. proc = [p \in Process |-> Down] /\ reply = [p \in Process |-> NoReply]
  BY DEF Init
<1>4. IsState(Down) /\ Down.pc = "down" /\ Down.asked = 1
  BY StartupAssumption DEF IsState, Down, PC
<1>5. Types
  <2>1. \A p \in Process : proc[p] = Down
    BY <1>3
  <2>2. proc = [p \in Process |-> proc[p]] /\ IsMap(reply)
    BY <1>3 DEF IsMap
  <2>3. request \in [Peer -> PeerRequest] /\ server \in BOOLEAN /\ acked = 1
    BY DEF Init, NoRequest, PeerRequest
  <2> QED BY <1>2, <1>4, <2>1, <2>2, <2>3 DEF Types
<1>6. ServerInv
  BY DEF Init, ServerInv
<1>7. WaitInv
  <2>1. \A p \in Process : request[p].at = "none" /\ reply[p] = NoReply
    BY <1>3 DEF Init, NoRequest, Peer
  <2> QED BY <1>3, <1>4, <2>1 DEF Init, WaitInv
<1>8. LocalInv /\ RunInv
  BY <1>3, <1>4 DEF LocalInv, RunInv, RunOk
<1> QED BY <1>5, <1>6, <1>7, <1>8 DEF SInv

LEMMA SKeeps == SInv /\ [Next]_vars => SInv'
<1> SUFFICES ASSUME SInv, [Next]_vars PROVE SInv'
  OBVIOUS
<1>1. CASE Next
  BY <1>1, ServerKeeps, ProcessKeeps DEF Next
<1>2. CASE UNCHANGED vars
  <2>1. UNCHANGED <<history, acked, server, fullConfig, request, reply, proc>>
    BY <1>2 DEF vars, fileVars, zmqVars
  <2>2. server => SaidSince(acked, fullConfig)'
    BY <2>1 DEF SInv, ServerInv, SaidSince
  <2>3. ServerMove
    BY <2>1, <2>2 DEF ServerMove, SInv, Types
  <2> QED BY <2>3, ServerMoves
<1> QED BY <1>1, <1>2

\* A process that the server configured runs with an id and an address that
\* one version of the file gives its venue, not older than the refresh that
\* had been acknowledged when it asked: for all files and setups, any number of
\* processes, and whenever files are edited, refreshes asked for and servers end.
THEOREM AcknowledgedVersionRuns == Spec => []RunsOnAcknowledgedVersion
BY SInit, SKeeps, SProperty, PTL DEF Spec

-----------------------------------------------------------------------------
\* What is true of 0 and of the successor of each number below m where it is
\* true is true up to m.
LEMMA UpTo ==
  ASSUME NEW m \in Nat, NEW T, 0 \in T, \A n \in 0 .. m - 1 : n \in T => n + 1 \in T
  PROVE  0 .. m \subseteq T
<1> SUFFICES ASSUME (0 .. m) \ T # {} PROVE FALSE
  OBVIOUS
<1>1. PICK n \in (0 .. m) \ T : \A k \in (0 .. m) \ T : n <= k
  <2>1. (0 .. m) \ T \subseteq Nat
    OBVIOUS
  <2> QED BY <2>1, LeastNat
<1>2. n - 1 \in 0 .. m - 1 /\ n = (n - 1) + 1
  BY <1>1
<1>3. n - 1 \in T
  BY <1>1, <1>2
<1> QED BY <1>1, <1>2, <1>3

\* The loop of Wanted, as a function of the number of lines read.
Step(lines, f, n) ==
  IF n = 0 THEN <<>>
  ELSE IF lines[n] = BLANK THEN f[n - 1] ELSE Append(f[n - 1], lines[n])

Loop(lines, f, m) == f = [n \in 0 .. m |-> Step(lines, f, n)]

LEMMA LoopExists ==
  ASSUME NEW S, NEW lines \in Seq(S)
  PROVE  \E f : Loop(lines, f, Len(lines))
<1> DEFINE T == {m \in 0 .. Len(lines) : \E f : Loop(lines, f, m)}
<1>1. 0 \in T
  <2>1. [n \in 0 .. 0 |-> <<>>] = [n \in 0 .. 0 |-> Step(lines, [k \in 0 .. 0 |-> <<>>], n)]
    BY DEF Step
  <2> QED BY <2>1 DEF Loop
<1>2. ASSUME NEW m \in 0 .. Len(lines) - 1, m \in T
      PROVE  m + 1 \in T
  <2>1. PICK f : f = [n \in 0 .. m |-> Step(lines, f, n)]
    BY <1>2 DEF Loop
  <2>2. PICK g : g = [n \in 0 .. m + 1 |-> IF n <= m THEN f[n] ELSE Step(lines, f, n)]
    OBVIOUS
  <2>3. \A n \in 0 .. m : g[n] = f[n]
    BY <2>2
  <2>4. \A n \in 0 .. m + 1 : g[n] = Step(lines, f, n)
    <3> TAKE n \in 0 .. m + 1
    <3>1. CASE n <= m
      <4>1. n \in 0 .. m
        BY <3>1
      <4> QED BY <2>1, <2>3, <4>1
    <3>2. CASE ~(n <= m)
      BY <2>2, <3>2
    <3> QED BY <3>1, <3>2
  <2>5. \A n \in 0 .. m + 1 : n # 0 => n - 1 \in 0 .. m
    OBVIOUS
  <2>6. \A n \in 0 .. m + 1 : Step(lines, f, n) = Step(lines, g, n)
    BY <2>3, <2>5 DEF Step
  <2>7. g = [n \in 0 .. m + 1 |-> g[n]]
    BY <2>2
  <2>8. g = [n \in 0 .. m + 1 |-> Step(lines, g, n)]
    BY <2>4, <2>6, <2>7
  <2> QED BY <2>8 DEF Loop
<1>3. 0 .. Len(lines) \subseteq T
  <2> HIDE DEF T
  <2> QED BY <1>1, <1>2, UpTo
<1>4. Len(lines) \in 0 .. Len(lines)
  OBVIOUS
<1> QED BY <1>3, <1>4

LEMMA WantedLoop ==
  ASSUME NEW S, NEW lines \in Seq(S)
  PROVE  \E f : Loop(lines, f, Len(lines)) /\ Wanted(lines) = f[Len(lines)]
<1> DEFINE u == CHOOSE f : f = [n \in 0 .. Len(lines) |->
                   IF n = 0 THEN <<>>
                   ELSE IF lines[n] = BLANK THEN f[n - 1] ELSE Append(f[n - 1], lines[n])]
<1>1. \E f : f = [n \in 0 .. Len(lines) |->
                   IF n = 0 THEN <<>>
                   ELSE IF lines[n] = BLANK THEN f[n - 1] ELSE Append(f[n - 1], lines[n])]
  BY LoopExists DEF Loop, Step
<1>2. u = [n \in 0 .. Len(lines) |->
                   IF n = 0 THEN <<>>
                   ELSE IF lines[n] = BLANK THEN u[n - 1] ELSE Append(u[n - 1], lines[n])]
  BY <1>1
<1>3. Wanted(lines) = u[Len(lines)]
  BY DEF Wanted
<1>4. Loop(lines, u, Len(lines))
  BY <1>2 DEF Loop, Step
<1> QED BY <1>3, <1>4

\* s holds the lines of the set `of', in their order.
InOrder(s, lines, of) ==
  \E line \in Surjection(DOMAIN s, of) :
    /\ \A i, j \in DOMAIN s : i < j => line[i] < line[j]
    /\ \A i \in DOMAIN s : s[i] = lines[line[i]]

Filled(lines, m) == {i \in 1 .. m : lines[i] # BLANK}

LEMMA OneMoreLine ==
  ASSUME NEW S, NEW lines \in Seq(S), NEW m \in 0 .. Len(lines) - 1, lines[m + 1] # BLANK,
         NEW s \in Seq(S), InOrder(s, lines, Filled(lines, m))
  PROVE  InOrder(Append(s, lines[m + 1]), lines, Filled(lines, m + 1))
<1> DEFINE k == Len(s)
           t == Append(s, lines[m + 1])
<1>1. PICK line \in Surjection(DOMAIN s, Filled(lines, m)) :
        /\ \A i, j \in DOMAIN s : i < j => line[i] < line[j]
        /\ \A i \in DOMAIN s : s[i] = lines[line[i]]
  BY DEF InOrder
<1>2. /\ line \in [1 .. k -> Filled(lines, m)]
      /\ \A x \in Filled(lines, m) : \E i \in 1 .. k : line[i] = x
  BY <1>1 DEF Surjection
<1>3. PICK new : new = [i \in 1 .. k + 1 |-> IF i <= k THEN line[i] ELSE m + 1]
  OBVIOUS
<1>4. /\ k \in Nat /\ lines[m + 1] \in S /\ m \in Nat
      /\ DOMAIN t = 1 .. k + 1 /\ t[k + 1] = lines[m + 1] /\ \A i \in 1 .. k : t[i] = s[i]
  OBVIOUS
<1>5. Filled(lines, m + 1) = Filled(lines, m) \cup {m + 1}
  BY <1>4 DEF Filled
<1>6. /\ \A i \in 1 .. k : new[i] = line[i] /\ line[i] \in 1 .. m
      /\ new[k + 1] = m + 1
  <2>1. \A i \in 1 .. k : i \in 1 .. k + 1 /\ i <= k
    BY <1>4
  <2>2. \A i \in 1 .. k : line[i] \in 1 .. m
    BY <1>2 DEF Filled
  <2>3. k + 1 \in 1 .. k + 1 /\ ~(k + 1 <= k)
    BY <1>4
  <2> QED BY <1>3, <2>1, <2>2, <2>3
<1>7. new \in [1 .. k + 1 -> Filled(lines, m + 1)]
  BY <1>2, <1>3, <1>4, <1>5
<1>8. \A x \in Filled(lines, m + 1) : \E i \in 1 .. k + 1 : new[i] = x
  <2> TAKE x \in Filled(lines, m + 1)
  <2>1. CASE x = m + 1
    BY <1>4, <1>6, <2>1
  <2>2. CASE x # m + 1
    <3>1. PICK i \in 1 .. k : line[i] = x
      BY <1>2, <1>5, <2>2
    <3>2. i \in 1 .. k + 1 /\ new[i] = x
      BY <1>4, <1>6, <3>1
    <3> QED BY <3>2
  <2> QED BY <2>1, <2>2
<1>9. \A i, j \in 1 .. k + 1 : i < j => new[i] < new[j]
  <2> SUFFICES ASSUME NEW i \in 1 .. k + 1, NEW j \in 1 .. k + 1, i < j
               PROVE  new[i] < new[j]
    OBVIOUS
  <2>1. i \in 1 .. k
    BY <1>4
  <2>2. CASE j = k + 1
    BY <1>4, <1>6, <2>1, <2>2
  <2>3. CASE j \in 1 .. k
    BY <1>1, <1>4, <1>6, <2>1, <2>3
  <2> QED BY <1>4, <2>2, <2>3
<1>10. \A i \in 1 .. k + 1 : t[i] = lines[new[i]]
  BY <1>1, <1>4, <1>6
<1>11. new \in Surjection(DOMAIN t, Filled(lines, m + 1))
  BY <1>4, <1>7, <1>8 DEF Surjection
<1> HIDE DEF t
<1> QED BY <1>4, <1>9, <1>10, <1>11 DEF InOrder

\* Wanted has the lines that are not empty, in their order.
LEMMA WantedInOrder ==
  ASSUME NEW S, NEW lines \in Seq(S)
  PROVE  /\ Wanted(lines) \in Seq(S)
         /\ InOrder(Wanted(lines), lines, Filled(lines, Len(lines)))
<1>1. PICK f : Loop(lines, f, Len(lines)) /\ Wanted(lines) = f[Len(lines)]
  BY WantedLoop
<1>2. \A n \in 0 .. Len(lines) : f[n] = Step(lines, f, n)
  BY <1>1 DEF Loop
<1> DEFINE T == {m \in 0 .. Len(lines) : f[m] \in Seq(S) /\ InOrder(f[m], lines, Filled(lines, m))}
<1>3. 0 \in T
  <2>1. f[0] = <<>> /\ DOMAIN <<>> = {} /\ Filled(lines, 0) = {}
    BY <1>2 DEF Step, Filled
  <2>2. <<>> \in Surjection({}, {})
    BY DEF Surjection
  <2>3. InOrder(<<>>, lines, {})
    BY <2>1, <2>2 DEF InOrder
  <2>4. 0 \in 0 .. Len(lines) /\ <<>> \in Seq(S)
    OBVIOUS
  <2> QED BY <2>1, <2>3, <2>4
<1>4. ASSUME NEW m \in 0 .. Len(lines) - 1, m \in T
      PROVE  m + 1 \in T
  <2>1. /\ m + 1 \in 0 .. Len(lines) /\ m + 1 # 0 /\ (m + 1) - 1 = m
        /\ lines[m + 1] \in S
    OBVIOUS
  <2>2. f[m + 1] = IF lines[m + 1] = BLANK THEN f[m] ELSE Append(f[m], lines[m + 1])
    BY <1>2, <2>1 DEF Step
  <2>3. CASE lines[m + 1] = BLANK
    <3>1. Filled(lines, m + 1) = Filled(lines, m)
      BY <2>3 DEF Filled
    <3> QED BY <1>4, <2>1, <2>2, <2>3, <3>1
  <2>4. CASE lines[m + 1] # BLANK
    <3>1. f[m] \in Seq(S) /\ InOrder(f[m], lines, Filled(lines, m))
      BY <1>4
    <3>2. InOrder(Append(f[m], lines[m + 1]), lines, Filled(lines, m + 1))
      BY <2>4, <3>1, OneMoreLine
    <3>3. Append(f[m], lines[m + 1]) \in Seq(S)
      BY <2>1, <3>1
    <3> QED BY <2>1, <2>2, <2>4, <3>2, <3>3
  <2> QED BY <2>3, <2>4
<1>5. 0 .. Len(lines) \subseteq T
  <2> HIDE DEF T
  <2> QED BY <1>3, <1>4, UpTo
<1>6. Len(lines) \in 0 .. Len(lines)
  OBVIOUS
<1> QED BY <1>1, <1>5, <1>6

-----------------------------------------------------------------------------
\* The loop of FlattenSeq over the first m sequences.
JoinStep(seqs, f, n) == IF n = 1 THEN seqs[n] ELSE f[n - 1] \o seqs[n]

Join(seqs, f, m) == f = [n \in 1 .. m |-> JoinStep(seqs, f, n)]

LEMMA JoinExists ==
  ASSUME NEW S, NEW seqs \in Seq(S)
  PROVE  \E f : Join(seqs, f, Len(seqs))
<1> DEFINE T == {m \in 0 .. Len(seqs) : \E f : Join(seqs, f, m)}
<1>1. 0 \in T
  <2>1. 1 .. 0 = {} /\ 0 \in 0 .. Len(seqs)
    OBVIOUS
  <2>2. <<>> = [n \in 1 .. 0 |-> JoinStep(seqs, <<>>, n)]
    BY <2>1
  <2> QED BY <2>1, <2>2 DEF Join
<1>2. ASSUME NEW m \in 0 .. Len(seqs) - 1, m \in T
      PROVE  m + 1 \in T
  <2>1. PICK f : f = [n \in 1 .. m |-> JoinStep(seqs, f, n)]
    BY <1>2 DEF Join
  <2>2. PICK g : g = [n \in 1 .. m + 1 |-> IF n <= m THEN f[n] ELSE JoinStep(seqs, f, n)]
    OBVIOUS
  <2>3. \A n \in 1 .. m : g[n] = f[n]
    BY <2>2
  <2>4. \A n \in 1 .. m + 1 : g[n] = JoinStep(seqs, f, n)
    <3> TAKE n \in 1 .. m + 1
    <3>1. CASE n <= m
      <4>1. n \in 1 .. m
        BY <3>1
      <4> QED BY <2>1, <2>3, <4>1
    <3>2. CASE ~(n <= m)
      BY <2>2, <3>2
    <3> QED BY <3>1, <3>2
  <2>5. \A n \in 1 .. m + 1 : n # 1 => n - 1 \in 1 .. m
    OBVIOUS
  <2>6. \A n \in 1 .. m + 1 : JoinStep(seqs, f, n) = JoinStep(seqs, g, n)
    BY <2>3, <2>5 DEF JoinStep
  <2>7. g = [n \in 1 .. m + 1 |-> g[n]]
    BY <2>2
  <2>8. g = [n \in 1 .. m + 1 |-> JoinStep(seqs, g, n)]
    BY <2>4, <2>6, <2>7
  <2>9. m + 1 \in 0 .. Len(seqs)
    OBVIOUS
  <2> QED BY <2>8, <2>9 DEF Join
<1>3. 0 .. Len(seqs) \subseteq T
  <2> HIDE DEF T
  <2> QED BY <1>1, <1>2, UpTo
<1>4. Len(seqs) \in 0 .. Len(seqs)
  OBVIOUS
<1> QED BY <1>3, <1>4

LEMMA FlattenJoins ==
  ASSUME NEW S, NEW seqs \in Seq(S), seqs # <<>>
  PROVE  \E f : Join(seqs, f, Len(seqs)) /\ FlattenSeq(seqs) = f[Len(seqs)]
<1> DEFINE u == CHOOSE f : f = [i \in 1 .. Len(seqs) |->
                   IF i = 1 THEN seqs[i] ELSE f[i - 1] \o seqs[i]]
<1>1. \E f : f = [i \in 1 .. Len(seqs) |-> IF i = 1 THEN seqs[i] ELSE f[i - 1] \o seqs[i]]
  BY JoinExists DEF Join, JoinStep
<1>2. u = [i \in 1 .. Len(seqs) |-> IF i = 1 THEN seqs[i] ELSE u[i - 1] \o seqs[i]]
  BY <1>1
<1>3. FlattenSeq(seqs) = u[Len(seqs)]
  <2>1. Len(seqs) # 0
    OBVIOUS
  <2> QED BY <2>1 DEF FlattenSeq
<1>4. Join(seqs, u, Len(seqs))
  BY <1>2 DEF Join, JoinStep
<1> QED BY <1>3, <1>4

LEMMA FlattenOne ==
  ASSUME NEW S, NEW s \in Seq(S)
  PROVE  FlattenSeq(<<s>>) = s
<1>1. <<s>> \in Seq(Seq(S)) /\ <<s>> # <<>> /\ Len(<<s>>) = 1 /\ <<s>>[1] = s
  OBVIOUS
<1>2. PICK f : Join(<<s>>, f, 1) /\ FlattenSeq(<<s>>) = f[1]
  BY <1>1, FlattenJoins
<1> QED BY <1>1, <1>2 DEF Join, JoinStep

LEMMA FlattenSingles ==
  ASSUME NEW S, NEW s \in Seq(S)
  PROVE  FlattenSeq([i \in DOMAIN s |-> <<s[i]>>]) = s
<1> DEFINE seqs == [i \in DOMAIN s |-> <<s[i]>>]
<1>1. /\ seqs \in Seq(Seq(S)) /\ Len(seqs) = Len(s) /\ DOMAIN s = 1 .. Len(s)
      /\ \A i \in 1 .. Len(s) : seqs[i] = <<s[i]>> /\ s[i] \in S
  <2>1. DOMAIN s = 1 .. Len(s) /\ Len(s) \in Nat /\ \A i \in 1 .. Len(s) : s[i] \in S
    OBVIOUS
  <2>2. \A i \in 1 .. Len(s) : <<s[i]>> \in Seq(S)
    BY <2>1
  <2>3. seqs = [i \in 1 .. Len(s) |-> <<s[i]>>]
    BY <2>1
  <2>4. seqs \in [1 .. Len(s) -> Seq(S)]
    BY <2>2, <2>3
  <2> QED BY <2>1, <2>3, <2>4
<1> HIDE DEF seqs
<1>2. CASE s = <<>>
  <2>1. Len(seqs) = 0 /\ seqs = <<>>
    BY <1>1, <1>2
  <2> QED BY <1>2, <2>1 DEF FlattenSeq, seqs
<1>3. CASE s # <<>>
  <2>1. seqs # <<>> /\ Len(s) \in Nat /\ 1 <= Len(s)
    BY <1>1, <1>3
  <2>2. PICK f : Join(seqs, f, Len(s)) /\ FlattenSeq(seqs) = f[Len(s)]
    BY <1>1, <2>1, FlattenJoins
  <2>3. \A n \in 1 .. Len(s) : f[n] = JoinStep(seqs, f, n)
    BY <2>2 DEF Join
  <2> DEFINE Prefix(t, n) == t \in Seq(S) /\ Len(t) = n /\ \A i \in 1 .. n : t[i] = s[i]
             T == {n \in 0 .. Len(s) : n # 0 => Prefix(f[n], n)}
  <2>4. 0 \in T
    OBVIOUS
  <2>5. ASSUME NEW n \in 0 .. Len(s) - 1, n \in T
        PROVE  n + 1 \in T
    <3>1. n + 1 \in 1 .. Len(s) /\ s[n + 1] \in S /\ (n + 1) - 1 = n
      BY <1>1, <2>1
    <3>2. f[n + 1] = IF n + 1 = 1 THEN <<s[n + 1]>> ELSE f[n] \o <<s[n + 1]>>
      BY <1>1, <2>3, <3>1 DEF JoinStep
    <3>3. CASE n = 0
      <4>1. f[1] = <<s[1]>> /\ s[1] \in S
        BY <3>1, <3>2, <3>3
      <4>2. Prefix(f[1], 1)
        BY <4>1
      <4> QED BY <3>1, <3>3, <4>2
    <3>4. CASE n # 0
      <4>1. Prefix(f[n], n) /\ n \in Nat
        BY <2>5, <3>4
      <4>2. f[n + 1] = f[n] \o <<s[n + 1]>>
        BY <3>2, <3>4
      <4>3. Prefix(f[n + 1], n + 1)
        BY <3>1, <4>1, <4>2
      <4> HIDE DEF Prefix
      <4> QED BY <3>1, <4>3
    <3> QED BY <3>3, <3>4
  <2>6. 0 .. Len(s) \subseteq T
    <3> HIDE DEF T
    <3> QED BY <2>1, <2>4, <2>5, UpTo
  <2>7. Prefix(f[Len(s)], Len(s))
    <3>1. Len(s) \in 0 .. Len(s) /\ Len(s) # 0
      BY <2>1
    <3> HIDE DEF Prefix
    <3> QED BY <2>6, <3>1
  <2>8. f[Len(s)] = s
    BY <2>7
  <2> QED BY <2>2, <2>8 DEF seqs
<1> QED BY <1>2, <1>3

-----------------------------------------------------------------------------
\* Whatever form the requests have, they ask for the lines that are wanted.
LEMMA RequestsAsk ==
  ASSUME NEW S, NEW lines \in Seq(S), NEW dict,
         RequestsAny(lines, dict) => dict.FIXVersion \in CompiledIn
  PROVE  LET sent == Requests(lines, dict)
         IN  /\ FlattenSeq([i \in DOMAIN sent |-> sent[i].symbols]) = Wanted(lines)
             /\ \A i \in DOMAIN sent : sent[i].entries = {"BID", "OFFER"}
<1>1. Wanted(lines) \in Seq(S)
  BY WantedInOrder
<1>2. PICK security : Requests(lines, dict) = RequestsFor(lines, security, dict)
  <2>1. CASE ~RequestsAny(lines, dict)
    <3>1. dict.individual /\ Wanted(lines) = <<>>
      BY <2>1 DEF RequestsAny
    <3>2. RequestsFor(lines, "none", dict) = <<>>
      BY <3>1 DEF RequestsFor
    <3> QED BY <2>1, <3>2 DEF Requests
  <2>2. CASE RequestsAny(lines, dict)
    <3>1. dict.FIXVersion \in {42, 43, 44, 50, 52}
      BY <2>2, StartupAssumption DEF StartupAssumption
    <3>2. CASE dict.FIXVersion \in {42, 43, 44}
      <4>1. Requests(lines, dict) = RequestsFor(lines, "none", dict)
        BY <2>2, <3>2 DEF Requests, Requests42, Requests43, Requests44
      <4> QED BY <4>1
    <3>3. CASE dict.FIXVersion \in {50, 52}
      <4>1. Requests(lines, dict) = RequestsFor(lines, "FOR", dict)
        BY <2>2, <3>3 DEF Requests, Requests50, Requests50SP2
      <4> QED BY <4>1
    <3> QED BY <3>1, <3>2, <3>3
  <2> QED BY <2>1, <2>2
<1> DEFINE wanted == Wanted(lines)
<1>3. CASE dict.individual
  <2>1. PICK sent : sent = [i \in DOMAIN wanted |->
          MarketDataRequest(<<"CAPK", wanted[i]>>, <<wanted[i]>>, security, dict)]
    OBVIOUS
  <2>2. Requests(lines, dict) = sent
    BY <1>2, <1>3, <2>1 DEF RequestsFor
  <2> HIDE DEF wanted
  <2>3. /\ DOMAIN sent = DOMAIN wanted
        /\ \A i \in DOMAIN wanted : /\ sent[i].symbols = <<wanted[i]>>
                                     /\ sent[i].entries = {"BID", "OFFER"}
    BY <2>1 DEF MarketDataRequest
  <2>4. [i \in DOMAIN sent |-> sent[i].symbols] = [i \in DOMAIN wanted |-> <<wanted[i]>>]
    BY <2>3
  <2>5. FlattenSeq([i \in DOMAIN wanted |-> <<wanted[i]>>]) = wanted
    BY <1>1, FlattenSingles DEF wanted
  <2>6. FlattenSeq([i \in DOMAIN sent |-> sent[i].symbols]) = Wanted(lines)
    BY <2>4, <2>5 DEF wanted
  <2>7. \A i \in DOMAIN sent : sent[i].entries = {"BID", "OFFER"}
    BY <2>3
  <2> QED BY <2>2, <2>6, <2>7
<1>4. CASE ~dict.individual
  <2>1. PICK request1 : request1 = MarketDataRequest(<<"CAPK">>, wanted, "none", dict)
    OBVIOUS
  <2>2. Requests(lines, dict) = <<request1>>
    BY <1>2, <1>4, <2>1 DEF RequestsFor
  <2>3. request1.symbols = wanted /\ request1.entries = {"BID", "OFFER"}
    BY <2>1 DEF MarketDataRequest
  <2> HIDE DEF wanted
  <2>4. [i \in DOMAIN <<request1>> |-> <<request1>>[i].symbols] = <<wanted>>
    BY <2>3
  <2>5. FlattenSeq(<<wanted>>) = wanted
    BY <1>1, FlattenOne DEF wanted
  <2>6. \A i \in DOMAIN <<request1>> : <<request1>>[i].entries = {"BID", "OFFER"}
    BY <2>3
  <2> QED BY <2>2, <2>4, <2>5, <2>6 DEF wanted
<1> QED BY <1>3, <1>4

\* The books of a process are for lines of its symbol file, and what a
\* collector that is logged on has sent are the requests for that file.
AskOk(st) ==
  /\ st.pc # "down" /\ st.setup.kind = "collector" => st.setup.symbols # Absent
  /\ st.books \subseteq Booked(st.setup.symbols)
  /\ st.pc = "on" =>
       /\ st.setup.kind = "collector"
       /\ RequestsAny(st.setup.symbols, st.setup.dict) => st.setup.dict.FIXVersion \in CompiledIn
       /\ st.sent = Requests(st.setup.symbols, st.setup.dict)

AskInv == \A p \in Process : AskOk(proc[p])

LEMMA AskProperty == SInv /\ AskInv => EverySymbolRequested
<1> SUFFICES ASSUME SInv, AskInv, NEW p \in Process, proc[p].pc = "on"
             PROVE  LET lines  == proc[p].setup.symbols
                        filled == {i \in DOMAIN lines : lines[i] # BLANK}
                        asked  == AskedFor(p)
                    IN  /\ \E line \in Surjection(DOMAIN asked, filled) :
                             /\ \A i, j \in DOMAIN asked : i < j => line[i] < line[j]
                             /\ \A i \in DOMAIN asked : asked[i] = lines[line[i]]
                        /\ proc[p].books \subseteq ToSet(asked)
                        /\ \A i \in DOMAIN proc[p].sent :
                             {"BID", "OFFER"} = proc[p].sent[i].entries
  BY DEF EverySymbolRequested
<1> DEFINE lines == proc[p].setup.symbols
           asked == AskedFor(p)
<1>1. /\ proc[p].setup \in Setups
      /\ RequestsAny(lines, proc[p].setup.dict) => proc[p].setup.dict.FIXVersion \in CompiledIn
      /\ proc[p].sent = Requests(lines, proc[p].setup.dict)
      /\ lines # Absent /\ proc[p].books \subseteq Booked(lines)
  BY DEF SInv, Types, IsState, AskInv, AskOk
<1>2. PICK S : lines \in Seq(S)
  BY <1>1, StartupAssumption DEF StartupAssumption
<1>3. asked = Wanted(lines) /\ \A i \in DOMAIN proc[p].sent : {"BID", "OFFER"} = proc[p].sent[i].entries
  <2> HIDE DEF lines
  <2> QED BY <1>1, <1>2, RequestsAsk DEF AskedFor
<1>4. InOrder(asked, lines, Filled(lines, Len(lines)))
  <2> HIDE DEF lines, asked
  <2> QED BY <1>2, <1>3, WantedInOrder
<1> HIDE DEF lines, asked
<1>5. /\ Filled(lines, Len(lines)) = {i \in DOMAIN lines : lines[i] # BLANK}
      /\ DOMAIN lines = 1 .. Len(lines)
  BY <1>2 DEF Filled
<1>6. proc[p].books \subseteq ToSet(asked)
  <2> SUFFICES ASSUME NEW x \in Booked(lines) PROVE x \in ToSet(asked)
    BY <1>1
  <2>1. PICK i \in DOMAIN lines : x = lines[i] /\ \A k \in 1 .. i : lines[k] # BLANK
    BY DEF Booked
  <2>2. i \in Filled(lines, Len(lines))
    <3>1. i \in 1 .. i
      BY <1>5
    <3> QED BY <1>5, <2>1, <3>1
  <2>3. PICK k \in DOMAIN asked : asked[k] = lines[i]
    BY <1>4, <2>2 DEF InOrder, Surjection
  <2> QED BY <2>1, <2>3 DEF ToSet
<1> QED BY <1>3, <1>4, <1>5, <1>6 DEF InOrder, lines, asked

\* A step of a process that is up and keeps its setup and its books, and
\* does not log on.
LEMMA AskFrame ==
  ASSUME NEW st, AskOk(st), st.pc # "down",
         NEW new, new.setup = st.setup, new.books = st.books, new.pc # "on"
  PROVE  AskOk(new)
BY DEF AskOk

\* Neither the server nor the network touches a process.
LEMMA ServerLeaves == ServerNext => proc' = proc
BY DEF ServerNext, EditFile, ServerStarts, ServerCrashes, Arrives, Serve, ToolAsks

LEMMA AskDown == AskOk(Down)
BY DEF AskOk, Down

\* What a step of a process that is up makes of its state.
Follows(new, st) ==
  \/ new = Down
  \/ new.setup = st.setup /\ new.books = st.books /\ new.pc # "on"

LEMMA StateFollows ==
  ASSUME NEW st, IsState(st), st.pc # "down"
  PROVE  /\ \A a : Follows(Asking(st, a), st)
         /\ st.pc # "on" => Follows(OnePollLess(st), st)
         /\ \A venue : Follows(Configured(st, venue), st) /\ Follows(Answered(st, venue), st)
         /\ Follows([st EXCEPT !.pc = "run"], st)
<1>1. \A a : Follows(Asking(st, a), st)
  BY DEF Follows, Asking, IsState
<1>2. st.pc # "on" => Follows(OnePollLess(st), st)
  BY DEF Follows, OnePollLess, IsState
<1>3. \A venue : Follows(Configured(st, venue), st)
  BY DEF Follows, Configured, IsState
<1>4. \A venue : Follows(Answered(st, venue), st)
  BY DEF Follows, Answered, Configured, IsState
<1>5. Follows([st EXCEPT !.pc = "run"], st)
  BY DEF Follows, IsState
<1> QED BY <1>1, <1>2, <1>3, <1>4, <1>5

LEMMA AskKeeps ==
  ASSUME SInv, AskInv, NEW p \in Process, ProcessNext(p)
  PROVE  AskInv'
<1> DEFINE st == proc[p]
<1>1. IsState(st) /\ AskOk(st) /\ DOMAIN proc = Process
  BY DEF SInv, Types, AskInv
<1>2. ASSUME NEW new, Becomes(p, new), AskOk(new) PROVE AskInv'
  BY <1>1, <1>2 DEF AskInv, Becomes
<1>3. ASSUME NEW new, Becomes(p, new), Follows(new, st), st.pc # "down" PROVE AskInv'
  <2>1. AskOk(new)
    BY <1>1, <1>3, AskFrame, AskDown DEF Follows
  <2> QED BY <1>2, <1>3, <2>1
<1>4. ASSUME Becomes(p, Down) PROVE AskInv'
  BY <1>2, <1>4, AskDown
<1>5. ASSUME NEW s \in Setups, Start(p, s) PROVE AskInv'
  <2> DEFINE new == IF s.kind = "collector" THEN CollectorStarts(s) ELSE GatewayStarts(s)
  <2>1. Becomes(p, new)
    BY <1>5 DEF Start
  <2>2. \/ new = Down
        \/ /\ new.setup = s /\ new.books = {} /\ new.pc \in {"local", "remote"}
           /\ s.kind = "collector" => readSymbolsFile(s.symbols) # <<>>
    BY DEF CollectorStarts, GatewayStarts, Down
  <2>3. s.kind = "collector" /\ readSymbolsFile(s.symbols) # <<>> => s.symbols # Absent
    BY DEF readSymbolsFile
  <2>4. AskOk(new)
    BY <2>2, <2>3, AskDown DEF AskOk
  <2> HIDE DEF new
  <2> QED BY <1>2, <2>1, <2>4
<1>6. CASE ReadLocalVenueConfig(p)
  <2>1. PICK venue : st.pc = "local" /\ (Becomes(p, Down) \/ Becomes(p, Configured(st, venue)))
    BY <1>6 DEF ReadLocalVenueConfig
  <2> QED BY <1>1, <1>3, <1>4, <2>1, StateFollows
<1>7. CASE AsksServer(p)
  <2>1. st.pc = "remote" /\ Becomes(p, Asking(st, acked))
    BY <1>7 DEF AsksServer, Asking
  <2> QED BY <1>1, <1>3, <2>1, StateFollows
<1>8. CASE GetsReply(p)
  <2>1. PICK venue : st.pc = "poll" /\ Becomes(p, Answered(st, venue))
    BY <1>8 DEF GetsReply, Answered
  <2> QED BY <1>1, <1>3, <2>1, StateFollows
<1>9. CASE PollTimesOut(p)
  <2>1. st.pc = "poll" /\ (Becomes(p, Down) \/ Becomes(p, OnePollLess(st)))
    BY <1>9 DEF PollTimesOut, OnePollLess
  <2> QED BY <1>1, <1>3, <1>4, <2>1, StateFollows
<1>10. CASE StartsInitiator(p) \/ GatewayRuns(p)
  <2>1. /\ st.pc = "ready"
        /\ Becomes(p, [st EXCEPT !.pc = "run"]) \/ Becomes(p, Down)
    BY <1>10 DEF StartsInitiator, GatewayRuns
  <2> QED BY <1>1, <1>3, <1>4, <2>1, StateFollows
<1>11. CASE Logon(p)
  <2> DEFINE dict == st.setup.dict
             lines == readSymbolsFile(st.setup.symbols)
             new == LoggedOn(st, st.books \cup Booked(lines), Requests(lines, dict))
             throws == RequestsAny(lines, dict) /\ dict.FIXVersion \notin CompiledIn
  <2>1. /\ st.pc = "run" /\ st.setup.kind = "collector"
        /\ Becomes(p, IF throws THEN Down ELSE new)
    BY <1>11 DEF Logon, LoggedOn
  <2>2. CASE throws
    BY <1>4, <2>1, <2>2
  <2>3. CASE ~throws
    <3>1. lines = st.setup.symbols
      BY <1>1, <2>1 DEF AskOk, readSymbolsFile
    <3>2. /\ new.setup = st.setup /\ new.books = st.books \cup Booked(lines)
          /\ new.sent = Requests(lines, dict) /\ new.pc = "on"
      <4> HIDE DEF lines, dict
      <4> QED BY <1>1 DEF LoggedOn, IsState
    <3>3. AskOk(new)
      <4> HIDE DEF new, lines
      <4> QED BY <1>1, <2>1, <2>3, <3>1, <3>2 DEF AskOk
    <3> HIDE DEF new
    <3> QED BY <1>2, <2>1, <2>3, <3>3
  <2> QED BY <2>2, <2>3
<1>12. CASE Logout(p)
  <2>1. st.pc = "on" /\ Becomes(p, [st EXCEPT !.pc = "run"])
    BY <1>12 DEF Logout
  <2> QED BY <1>1, <1>3, <2>1, StateFollows
<1>13. CASE Ends(p)
  BY <1>4, <1>13 DEF Ends
<1> QED BY <1>5, <1>6, <1>7, <1>8, <1>9, <1>10, <1>11, <1>12, <1>13 DEF ProcessNext, Proceeds

\* At every logon the collector asks for both sides of each line of its
\* symbol file that is not empty, once and in order, and every book it has is
\* for one of them: for all setups, in every FIX version that is compiled in,
\* and however often it is started and logs on.
THEOREM SymbolsRequested == Spec => []EverySymbolRequested
<1>1. Init => SInv /\ AskInv
  <2>1. Init => \A p \in Process : proc[p] = Down
    BY DEF Init
  <2> QED BY <2>1, SInit, AskDown DEF AskInv
<1>2. SInv /\ AskInv /\ [Next]_vars => SInv' /\ AskInv'
  <2> SUFFICES ASSUME SInv, AskInv, [Next]_vars PROVE SInv' /\ AskInv'
    OBVIOUS
  <2>1. SInv'
    BY SKeeps
  <2>2. CASE ServerNext
    BY <2>1, <2>2, ServerLeaves DEF AskInv
  <2>3. ASSUME NEW p \in Process, ProcessNext(p) PROVE AskInv'
    BY <2>3, AskKeeps
  <2>4. CASE UNCHANGED vars
    BY <2>1, <2>4 DEF vars, AskInv
  <2> QED BY <2>1, <2>2, <2>3, <2>4 DEF Next
<1> QED BY <1>1, <1>2, AskProperty, PTL DEF Spec
=============================================================================
