---------------------------- MODULE MdCollector ----------------------------
(***************************************************************************)
(* The FIX market data collector: one KBook for each configured symbol,    *)
(* built from the venue's snapshots (35=W) and incremental refreshes       *)
(* (35=X); after each message the top of a book is broadcast.              *)
(*                                                                         *)
(* All callbacks run on the FIX thread, one message at a time; a message   *)
(* is worked through entry by entry.  The variables a handler declares     *)
(* outside its loop keep their value from one entry to the next: an entry  *)
(* without a symbol or an id has the previous entry's.                     *)
(*                                                                         *)
(* The venue is external.  It holds quotes, answers a subscription with a  *)
(* snapshot and then tells every change; it may also send other messages   *)
(* (Stray), after which it may not be followed until the next logon.  The  *)
(* session resets its sequence numbers at logon (ResetSeqNo=Y), so what is *)
(* in flight at a logout is lost.                                          *)
(*                                                                         *)
(* The collector is configured to publish (should_publish_prices).         *)
(* MDEntryType, MDEntryPx and MDUpdateAction, and in a snapshot            *)
(* MDEntrySize, are taken to be set; in a refresh a missing MDEntrySize is *)
(* the 0 the code puts for it.  Ids are what hashlittle makes of them.     *)
(***************************************************************************)
EXTENDS KBook, Sequences

CONSTANTS
  Symbol,       \* the configured symbols
  OtherSymbol,  \* symbols the venue may mention besides
  NO_SYM,       \* no symbol set, or no book
  NO_ID,        \* no entry id set
  EmptyHash,    \* hashlittle of an empty id
  Quoted,       \* the symbols the venue has quotes in
  Stray,        \* messages the venue may send that follow from no quote
  NewReplaces,  \* new_replaces: a NEW may repeat a live id
  AssertsOn,    \* built with dbg=1; the default build defines NDEBUG
  MaxChannel,   \* bound: messages in flight
  MaxEntries,   \* bound: entries of an incremental refresh
  MaxTold       \* bound: what the venue does

AnySymbol == Symbol \cup OtherSymbol \cup {NO_SYM}
AnyId == OrderId \cup {NO_ID}

Entry ==
  [action : {"NEW", "CHANGE", "DELETE", "OTHER"}, sym : AnySymbol, id : AnyId, qid : AnyId,
   ref : AnyId, side : SideArg, price : Price, size : Size]

\* kind: a snapshot (35=W) or an incremental refresh (35=X).
Message == [kind : {"W", "X"}, sym : AnySymbol, entries : Seq(Entry)]

ASSUME CollectorAssumption ==
  /\ NO_SYM \notin Symbol \cup OtherSymbol /\ Symbol \cap OtherSymbol = {}
  /\ Quoted \subseteq Symbol
  /\ NO_ID \notin OrderId /\ EmptyHash \in OrderId /\ IsFiniteSet(OrderId)
  /\ \A m \in Stray :
       /\ m = [kind |-> m.kind, sym |-> m.sym, entries |-> m.entries]
       /\ m.kind \in {"W", "X"} /\ m.sym \in AnySymbol
       /\ m.entries \in Seq(Entry)
  /\ NewReplaces \in BOOLEAN /\ AssertsOn \in BOOLEAN
  /\ MaxChannel \in Nat /\ MaxEntries \in Nat /\ MaxTold \in Nat

VARIABLES
  death,       \* why the process ended; "none" while it runs
  on,          \* logged on
  books,       \* _symbolToBook
  work,        \* the message being worked through: see Working
  published,   \* the last broadcast of each symbol
  channel,     \* messages in flight
  quotes,      \* the venue: symbol -> order id -> side, price, size
  requested,   \* symbols whose subscription the venue has not answered yet
  subscribed,  \* symbols whose changes it tells
  told,        \* how much the venue has done
  heard,       \* symbols broadcast since the last logon
  strayed      \* the venue has sent a stray message since the last logon

collector == <<death, on, books, work, published>>
venue     == <<quotes, requested, subscribed, told>>
observed  == <<heard, strayed>>
vars      == <<collector, channel, venue, observed>>

\* at: which handler; todo: the entries left; sym, id, qid: the last ones
\* set; pBook: the symbol of the book pBook points to.
Working(at, todo, sym, id, qid, pBook) ==
  [at |-> at, todo |-> todo, sym |-> sym, id |-> id, qid |-> qid, pBook |-> pBook]

Idle == Working("idle", <<>>, NO_SYM, NO_ID, NO_ID, NO_SYM)

Init ==
  /\ death = "none" /\ on = FALSE /\ books = EmptyFcn /\ work = Idle /\ published = EmptyFcn
  /\ channel = <<>>
  /\ quotes = [s \in Symbol |-> EmptyFcn] /\ requested = {} /\ subscribed = {} /\ told = 0
  /\ heard = {} /\ strayed = FALSE

-----------------------------------------------------------------------------
(* The process and the session *)

\* onLogon calls run(): a new book for every symbol, and a subscription.
Logon ==
  /\ death = "none" /\ ~on
  /\ on' = TRUE
  /\ books' = [s \in Symbol |-> EmptyBook]
  /\ requested' = Symbol
  /\ heard' = {} /\ strayed' = FALSE
  /\ UNCHANGED <<death, work, published, channel, quotes, subscribed, told>>

\* The session is lost, and with it the subscriptions and what is in flight.
Logout ==
  /\ on /\ work = Idle
  /\ on' = FALSE
  /\ channel' = <<>> /\ requested' = {} /\ subscribed' = {}
  /\ UNCHANGED <<death, books, work, published, quotes, told, observed>>

Die(why) ==
  /\ death' = why
  /\ on' = FALSE /\ books' = EmptyFcn /\ work' = Idle
  /\ channel' = <<>> /\ requested' = {} /\ subscribed' = {}
  /\ UNCHANGED <<published, quotes, told, observed>>

Restart ==
  /\ death # "none"
  /\ death' = "none"
  /\ UNCHANGED <<on, books, work, published, channel, venue, observed>>

-----------------------------------------------------------------------------
(* The venue *)

Quote(side, price, size) == [side |-> side, price |-> price, size |-> size]

Told(s, action, id, ref, side, price, size) ==
  [action |-> action, sym |-> s, id |-> id, qid |-> NO_ID, ref |-> ref, side |-> side,
   price |-> price, size |-> size]

\* A change goes out on its own or together with the one before, if that is
\* still in flight and about the same symbol.
Tell(s, entry) ==
  /\ told < MaxTold /\ told' = told + 1
  /\ IF s \in subscribed
     THEN \/ /\ Len(channel) < MaxChannel
             /\ channel' = Append(channel,
                             [kind |-> "X", sym |-> NO_SYM, entries |-> <<entry>>])
          \/ /\ channel # <<>>
             /\ LET m == channel[Len(channel)]
                IN  /\ m.kind = "X" /\ Len(m.entries) \in 1 .. MaxEntries - 1
                    /\ m.entries[1].sym = s
                    /\ channel' = [channel EXCEPT ![Len(channel)].entries = Append(@, entry)]
     ELSE UNCHANGED channel
  /\ UNCHANGED <<collector, requested, subscribed, observed>>

\* The quotes of a symbol in some order, as the entries of a snapshot, whose
\* ids may be in MDEntryID or in QuoteEntryID.
SnapshotsOf(s) ==
  LET ids == DOMAIN quotes[s]
      Line(id, useQuoteId) ==
        [action |-> "NEW", sym |-> NO_SYM, id |-> IF useQuoteId THEN NO_ID ELSE id,
         qid |-> id, ref |-> NO_ID, side |-> quotes[s][id].side,
         price |-> quotes[s][id].price, size |-> quotes[s][id].size]
  IN  {[kind |-> "W", sym |-> s, entries |-> [i \in DOMAIN order |-> Line(order[i], useQuoteId)]] :
         order \in {f \in [1 .. Cardinality(ids) -> ids] : \A x \in ids : \E i \in DOMAIN f : f[i] = x},
         useQuoteId \in BOOLEAN}

SendSnapshot(s) ==
  /\ Len(channel) < MaxChannel
  /\ \E m \in SnapshotsOf(s) : channel' = Append(channel, m)

\* It answers a subscription with a snapshot, if there is anything to show.
Answer(s) ==
  /\ s \in requested
  /\ IF quotes[s] = EmptyFcn THEN UNCHANGED channel ELSE SendSnapshot(s)
  /\ requested' = requested \ {s} /\ subscribed' = subscribed \cup {s}
  /\ UNCHANGED <<collector, quotes, told, observed>>

\* It sends a snapshot unasked.
Refresh(s) ==
  /\ s \in subscribed /\ quotes[s] # EmptyFcn
  /\ told < MaxTold /\ told' = told + 1
  /\ SendSnapshot(s)
  /\ UNCHANGED <<collector, quotes, requested, subscribed, observed>>

QuoteNew(s, id, side, price, size) ==
  /\ id \in DOMAIN quotes[s] => NewReplaces
  /\ quotes' = [quotes EXCEPT ![s] = Put(@, id, Quote(side, price, size))]
  /\ Tell(s, Told(s, "NEW", id, NO_ID, side, price, size))

QuoteResize(s, id, size) ==
  /\ id \in DOMAIN quotes[s] /\ size # quotes[s][id].size
  /\ quotes' = [quotes EXCEPT ![s][id].size = size]
  /\ Tell(s, Told(s, "CHANGE", id, NO_ID, quotes[s][id].side, quotes[s][id].price, size))

\* A quote moves to another price, under the same or another id.
QuoteMove(s, ref, id, price) ==
  /\ ref \in DOMAIN quotes[s] /\ id \notin DOMAIN quotes[s] \ {ref}
  /\ price # quotes[s][ref].price
  /\ LET q == [quotes[s][ref] EXCEPT !.price = price]
     IN  /\ quotes' = [quotes EXCEPT ![s] = Put(Drop(@, ref), id, q)]
         /\ Tell(s, Told(s, "CHANGE", id, ref, q.side, q.price, q.size))

QuoteDelete(s, id) ==
  /\ id \in DOMAIN quotes[s]
  /\ quotes' = [quotes EXCEPT ![s] = Drop(@, id)]
  /\ Tell(s, Told(s, "DELETE", id, NO_ID, quotes[s][id].side, quotes[s][id].price,
                 quotes[s][id].size))

SendStray(m) ==
  /\ on /\ Len(channel) < MaxChannel
  /\ told < MaxTold /\ told' = told + 1
  /\ channel' = Append(channel, m)
  /\ strayed' = TRUE
  /\ UNCHANGED <<collector, quotes, requested, subscribed, heard>>

-----------------------------------------------------------------------------
(* The callbacks: onMessage of a snapshot and of an incremental refresh *)

CanReceive == death = "none" /\ on /\ work.at = "idle" /\ channel # <<>>

\* getBook: the symbol of a book there is, or NO_SYM for NULL.
GetBook(s) == IF s \in DOMAIN books THEN s ELSE NO_SYM

HashOf(id) == IF id = NO_ID THEN EmptyHash ELSE id

\* full_refresh_template: a snapshot with entries clears the book of its
\* symbol; without entries, or for a symbol without a book, pBook stays NULL.
BeginSnapshot ==
  /\ CanReceive /\ Head(channel).kind = "W"
  /\ LET m == Head(channel)
         pBook == IF m.entries = <<>> THEN NO_SYM ELSE GetBook(m.sym)
     IN  /\ work' = Working("W", m.entries, m.sym, NO_ID, NO_ID, pBook)
         /\ books' = IF pBook = NO_SYM THEN books ELSE Put(books, pBook, Clear(books[pBook]))
  /\ channel' = Tail(channel)
  /\ UNCHANGED <<death, on, published, venue, observed>>

\* The value a field has after an entry: the entry's, if it is set there.
Set(field, previous, none) == IF field = none THEN previous ELSE field

\* Where there is no entry id, the quote entry id stands in for it.
SnapshotId(e) ==
  LET id == Set(e.id, work.id, NO_ID)
  IN  HashOf(IF id = NO_ID THEN Set(e.qid, work.qid, NO_ID) ELSE id)

SnapshotEntry ==
  /\ work.at = "W" /\ work.todo # <<>>
  /\ LET e == Head(work.todo)
     IN  IF work.pBook = NO_SYM
         THEN Die("null_book")
         ELSE /\ books' = Put(books, work.pBook,
                            Add(books[work.pBook], SnapshotId(e), e.side, e.size, e.price))
              /\ work' = Working("W", Tail(work.todo), Set(e.sym, work.sym, NO_SYM),
                                 Set(e.id, work.id, NO_ID), Set(e.qid, work.qid, NO_ID), work.pBook)
              /\ UNCHANGED <<death, on, published, channel, venue, observed>>

\* incremental_update_template
BeginIncremental ==
  /\ CanReceive /\ Head(channel).kind = "X"
  /\ work' = Working("X", Head(channel).entries, Head(channel).sym, NO_ID, NO_ID, NO_SYM)
  /\ channel' = Tail(channel)
  /\ UNCHANGED <<death, on, books, published, venue, observed>>

\* MDUpdateAction_NEW
NewEntry(b, id, e) ==
  Add(IF NewReplaces THEN Remove(b, id) ELSE b, id, e.side, e.size, e.price)

\* Mutant: the renamed entry stays in the book.
ChangeEntryKeepsOld(b, id, e) ==
  IF e.ref # NO_ID THEN Add(b, id, e.side, e.size, e.price) ELSE Modify(b, id, e.size)

\* MDUpdateAction_CHANGE: with an MDEntryRefID the old entry is replaced by a
\* new one, otherwise the size is modified and the price left as it is.
ChangeEntry(b, id, e) ==
  IF e.ref # NO_ID
  THEN Add(Remove(b, e.ref), id, e.side, e.size, e.price)
  ELSE Modify(b, id, e.size)

\* MDUpdateAction_DELETE of an entry that is in the book.
DeleteEntry(b, id) == Remove(b, id)

\* What KBook::remove runs into, if the entry has it remove something.
EntryFault(b, id, e) ==
  CASE e.action = "NEW" /\ NewReplaces -> RemoveFault(b, id)
    [] e.action = "CHANGE" /\ e.ref # NO_ID -> RemoveFault(b, e.ref)
    [] e.action = "DELETE" -> RemoveFault(b, id)
    [] OTHER -> "none"

\* How an entry that finds its book ends the process, if it does.
EntryDeath(b, id, e) ==
  CASE e.action = "OTHER" -> "exit"
    [] e.action = "DELETE" /\ id \notin DOMAIN b.map /\ AssertsOn -> "assert_delete"
    [] OTHER -> EntryFault(b, id, e)

ApplyEntry(b, id, e) ==
  CASE e.action = "NEW" -> NewEntry(b, id, e)
    [] e.action = "CHANGE" -> ChangeEntry(b, id, e)
    [] e.action = "DELETE" -> DeleteEntry(b, id)
    [] OTHER -> b

\* An entry whose symbol has no book is reported and skipped.
IncrementalEntry ==
  /\ work.at = "X" /\ work.todo # <<>>
  /\ LET e     == Head(work.todo)
         sym   == Set(e.sym, work.sym, NO_SYM)
         id    == HashOf(Set(e.id, work.id, NO_ID))
         pBook == GetBook(sym)
     IN  IF pBook # NO_SYM /\ EntryDeath(books[pBook], id, e) # "none"
         THEN Die(EntryDeath(books[pBook], id, e))
         ELSE /\ work' = Working("X", Tail(work.todo), sym, Set(e.id, work.id, NO_ID), NO_ID, pBook)
              /\ books' = IF pBook = NO_SYM THEN books
                          ELSE Put(books, pBook, ApplyEntry(books[pBook], id, e))
              /\ UNCHANGED <<death, on, published, channel, venue, observed>>

\* After the last entry the top of the book pBook points to is broadcast
\* under the last symbol that was set; with pBook NULL it is dereferenced.
Publish ==
  /\ work.at # "idle" /\ work.todo = <<>>
  /\ IF work.pBook = NO_SYM
     THEN Die("null_book")
     ELSE /\ published' = Put(published, work.sym, TopOfBook(books[work.pBook]))
          /\ heard' = heard \cup {work.sym}
          /\ work' = Idle
          /\ UNCHANGED <<death, on, books, channel, venue, strayed>>

-----------------------------------------------------------------------------
VenueNext ==
  \/ \E s \in Symbol : Answer(s) \/ Refresh(s)
  \/ \E s \in Quoted, id \in OrderId, side \in Side, price \in Price, size \in Size :
       QuoteNew(s, id, side, price, size)
  \/ \E s \in Quoted, id \in OrderId, size \in Size : QuoteResize(s, id, size)
  \/ \E s \in Quoted, ref, id \in OrderId, price \in Price : QuoteMove(s, ref, id, price)
  \/ \E s \in Quoted, id \in OrderId : QuoteDelete(s, id)
  \/ \E m \in Stray : SendStray(m)

CollectorNext ==
  \/ Logon \/ Logout \/ Restart
  \/ BeginSnapshot \/ SnapshotEntry \/ BeginIncremental \/ IncrementalEntry \/ Publish

Next == VenueNext \/ CollectorNext

Spec == Init /\ [][Next]_vars

-----------------------------------------------------------------------------
(* Properties *)

\* The types of the collector's state.
TypeOK ==
  /\ death \in {"none", "null_book", "exit", "assert_delete", "assert", "end_dereferenced"}
  /\ on \in BOOLEAN
  /\ DOMAIN books \subseteq Symbol /\ \A s \in DOMAIN books : IsBook(books[s])
  /\ work.at \in {"idle", "W", "X"} /\ work.todo \in Seq(Entry)
  /\ work.sym \in AnySymbol /\ work.id \in AnyId /\ work.qid \in AnyId
  /\ work.pBook \in DOMAIN books \cup {NO_SYM}

\* Whatever the venue sends - repeated and unknown ids, entries without ids,
\* symbols without a book, a message that ends in the middle - and wherever
\* the session breaks, the index and the limits of every book agree, no
\* limit is empty, and no removal runs into a missing limit.
BooksWellFormed ==
  /\ \A s \in DOMAIN books : Indexed(books[s]) /\ LimitsNonEmpty(books[s])
  /\ death \notin {"assert", "end_dereferenced"}

Quiet == on /\ work = Idle /\ channel = <<>>

\* A venue that tells its changes is followed: once everything has arrived,
\* the book of a subscribed symbol holds the venue's quotes, each queued once
\* and at its own price, through reconnections, unasked snapshots, moves
\* under new ids and, after a stray message or a crash, from the next logon.
BooksFollowVenue ==
  Quiet /\ ~strayed =>
    \A s \in subscribed : LiveOf(books[s]) = quotes[s] /\ Mirrors(books[s])

Venue == INSTANCE LiveOrders WITH live <- quotes, top <- published

\* What was broadcast last of a symbol since the logon is the top its quotes
\* make at the venue.
PublishedIsTop ==
  Quiet /\ ~strayed =>
    \A s \in heard \cap subscribed : published[s] = Venue!TopOf(quotes[s])
=============================================================================
