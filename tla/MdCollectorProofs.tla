------------------------- MODULE MdCollectorProofs -------------------------
(***************************************************************************)
(* Proofs about MdCollector, for any symbols, ids, prices and sizes:       *)
(* whatever messages the venue sends the collector keeps every book        *)
(* well-formed, and a venue that tells its changes is followed.            *)
(*                                                                         *)
(* The first inductive invariant adds to TypeOK and BooksWellFormed the    *)
(* types of the messages in flight and of the venue's quotes.  The second  *)
(* says what the messages in flight make of the books: the venue's quotes. *)
(* The work on one book is the lemmas of OrderBookProofs.                  *)
(***************************************************************************)
EXTENDS MdCollector, OrderBookProofs, FiniteSetTheorems

WorkSet ==
  [at : {"idle", "W", "X"}, todo : Seq(Entry), sym : AnySymbol, id : AnyId, qid : AnyId,
   pBook : Symbol \cup {NO_SYM}]

QuoteSet == [side : Side, price : Price, size : Size]

\* The quotes of one symbol.
IsQuotes(q) ==
  /\ q = [id \in DOMAIN q |-> q[id]]
  /\ DOMAIN q \subseteq OrderId
  /\ \A id \in DOMAIN q : q[id] \in QuoteSet

BooksOK(bs) ==
  /\ DOMAIN bs \subseteq Symbol
  /\ \A s \in DOMAIN bs : BookInv(bs[s])

\* What the venue's steps can disturb.
VenueInv ==
  /\ channel \in Seq(Message)
  /\ quotes = [s \in Symbol |-> quotes[s]]
  /\ \A s \in Symbol : IsQuotes(quotes[s])

\* What the collector's steps can disturb.
CollectorInv ==
  /\ death \in {"none", "null_book", "exit", "assert_delete"}
  /\ on \in BOOLEAN
  /\ BooksOK(books)
  /\ work \in WorkSet
  /\ work.pBook \in DOMAIN books \cup {NO_SYM}

CInv == VenueInv /\ CollectorInv

-----------------------------------------------------------------------------
(* Books and entries *)

\* Replacing or adding the book of a symbol.
LEMMA PutBook ==
  ASSUME NEW bs, BooksOK(bs), NEW s \in Symbol, NEW b, BookInv(b)
  PROVE  BooksOK(Put(bs, s, b)) /\ DOMAIN bs \subseteq DOMAIN Put(bs, s, b)
BY DEF BooksOK, Put

LEMMA HashOfType == ASSUME NEW id \in AnyId PROVE HashOf(id) \in OrderId
BY CollectorAssumption DEF HashOf, AnyId

LEMMA IdleType == Idle \in WorkSet /\ Idle.pBook = NO_SYM
<1>1. <<>> \in Seq(Entry) /\ NO_SYM \in AnySymbol /\ NO_ID \in AnyId
  BY DEF AnySymbol, AnyId
<1> QED BY <1>1 DEF Idle, Working, WorkSet

\* An entry of an incremental refresh keeps its book well-formed, whatever
\* its action and its ids, and no removal faults.
LEMMA EntryPreserves ==
  ASSUME NEW b, BookInv(b), NEW id \in OrderId, NEW e \in Entry
  PROVE  /\ BookInv(ApplyEntry(b, id, e))
         /\ EntryFault(b, id, e) = "none"
         /\ EntryDeath(b, id, e) \in {"none", "exit", "assert_delete"}
<1>1. /\ e.action \in {"NEW", "CHANGE", "DELETE", "OTHER"}
      /\ e.side \in SideArg /\ e.price \in Price /\ e.size \in Size
      /\ e.ref # NO_ID => e.ref \in OrderId
  BY DEF Entry, AnyId
<1>2. BookInv(NewEntry(b, id, e))
  <2>1. BookInv(Remove(b, id))
    BY <1>1, CallsPreserve
  <2> QED BY <1>1, <2>1, CallsPreserve DEF NewEntry
<1>3. BookInv(ChangeEntry(b, id, e))
  <2>1. e.ref # NO_ID => BookInv(Remove(b, e.ref))
    BY <1>1, CallsPreserve
  <2>2. e.ref # NO_ID => BookInv(Add(Remove(b, e.ref), id, e.side, e.size, e.price))
    BY <1>1, <2>1, CallsPreserve
  <2>3. BookInv(Modify(b, id, e.size))
    BY <1>1, CallsPreserve
  <2> QED BY <2>2, <2>3 DEF ChangeEntry
<1>4. BookInv(DeleteEntry(b, id))
  BY <1>1, CallsPreserve DEF DeleteEntry
<1>5. BookInv(ApplyEntry(b, id, e))
  BY <1>1, <1>2, <1>3, <1>4 DEF ApplyEntry
<1>6. EntryFault(b, id, e) = "none"
  BY <1>1, RemoveFinds DEF EntryFault
<1> QED BY <1>1, <1>5, <1>6 DEF EntryDeath

-----------------------------------------------------------------------------
(* The collector's steps *)

\* A step that leaves the venue's quotes alone.
LEMMA QuotesKept ==
  ASSUME CInv, UNCHANGED quotes, channel' \in Seq(Message)
  PROVE  VenueInv'
BY DEF CInv, VenueInv

LEMMA VenueKept == ASSUME UNCHANGED venue PROVE UNCHANGED quotes
BY DEF venue

LEMMA DieStep ==
  ASSUME CInv, NEW why \in {"null_book", "exit", "assert_delete"}, Die(why)
  PROVE  CInv'
<1>1. CollectorInv'
  BY IdleType DEF Die, CollectorInv, BooksOK, EmptyFcn, CInv
<1>2. VenueInv'
  BY DEF Die, VenueInv, CInv
<1> QED BY <1>1, <1>2 DEF CInv

LEMMA SessionStep ==
  ASSUME CInv, Logon \/ Logout \/ Restart
  PROVE  CInv'
<1>1. CASE Logon
  <2>1. BooksOK(books')
    BY <1>1, EmptyBookInv DEF Logon, BooksOK
  <2> QED BY <1>1, <2>1 DEF Logon, CInv, VenueInv, CollectorInv, BooksOK
<1>2. CASE Logout
  <2>1. <<>> \in Seq(Message)
    OBVIOUS
  <2> QED BY <1>2, <2>1, QuotesKept DEF Logout, CInv, CollectorInv
<1>3. CASE Restart
  BY <1>3, VenueKept, QuotesKept DEF Restart, CInv, VenueInv, CollectorInv
<1> QED BY <1>1, <1>2, <1>3

LEMMA HeadOfChannel ==
  ASSUME CInv, CanReceive
  PROVE  /\ Head(channel) \in Message
         /\ Tail(channel) \in Seq(Message)
BY DEF CInv, VenueInv, CanReceive

LEMMA BeginSnapshotStep ==
  ASSUME CInv, BeginSnapshot
  PROVE  CInv'
<1>1. PICK m \in Message : m = Head(channel)
  BY HeadOfChannel DEF BeginSnapshot
<1>2. PICK p : p = IF m.entries = <<>> THEN NO_SYM ELSE GetBook(m.sym)
  OBVIOUS
<1>3. /\ work' = Working("W", m.entries, m.sym, NO_ID, NO_ID, p)
      /\ books' = IF p = NO_SYM THEN books ELSE Put(books, p, Clear(books[p]))
      /\ channel' = Tail(channel)
      /\ UNCHANGED <<death, on, published, venue, observed>>
  BY <1>1, <1>2 DEF BeginSnapshot
<1>4. p \in DOMAIN books \cup {NO_SYM} /\ DOMAIN books \subseteq Symbol
  BY <1>2 DEF GetBook, CInv, CollectorInv, BooksOK
<1>5. work' \in WorkSet /\ work'.pBook = p
  BY <1>1, <1>3, <1>4 DEF Message, AnyId, Working, WorkSet
<1>6. BooksOK(books') /\ DOMAIN books \subseteq DOMAIN books'
  BY <1>3, <1>4, PutBook, EmptyBookInv DEF Clear, CInv, CollectorInv
<1>7. VenueInv'
  BY <1>3, HeadOfChannel, VenueKept, QuotesKept DEF BeginSnapshot
<1> QED BY <1>3, <1>4, <1>5, <1>6, <1>7 DEF CInv, CollectorInv

LEMMA BeginIncrementalStep ==
  ASSUME CInv, BeginIncremental
  PROVE  CInv'
<1>1. Head(channel) \in Message /\ Tail(channel) \in Seq(Message)
  BY HeadOfChannel DEF BeginIncremental
<1>2. work' \in WorkSet /\ work'.pBook = NO_SYM
  BY <1>1 DEF BeginIncremental, Message, AnyId, Working, WorkSet
<1>3. VenueInv'
  BY <1>1, VenueKept, QuotesKept DEF BeginIncremental
<1> QED BY <1>2, <1>3 DEF BeginIncremental, CInv, CollectorInv

\* The fields an entry leaves unset have the values of the entry before.
LEMMA EntryFields ==
  ASSUME CInv, work.todo # <<>>, NEW e, e = Head(work.todo)
  PROVE  /\ e \in Entry /\ Tail(work.todo) \in Seq(Entry)
         /\ Set(e.sym, work.sym, NO_SYM) \in AnySymbol
         /\ Set(e.id, work.id, NO_ID) \in AnyId
         /\ Set(e.qid, work.qid, NO_ID) \in AnyId
<1>1. work.todo \in Seq(Entry) /\ work.sym \in AnySymbol /\ work.id \in AnyId /\ work.qid \in AnyId
  BY DEF CInv, CollectorInv, WorkSet
<1>2. e \in Entry /\ Tail(work.todo) \in Seq(Entry)
  BY <1>1
<1>3. e.sym \in AnySymbol /\ e.id \in AnyId /\ e.qid \in AnyId
  BY <1>2 DEF Entry
<1> QED BY <1>1, <1>2, <1>3 DEF Set

LEMMA SnapshotEntryStep ==
  ASSUME CInv, SnapshotEntry
  PROVE  CInv'
<1>1. PICK e : e = Head(work.todo)
  OBVIOUS
<1>2. /\ e \in Entry /\ Tail(work.todo) \in Seq(Entry)
      /\ Set(e.sym, work.sym, NO_SYM) \in AnySymbol
      /\ Set(e.id, work.id, NO_ID) \in AnyId
      /\ Set(e.qid, work.qid, NO_ID) \in AnyId
  BY <1>1, EntryFields DEF SnapshotEntry
<1>3. CASE work.pBook = NO_SYM
  BY <1>3, DieStep DEF SnapshotEntry
<1>4. CASE work.pBook # NO_SYM
  <2>1. /\ books' = Put(books, work.pBook,
                     Add(books[work.pBook], SnapshotId(e), e.side, e.size, e.price))
        /\ work' = Working("W", Tail(work.todo), Set(e.sym, work.sym, NO_SYM),
                           Set(e.id, work.id, NO_ID), Set(e.qid, work.qid, NO_ID), work.pBook)
        /\ UNCHANGED <<death, on, published, channel, venue, observed>>
    BY <1>1, <1>4 DEF SnapshotEntry
  <2>2. work.pBook \in DOMAIN books /\ work.pBook \in Symbol /\ BookInv(books[work.pBook])
    BY <1>4 DEF CInv, CollectorInv, BooksOK
  <2>3. SnapshotId(e) \in OrderId
    BY <1>2, HashOfType DEF SnapshotId
  <2>4. e.side \in SideArg /\ e.size \in Size /\ e.price \in Price
    BY <1>2 DEF Entry
  <2>5. BookInv(Add(books[work.pBook], SnapshotId(e), e.side, e.size, e.price))
    BY <2>2, <2>3, <2>4, CallsPreserve
  <2>6. BooksOK(books') /\ DOMAIN books \subseteq DOMAIN books'
    BY <2>1, <2>2, <2>5, PutBook DEF CInv, CollectorInv
  <2>7. work' \in WorkSet /\ work'.pBook = work.pBook
    BY <1>2, <2>1, <2>2 DEF Working, WorkSet
  <2>8. VenueInv'
    BY <2>1, VenueKept, QuotesKept DEF CInv, VenueInv
  <2> QED BY <2>1, <2>2, <2>6, <2>7, <2>8 DEF CInv, CollectorInv
<1> QED BY <1>3, <1>4

LEMMA IncrementalEntryStep ==
  ASSUME CInv, IncrementalEntry
  PROVE  CInv'
<1>1. PICK e : e = Head(work.todo)
  OBVIOUS
<1>2. /\ e \in Entry /\ Tail(work.todo) \in Seq(Entry)
      /\ Set(e.sym, work.sym, NO_SYM) \in AnySymbol
      /\ Set(e.id, work.id, NO_ID) \in AnyId
  BY <1>1, EntryFields DEF IncrementalEntry
<1>3. PICK id \in OrderId : id = HashOf(Set(e.id, work.id, NO_ID))
  BY <1>2, HashOfType
<1>4. PICK p : p = GetBook(Set(e.sym, work.sym, NO_SYM))
  OBVIOUS
<1>5. /\ p \in DOMAIN books \cup {NO_SYM} /\ DOMAIN books \subseteq Symbol
      /\ p # NO_SYM => p \in DOMAIN books /\ BookInv(books[p])
  BY <1>4 DEF GetBook, CInv, CollectorInv, BooksOK
<1>6. CASE p # NO_SYM /\ EntryDeath(books[p], id, e) # "none"
  <2>1. EntryDeath(books[p], id, e) \in {"exit", "assert_delete"}
    BY <1>2, <1>5, <1>6, EntryPreserves
  <2>2. Die(EntryDeath(books[p], id, e))
    BY <1>1, <1>3, <1>4, <1>6 DEF IncrementalEntry
  <2> QED BY <2>1, <2>2, DieStep
<1>7. CASE ~(p # NO_SYM /\ EntryDeath(books[p], id, e) # "none")
  <2>1. /\ work' = Working("X", Tail(work.todo), Set(e.sym, work.sym, NO_SYM),
                           Set(e.id, work.id, NO_ID), NO_ID, p)
        /\ books' = IF p = NO_SYM THEN books
                    ELSE Put(books, p, ApplyEntry(books[p], id, e))
        /\ UNCHANGED <<death, on, published, channel, venue, observed>>
    BY <1>1, <1>3, <1>4, <1>7 DEF IncrementalEntry
  <2>2. p # NO_SYM => BookInv(ApplyEntry(books[p], id, e))
    BY <1>2, <1>5, EntryPreserves
  <2>3. BooksOK(books') /\ DOMAIN books \subseteq DOMAIN books'
    BY <1>5, <2>1, <2>2, PutBook DEF CInv, CollectorInv
  <2>4. work' \in WorkSet /\ work'.pBook = p
    BY <1>2, <1>5, <2>1 DEF AnyId, Working, WorkSet
  <2>5. VenueInv'
    BY <2>1, VenueKept, QuotesKept DEF CInv, VenueInv
  <2> QED BY <1>5, <2>1, <2>3, <2>4, <2>5 DEF CInv, CollectorInv
<1> QED BY <1>6, <1>7

LEMMA PublishStep ==
  ASSUME CInv, Publish
  PROVE  CInv'
<1>1. CASE work.pBook = NO_SYM
  BY <1>1, DieStep DEF Publish
<1>2. CASE work.pBook # NO_SYM
  BY <1>2, IdleType, VenueKept, QuotesKept DEF Publish, CInv, VenueInv, CollectorInv
<1> QED BY <1>1, <1>2

-----------------------------------------------------------------------------
(* The venue's steps *)

LEMMA AppendMessage ==
  ASSUME CInv, NEW m \in Message, channel' = Append(channel, m)
  PROVE  channel' \in Seq(Message)
BY DEF CInv, VenueInv

LEMMA TellStep ==
  ASSUME CInv, NEW s \in Symbol, NEW entry \in Entry, Tell(s, entry)
  PROVE  channel' \in Seq(Message) /\ CollectorInv'
<1>1. CollectorInv'
  BY DEF Tell, CInv, CollectorInv, collector
<1>2. CASE channel' = Append(channel, [kind |-> "X", sym |-> NO_SYM, entries |-> <<entry>>])
  <2>1. <<entry>> \in Seq(Entry) /\ NO_SYM \in AnySymbol
    BY DEF AnySymbol
  <2>2. [kind |-> "X", sym |-> NO_SYM, entries |-> <<entry>>] \in Message
    BY <2>1 DEF Message
  <2> QED BY <1>1, <1>2, <2>2, AppendMessage
<1>3. CASE /\ channel # <<>>
           /\ channel' = [channel EXCEPT ![Len(channel)].entries = Append(@, entry)]
  <2>1. channel \in Seq(Message) /\ Len(channel) \in 1 .. Len(channel)
    BY <1>3 DEF CInv, VenueInv
  <2>2. PICK n \in 1 .. Len(channel) : n = Len(channel)
    BY <2>1
  <2>3. channel[n] \in Message
    BY <2>1, <2>2
  <2>4. [channel[n] EXCEPT !.entries = Append(@, entry)] \in Message
    <3>1. PICK m \in Message : m = channel[n]
      BY <2>3
    <3>2. Append(m.entries, entry) \in Seq(Entry)
      BY DEF Message
    <3> QED BY <3>1, <3>2 DEF Message
  <2>5. channel' = [channel EXCEPT ![n] = [channel[n] EXCEPT !.entries = Append(@, entry)]]
    BY <1>3, <2>2
  <2>6. channel' \in Seq(Message)
    BY <2>1, <2>2, <2>4, <2>5
  <2> QED BY <1>1, <2>6
<1>4. CASE UNCHANGED channel
  BY <1>1, <1>4 DEF CInv, VenueInv
<1> QED BY <1>2, <1>3, <1>4 DEF Tell

LEMMA SnapshotsAreMessages ==
  ASSUME CInv, NEW s \in Symbol, NEW m \in SnapshotsOf(s)
  PROVE  m \in Message
<1> DEFINE ids == DOMAIN quotes[s]
           Line(id, useQuoteId) ==
             [action |-> "NEW", sym |-> NO_SYM, id |-> IF useQuoteId THEN NO_ID ELSE id,
              qid |-> id, ref |-> NO_ID, side |-> quotes[s][id].side,
              price |-> quotes[s][id].price, size |-> quotes[s][id].size]
<1>1. IsQuotes(quotes[s])
  BY DEF CInv, VenueInv
<1>2. Cardinality(ids) \in Nat
  BY <1>1, CollectorAssumption, FS_Subset, FS_CardinalityType DEF IsQuotes
<1>3. \A id \in ids, u \in BOOLEAN : Line(id, u) \in Entry
  <2> SUFFICES ASSUME NEW id \in ids, NEW u \in BOOLEAN PROVE Line(id, u) \in Entry
    OBVIOUS
  <2>1. /\ id \in OrderId /\ quotes[s][id].side \in SideArg
        /\ quotes[s][id].price \in Price /\ quotes[s][id].size \in Size
    BY <1>1 DEF IsQuotes, QuoteSet, SideArg
  <2> QED BY <2>1 DEF Entry, AnySymbol, AnyId
<1>4. PICK order \in [1 .. Cardinality(ids) -> ids], u \in BOOLEAN :
        m = [kind |-> "W", sym |-> s, entries |-> [i \in DOMAIN order |-> Line(order[i], u)]]
  BY DEF SnapshotsOf
<1> HIDE DEF Line
<1>5. [i \in DOMAIN order |-> Line(order[i], u)] \in [1 .. Cardinality(ids) -> Entry]
  BY <1>3, <1>4
<1>6. [i \in DOMAIN order |-> Line(order[i], u)] \in Seq(Entry)
  BY <1>2, <1>5
<1> QED BY <1>4, <1>6 DEF Message, AnySymbol

LEMMA SendSnapshotStep ==
  ASSUME CInv, NEW s \in Symbol, SendSnapshot(s)
  PROVE  channel' \in Seq(Message)
BY SnapshotsAreMessages, AppendMessage DEF SendSnapshot

\* Replacing the quotes of a symbol.
LEMMA QuotesOfSymbol ==
  ASSUME CInv, NEW s \in Symbol, NEW q, IsQuotes(q), quotes' = [quotes EXCEPT ![s] = q]
  PROVE  /\ quotes' = [x \in Symbol |-> quotes'[x]]
         /\ \A x \in Symbol : IsQuotes(quotes'[x])
<1>1. quotes' = [x \in Symbol |-> IF x = s THEN q ELSE quotes[x]]
  BY DEF CInv, VenueInv
<1> QED BY <1>1 DEF CInv, VenueInv

LEMMA PutQuote ==
  ASSUME NEW q, IsQuotes(q), NEW id \in OrderId, NEW v \in QuoteSet
  PROVE  IsQuotes(Put(q, id, v))
BY DEF IsQuotes, Put

LEMMA DropQuote ==
  ASSUME NEW q, IsQuotes(q), NEW id
  PROVE  IsQuotes(Drop(q, id))
BY DEF IsQuotes, Drop

LEMMA ToldType ==
  ASSUME NEW s \in Symbol, NEW action \in {"NEW", "CHANGE", "DELETE"}, NEW id \in OrderId,
         NEW ref \in AnyId, NEW side \in Side, NEW price \in Price, NEW size \in Size
  PROVE  Told(s, action, id, ref, side, price, size) \in Entry
BY DEF Told, Entry, AnySymbol, AnyId, SideArg

LEMMA QuoteStep ==
  ASSUME CInv, NEW s \in Symbol, NEW q, IsQuotes(q), quotes' = [quotes EXCEPT ![s] = q],
         NEW entry \in Entry, Tell(s, entry)
  PROVE  CInv'
BY TellStep, QuotesOfSymbol DEF CInv, VenueInv

LEMMA VenueStep ==
  ASSUME CInv, VenueNext
  PROVE  CInv'
<1>1. ASSUME NEW s \in Symbol, Answer(s) PROVE CInv'
  <2>1. channel' \in Seq(Message)
    BY <1>1, SendSnapshotStep DEF Answer, CInv, VenueInv
  <2> QED BY <1>1, <2>1 DEF Answer, CInv, VenueInv, CollectorInv, collector
<1>2. ASSUME NEW s \in Symbol, Refresh(s) PROVE CInv'
  <2>1. channel' \in Seq(Message)
    BY <1>2, SendSnapshotStep DEF Refresh
  <2> QED BY <1>2, <2>1 DEF Refresh, CInv, VenueInv, CollectorInv, collector
<1>3. ASSUME NEW s \in Symbol PROVE IsQuotes(quotes[s])
  BY DEF CInv, VenueInv
<1>4. ASSUME NEW s \in Quoted, NEW id \in OrderId, NEW side \in Side, NEW price \in Price,
             NEW size \in Size, QuoteNew(s, id, side, price, size)
      PROVE  CInv'
  <2>1. s \in Symbol /\ NO_ID \in AnyId
    BY CollectorAssumption DEF AnyId
  <2>2. IsQuotes(Put(quotes[s], id, Quote(side, price, size)))
    BY <1>3, <2>1, PutQuote DEF Quote, QuoteSet
  <2>3. quotes' = [quotes EXCEPT ![s] = Put(quotes[s], id, Quote(side, price, size))]
    BY <1>4 DEF QuoteNew
  <2>4. Tell(s, Told(s, "NEW", id, NO_ID, side, price, size))
    BY <1>4 DEF QuoteNew
  <2>5. Told(s, "NEW", id, NO_ID, side, price, size) \in Entry
    BY <2>1, ToldType
  <2> QED BY <2>1, <2>2, <2>3, <2>4, <2>5, QuoteStep
<1>5. ASSUME NEW s \in Quoted, NEW id \in OrderId, NEW size \in Size, QuoteResize(s, id, size)
      PROVE  CInv'
  <2>1. s \in Symbol /\ NO_ID \in AnyId
    BY CollectorAssumption DEF AnyId
  <2>2. PICK v \in QuoteSet : v = quotes[s][id]
    BY <1>3, <1>5, <2>1 DEF QuoteResize, IsQuotes
  <2>3. [v EXCEPT !.size = size] \in QuoteSet
    BY DEF QuoteSet
  <2>4. PICK q : q = [quotes[s] EXCEPT ![id] = [v EXCEPT !.size = size]]
    OBVIOUS
  <2>5. IsQuotes(q)
    BY <1>3, <2>1, <2>3, <2>4 DEF IsQuotes
  <2>6. quotes' = [quotes EXCEPT ![s] = q]
    BY <1>5, <2>2, <2>4 DEF QuoteResize
  <2>7. Tell(s, Told(s, "CHANGE", id, NO_ID, v.side, v.price, size))
    BY <1>5, <2>2 DEF QuoteResize
  <2>8. Told(s, "CHANGE", id, NO_ID, v.side, v.price, size) \in Entry
    BY <2>1, <2>2, ToldType DEF QuoteSet
  <2> QED BY <2>1, <2>5, <2>6, <2>7, <2>8, QuoteStep
<1>6. ASSUME NEW s \in Quoted, NEW ref \in OrderId, NEW id \in OrderId, NEW price \in Price,
             QuoteMove(s, ref, id, price)
      PROVE  CInv'
  <2>1. s \in Symbol /\ ref \in AnyId
    BY CollectorAssumption DEF AnyId
  <2>2. quotes[s][ref] \in QuoteSet
    BY <1>3, <1>6, <2>1 DEF QuoteMove, IsQuotes
  <2>3. PICK v \in QuoteSet : v = [quotes[s][ref] EXCEPT !.price = price]
    BY <2>2 DEF QuoteSet
  <2>4. IsQuotes(Put(Drop(quotes[s], ref), id, v))
    BY <1>3, <2>1, DropQuote, PutQuote
  <2>5. quotes' = [quotes EXCEPT ![s] = Put(Drop(quotes[s], ref), id, v)]
    BY <1>6, <2>3 DEF QuoteMove
  <2>6. Tell(s, Told(s, "CHANGE", id, ref, v.side, v.price, v.size))
    BY <1>6, <2>3 DEF QuoteMove
  <2>7. Told(s, "CHANGE", id, ref, v.side, v.price, v.size) \in Entry
    BY <2>1, <2>3, ToldType DEF QuoteSet
  <2> QED BY <2>1, <2>4, <2>5, <2>6, <2>7, QuoteStep
<1>7. ASSUME NEW s \in Quoted, NEW id \in OrderId, QuoteDelete(s, id)
      PROVE  CInv'
  <2>1. s \in Symbol /\ NO_ID \in AnyId
    BY CollectorAssumption DEF AnyId
  <2>2. PICK v \in QuoteSet : v = quotes[s][id]
    BY <1>3, <1>7, <2>1 DEF QuoteDelete, IsQuotes
  <2>3. IsQuotes(Drop(quotes[s], id))
    BY <1>3, <2>1, DropQuote
  <2>4. quotes' = [quotes EXCEPT ![s] = Drop(quotes[s], id)]
    BY <1>7 DEF QuoteDelete
  <2>5. Tell(s, Told(s, "DELETE", id, NO_ID, v.side, v.price, v.size))
    BY <1>7, <2>2 DEF QuoteDelete
  <2>6. Told(s, "DELETE", id, NO_ID, v.side, v.price, v.size) \in Entry
    BY <2>1, <2>2, ToldType DEF QuoteSet
  <2> QED BY <2>1, <2>3, <2>4, <2>5, <2>6, QuoteStep
<1>8. ASSUME NEW m \in Stray, SendStray(m) PROVE CInv'
  <2>1. m \in Message
    <3>1. /\ m = [kind |-> m.kind, sym |-> m.sym, entries |-> m.entries]
          /\ m.kind \in {"W", "X"} /\ m.sym \in AnySymbol /\ m.entries \in Seq(Entry)
      BY CollectorAssumption
    <3> QED BY <3>1 DEF Message
  <2>2. channel' \in Seq(Message)
    BY <1>8, <2>1, AppendMessage DEF SendStray
  <2> QED BY <1>8, <2>2 DEF SendStray, CInv, VenueInv, CollectorInv, collector
<1> QED BY <1>1, <1>2, <1>4, <1>5, <1>6, <1>7, <1>8 DEF VenueNext

-----------------------------------------------------------------------------
LEMMA CInvStep == CInv /\ [Next]_vars => CInv'
<1> SUFFICES ASSUME CInv, [Next]_vars PROVE CInv'
  OBVIOUS
<1>1. CASE VenueNext
  BY <1>1, VenueStep
<1>2. CASE CollectorNext
  BY <1>2, SessionStep, BeginSnapshotStep, SnapshotEntryStep, BeginIncrementalStep,
     IncrementalEntryStep, PublishStep DEF CollectorNext
<1>3. CASE UNCHANGED vars
  BY <1>3 DEF vars, collector, venue, observed, CInv, VenueInv, CollectorInv
<1> QED BY <1>1, <1>2, <1>3 DEF Next

LEMMA CInvInit == Init => CInv
<1> SUFFICES ASSUME Init PROVE CInv
  OBVIOUS
<1>1. CollectorInv
  BY IdleType DEF Init, CollectorInv, BooksOK, EmptyFcn
<1>2. IsQuotes(EmptyFcn)
  BY DEF IsQuotes, EmptyFcn
<1>3. VenueInv
  BY <1>2 DEF Init, VenueInv
<1> QED BY <1>1, <1>3 DEF CInv

\* Whatever snapshots and refreshes the venue sends - repeated, renamed and
\* missing ids, unknown symbols, entries of every action - and wherever the
\* session or the process ends, index and limits of every book agree, and
\* KBook::remove neither fails its assertion nor dereferences an end().
THEOREM CollectorCorrect == Spec => [](TypeOK /\ BooksWellFormed)
<1>1. CInv => TypeOK /\ BooksWellFormed
  BY DEF CInv, CollectorInv, BooksOK, BookInv, WorkSet, TypeOK, BooksWellFormed
<1> QED BY <1>1, CInvInit, CInvStep, PTL DEF Spec

-----------------------------------------------------------------------------
(* Following the venue.  What is pending for a symbol - the entries left   *)
(* of the message being worked through, then the messages in flight - leads *)
(* from the orders its book holds now to the quotes of the venue.          *)

EntryId(e) == IF e.id = NO_ID THEN e.qid ELSE e.id

\* An entry a venue that holds the quotes q may send, in a snapshot ("W") or
\* in a refresh ("X").
Fits(kind, q, e) ==
  /\ e.side \in Side /\ EntryId(e) \in OrderId
  /\ kind = "W" => e.action = "NEW"
  /\ \/ e.action = "NEW" /\ (EntryId(e) \in DOMAIN q => kind = "X" /\ NewReplaces)
     \/ e.action = "CHANGE" /\ e.ref = NO_ID /\ EntryId(e) \in DOMAIN q
     \/ /\ e.action = "CHANGE" /\ e.ref # NO_ID
        /\ e.ref \in DOMAIN q /\ EntryId(e) \notin DOMAIN q \ {e.ref}
     \/ e.action = "DELETE" /\ EntryId(e) \in DOMAIN q

Resized(q, id, size) == [q EXCEPT ![id].size = size]

\* The quotes after it.
Moved(q, e) ==
  CASE e.action = "NEW" -> Put(q, EntryId(e), Quote(e.side, e.price, e.size))
    [] e.action = "CHANGE" /\ e.ref # NO_ID ->
         Put(Drop(q, e.ref), EntryId(e), Quote(e.side, e.price, e.size))
    [] e.action = "CHANGE" /\ e.ref = NO_ID -> Resized(q, EntryId(e), e.size)
    [] OTHER -> Drop(q, EntryId(e))

\* The entries es lead from the quotes q to the quotes r.
Leads(kind, q, es, r) ==
  \E t : /\ t[1] = q /\ t[Len(es) + 1] = r
         /\ \A i \in 1 .. Len(es) : Fits(kind, t[i], es[i]) /\ t[i + 1] = Moved(t[i], es[i])

\* The symbol a message of the venue is about.
SymOf(m) == IF m.kind = "W" THEN m.sym ELSE m.entries[1].sym

MessageLeads(q, m, s, r) ==
  IF SymOf(m) # s THEN r = q
  ELSE Leads(m.kind, IF m.kind = "W" THEN EmptyFcn ELSE q, m.entries, r)

\* The messages of ch lead from the quotes q of s to r.
ChannelLeads(q, ch, s, r) ==
  \E t : /\ t[1] = q /\ t[Len(ch) + 1] = r
         /\ \A i \in 1 .. Len(ch) : MessageLeads(t[i], ch[i], s, t[i + 1])

\* The entries a venue that follows its own quotes puts into one message: of
\* one symbol, in a snapshot all with or all without an entry id.
RegularEntries(kind, s, es) ==
  IF kind = "W"
  THEN /\ \A i \in 1 .. Len(es) : es[i].sym = NO_SYM
       /\ \/ \A i \in 1 .. Len(es) : es[i].id = NO_ID /\ es[i].qid \in OrderId
          \/ \A i \in 1 .. Len(es) : es[i].id \in OrderId
  ELSE \A i \in 1 .. Len(es) : es[i].sym = s /\ es[i].id \in OrderId

Regular(m) ==
  /\ m.entries # <<>> /\ SymOf(m) \in Symbol
  /\ m.kind = "X" => m.sym = NO_SYM
  /\ RegularEntries(m.kind, SymOf(m), m.entries)

\* The symbol of the message being worked through.
WorkSym(w) == IF w.at = "X" /\ w.todo # <<>> THEN w.todo[1].sym ELSE w.sym

About(w, s) == w.at # "idle" /\ WorkSym(w) = s

RegularWork(w) ==
  w.at # "idle" =>
    /\ WorkSym(w) \in Symbol
    /\ w.at = "W" \/ w.todo = <<>> => w.pBook = w.sym
    /\ RegularEntries(w.at, WorkSym(w), w.todo)
    /\ w.at = "W" => w.id = NO_ID \/ \A i \in 1 .. Len(w.todo) : w.todo[i].id \in OrderId

WorkLeads(w, b, s, q) ==
  IF About(w, s) THEN Leads(w.at, LiveOf(b), w.todo, q) ELSE q = LiveOf(b)

\* What the book of a symbol will hold: nothing before its first snapshot.
Target(qs, subs, s) == IF s \in subs THEN qs[s] ELSE EmptyFcn

Follows(b, w, ch, s, target) ==
  \E q : WorkLeads(w, b, s, q) /\ ChannelLeads(q, ch, s, target)

GoodBook(b) == Exact(b) /\ BookSums(b)

SessionInv ==
  /\ ~on => work = Idle /\ channel = <<>> /\ subscribed = {} /\ requested = {}
  /\ subscribed \subseteq Symbol /\ requested \subseteq Symbol

BooksInv == DOMAIN books = Symbol /\ \A s \in Symbol : GoodBook(books[s])

MessagesInv == RegularWork(work) /\ \A i \in 1 .. Len(channel) : Regular(channel[i])

FollowsInv ==
  \A s \in Symbol : Follows(books[s], work, channel, s, Target(quotes, subscribed, s))

PublishedInv ==
  \A s \in heard : /\ s \in Symbol /\ s \in DOMAIN published
                   /\ ~About(work, s) => published[s] = TopOfBook(books[s])

FollowInv == BooksInv /\ MessagesInv /\ FollowsInv /\ PublishedInv

FInv == CInv /\ SessionInv /\ (on /\ ~strayed => FollowInv)

-----------------------------------------------------------------------------
(* Sequences of entries and of messages *)

LEMMA LeadsEmpty ==
  ASSUME NEW kind, NEW q, NEW r
  PROVE  Leads(kind, q, <<>>, r) <=> r = q
<1>1. ASSUME r = q PROVE Leads(kind, q, <<>>, r)
  <2>1. PICK t : t = [i \in {1} |-> q]
    OBVIOUS
  <2> QED BY <1>1, <2>1 DEF Leads
<1> QED BY <1>1 DEF Leads

LEMMA LeadsHead ==
  ASSUME NEW kind, NEW q, NEW es \in Seq(Entry), NEW r, es # <<>>, Leads(kind, q, es, r)
  PROVE  Fits(kind, q, Head(es)) /\ Leads(kind, Moved(q, Head(es)), Tail(es), r)
<1>1. PICK t : /\ t[1] = q /\ t[Len(es) + 1] = r
               /\ \A i \in 1 .. Len(es) : Fits(kind, t[i], es[i]) /\ t[i + 1] = Moved(t[i], es[i])
  BY DEF Leads
<1>2. PICK n \in Nat : n = Len(es) /\ n > 0
  OBVIOUS
<1>3. /\ Head(es) = es[1] /\ Len(Tail(es)) = n - 1
      /\ \A i \in 1 .. n - 1 : Tail(es)[i] = es[i + 1]
  BY <1>2
<1>4. PICK u : u = [i \in 1 .. n |-> t[i + 1]]
  OBVIOUS
<1>5. u[1] = Moved(q, Head(es)) /\ u[Len(Tail(es)) + 1] = r /\ Fits(kind, q, Head(es))
  BY <1>1, <1>2, <1>3, <1>4
<1>6. ASSUME NEW i \in 1 .. Len(Tail(es))
      PROVE  Fits(kind, u[i], Tail(es)[i]) /\ u[i + 1] = Moved(u[i], Tail(es)[i])
  <2>1. PICK j \in 1 .. n : j = i + 1
    BY <1>2, <1>3
  <2>2. Fits(kind, t[j], es[j]) /\ t[j + 1] = Moved(t[j], es[j])
    BY <1>1, <1>2
  <2>3. u[i] = t[j] /\ u[i + 1] = t[j + 1] /\ Tail(es)[i] = es[j]
    BY <1>2, <1>3, <1>4, <2>1
  <2> QED BY <2>2, <2>3
<1> QED BY <1>5, <1>6 DEF Leads

LEMMA LeadsAppend ==
  ASSUME NEW kind, NEW q, NEW es \in Seq(Entry), NEW r, NEW e \in Entry,
         Leads(kind, q, es, r), Fits(kind, r, e)
  PROVE  Leads(kind, q, Append(es, e), Moved(r, e))
<1>1. PICK t : /\ t[1] = q /\ t[Len(es) + 1] = r
               /\ \A i \in 1 .. Len(es) : Fits(kind, t[i], es[i]) /\ t[i + 1] = Moved(t[i], es[i])
  BY DEF Leads
<1>2. PICK n \in Nat : n = Len(es)
  OBVIOUS
<1>3. PICK fs : fs = Append(es, e)
  OBVIOUS
<1>4. Len(fs) = n + 1 /\ fs[n + 1] = e /\ \A i \in 1 .. n : fs[i] = es[i]
  BY <1>2, <1>3
<1>5. PICK u : u = [i \in 1 .. n + 2 |-> IF i = n + 2 THEN Moved(r, e) ELSE t[i]]
  OBVIOUS
<1>6. u[n + 2] = Moved(r, e) /\ u[n + 1] = r /\ u[1] = q
  BY <1>1, <1>2, <1>5
<1>7. ASSUME NEW i \in 1 .. n + 1
      PROVE  Fits(kind, u[i], fs[i]) /\ u[i + 1] = Moved(u[i], fs[i])
  <2>1. CASE i = n + 1
    <3>1. i + 1 = n + 2
      BY <2>1
    <3> QED BY <1>4, <1>6, <2>1, <3>1
  <2>2. CASE i # n + 1
    <3>1. i \in 1 .. n
      BY <2>2
    <3>2. u[i] = t[i] /\ u[i + 1] = t[i + 1]
      BY <1>5, <3>1
    <3> QED BY <1>1, <1>2, <1>4, <3>1, <3>2
  <2> QED BY <2>1, <2>2
<1>8. Len(fs) + 1 = n + 2
  BY <1>4
<1> QED BY <1>3, <1>4, <1>6, <1>7, <1>8 DEF Leads

LEMMA ChannelEmpty ==
  ASSUME NEW q, NEW s, NEW r
  PROVE  ChannelLeads(q, <<>>, s, r) <=> r = q
<1>1. ASSUME r = q PROVE ChannelLeads(q, <<>>, s, r)
  <2>1. PICK t : t = [i \in {1} |-> q]
    OBVIOUS
  <2> QED BY <1>1, <2>1 DEF ChannelLeads
<1> QED BY <1>1 DEF ChannelLeads

LEMMA ChannelHead ==
  ASSUME NEW q, NEW ch \in Seq(Message), NEW s, NEW r, ch # <<>>, ChannelLeads(q, ch, s, r)
  PROVE  \E p : MessageLeads(q, Head(ch), s, p) /\ ChannelLeads(p, Tail(ch), s, r)
<1>1. PICK t : /\ t[1] = q /\ t[Len(ch) + 1] = r
               /\ \A i \in 1 .. Len(ch) : MessageLeads(t[i], ch[i], s, t[i + 1])
  BY DEF ChannelLeads
<1>2. PICK n \in Nat : n = Len(ch) /\ n > 0
  OBVIOUS
<1>3. /\ Head(ch) = ch[1] /\ Len(Tail(ch)) = n - 1
      /\ \A i \in 1 .. n - 1 : Tail(ch)[i] = ch[i + 1]
  BY <1>2
<1>4. PICK u : u = [i \in 1 .. n |-> t[i + 1]]
  OBVIOUS
<1>5. u[1] = t[2] /\ u[Len(Tail(ch)) + 1] = r /\ MessageLeads(q, Head(ch), s, t[2])
  <2>1. MessageLeads(t[1], ch[1], s, t[1 + 1])
    BY <1>1, <1>2
  <2> QED BY <1>1, <1>2, <1>3, <1>4, <2>1
<1>6. ASSUME NEW i \in 1 .. Len(Tail(ch))
      PROVE  MessageLeads(u[i], Tail(ch)[i], s, u[i + 1])
  <2>1. PICK j \in 1 .. n : j = i + 1
    BY <1>2, <1>3
  <2>2. MessageLeads(t[j], ch[j], s, t[j + 1])
    BY <1>1, <1>2
  <2>3. u[i] = t[j] /\ u[i + 1] = t[j + 1] /\ Tail(ch)[i] = ch[j]
    BY <1>2, <1>3, <1>4, <2>1
  <2> QED BY <2>2, <2>3
<1>7. ChannelLeads(t[2], Tail(ch), s, r)
  BY <1>5, <1>6 DEF ChannelLeads
<1> QED BY <1>5, <1>7

LEMMA ChannelAppend ==
  ASSUME NEW q, NEW ch \in Seq(Message), NEW s, NEW p, NEW m \in Message, NEW r,
         ChannelLeads(q, ch, s, p), MessageLeads(p, m, s, r)
  PROVE  ChannelLeads(q, Append(ch, m), s, r)
<1>1. PICK t : /\ t[1] = q /\ t[Len(ch) + 1] = p
               /\ \A i \in 1 .. Len(ch) : MessageLeads(t[i], ch[i], s, t[i + 1])
  BY DEF ChannelLeads
<1>2. PICK n \in Nat : n = Len(ch)
  OBVIOUS
<1>3. PICK dh : dh = Append(ch, m)
  OBVIOUS
<1>4. Len(dh) = n + 1 /\ dh[n + 1] = m /\ \A i \in 1 .. n : dh[i] = ch[i]
  BY <1>2, <1>3
<1>5. PICK u : u = [i \in 1 .. n + 2 |-> IF i = n + 2 THEN r ELSE t[i]]
  OBVIOUS
<1>6. u[n + 2] = r /\ u[n + 1] = p /\ u[1] = q
  BY <1>1, <1>2, <1>5
<1>7. ASSUME NEW i \in 1 .. n + 1
      PROVE  MessageLeads(u[i], dh[i], s, u[i + 1])
  <2>1. CASE i = n + 1
    <3>1. i + 1 = n + 2
      BY <2>1
    <3> QED BY <1>4, <1>6, <2>1, <3>1
  <2>2. CASE i # n + 1
    <3>1. i \in 1 .. n
      BY <2>2
    <3>2. u[i] = t[i] /\ u[i + 1] = t[i + 1]
      BY <1>5, <3>1
    <3> QED BY <1>1, <1>2, <1>4, <3>1, <3>2
  <2> QED BY <2>1, <2>2
<1>8. Len(dh) + 1 = n + 2
  BY <1>4
<1> QED BY <1>3, <1>4, <1>6, <1>7, <1>8 DEF ChannelLeads

\* The last message in flight is replaced by one that leads further.
LEMMA ChannelLast ==
  ASSUME NEW q, NEW ch \in Seq(Message), NEW s, NEW p, NEW m, NEW r, NEW dh, ch # <<>>,
         ChannelLeads(q, ch, s, p), dh = [ch EXCEPT ![Len(ch)] = m],
         \A x : MessageLeads(x, ch[Len(ch)], s, p) => MessageLeads(x, m, s, r)
  PROVE  ChannelLeads(q, dh, s, r)
<1>1. PICK t : /\ t[1] = q /\ t[Len(ch) + 1] = p
               /\ \A i \in 1 .. Len(ch) : MessageLeads(t[i], ch[i], s, t[i + 1])
  BY DEF ChannelLeads
<1>2. PICK n \in Nat : n = Len(ch) /\ n > 0
  OBVIOUS
<1>3. Len(dh) = n /\ dh[n] = m /\ \A i \in 1 .. n - 1 : dh[i] = ch[i]
  BY <1>2
<1>4. PICK u : u = [i \in 1 .. n + 1 |-> IF i = n + 1 THEN r ELSE t[i]]
  OBVIOUS
<1>5. u[n + 1] = r /\ u[1] = q
  BY <1>1, <1>2, <1>4
<1>6. ASSUME NEW i \in 1 .. n
      PROVE  MessageLeads(u[i], dh[i], s, u[i + 1])
  <2>1. CASE i = n
    <3>1. MessageLeads(t[n], ch[n], s, p)
      BY <1>1, <1>2
    <3>2. u[n] = t[n]
      BY <1>2, <1>4
    <3> QED BY <1>2, <1>3, <1>5, <2>1, <3>1, <3>2
  <2>2. CASE i # n
    <3>1. i \in 1 .. n - 1 /\ i \in 1 .. n
      BY <2>2
    <3>2. u[i] = t[i] /\ u[i + 1] = t[i + 1]
      BY <1>4, <3>1
    <3> QED BY <1>1, <1>2, <1>3, <3>1, <3>2
  <2> QED BY <2>1, <2>2
<1> QED BY <1>3, <1>5, <1>6 DEF ChannelLeads

-----------------------------------------------------------------------------
(* One entry on one book *)

LEMMA AddFollows ==
  ASSUME NEW b, GoodBook(b), NEW id \in OrderId \ DOMAIN b.map, NEW side \in Side,
         NEW size \in Size, NEW price \in Price
  PROVE  /\ GoodBook(Add(b, id, side, size, price))
         /\ LiveOf(Add(b, id, side, size, price)) = Put(LiveOf(b), id, Quote(side, price, size))
<1>1. PICK c : c = AddOrder(b, id, side, size, price)
  OBVIOUS
<1>2. Add(b, id, side, size, price) = c
  BY <1>1 DEF Add
<1>3. GoodBook(c)
  BY <1>1, AddExact, AddSums DEF GoodBook, Exact
<1>4. PICK o : o = c.map[id]
  OBVIOUS
<1>5. /\ c.map = Put(b.map, id, o)
      /\ o.side = side /\ o.price = price /\ o.size = size
  BY <1>1, <1>4 DEF AddOrder, Put
<1>6. LiveOf(c) = Put(LiveOf(b), id, Quote(side, price, size))
  BY <1>5 DEF LiveOf, Quote, Put
<1> QED BY <1>2, <1>3, <1>6

LEMMA RemoveFollows ==
  ASSUME NEW b, GoodBook(b), NEW id
  PROVE  /\ GoodBook(Remove(b, id))
         /\ LiveOf(Remove(b, id)) = Drop(LiveOf(b), id)
         /\ DOMAIN Remove(b, id).map = DOMAIN b.map \ {id}
<1>0. BookInv(b)
  BY DEF GoodBook, Exact
<1>1. CASE id \notin DOMAIN b.map
  <2>1. Remove(b, id) = b
    BY <1>0, <1>1, RemoveFinds DEF Remove
  <2> QED BY <1>1, <2>1 DEF LiveOf, Drop
<1>2. CASE id \in DOMAIN b.map
  <2>1. PICK c : c = RemoveOrder(b, id)
    OBVIOUS
  <2>2. Remove(b, id) = c
    BY <1>0, <1>2, <2>1, RemoveFinds DEF Remove
  <2>3. GoodBook(c)
    BY <1>0, <1>2, <2>1, RemoveExact, RemoveSums DEF GoodBook
  <2>4. c.map = Drop(b.map, id)
    BY <2>1 DEF RemoveOrder
  <2>5. LiveOf(c) = Drop(LiveOf(b), id)
    BY <2>4 DEF LiveOf, Drop
  <2>6. DOMAIN c.map = DOMAIN b.map \ {id}
    BY <2>4 DEF Drop
  <2> QED BY <2>2, <2>3, <2>5, <2>6
<1> QED BY <1>1, <1>2

LEMMA ModifyFollows ==
  ASSUME NEW b, GoodBook(b), NEW id \in DOMAIN b.map, NEW size \in Size
  PROVE  /\ GoodBook(Modify(b, id, size))
         /\ LiveOf(Modify(b, id, size)) = Resized(LiveOf(b), id, size)
<1>0. BookInv(b) /\ Exact(b)
  BY DEF GoodBook, Exact
<1>1. PICK c : c = ModifyOrder(b, id, size)
  OBVIOUS
<1>2. Modify(b, id, size) = c
  BY <1>0, <1>1, RemoveFinds DEF Modify
<1>3. GoodBook(c)
  BY <1>0, <1>1, ModifyExact, ModifySums DEF GoodBook
<1>4. c.map = [b.map EXCEPT ![id].size = size]
  BY <1>0, <1>1 DEF ModifyOrder, Exact, AllShared, BookInv, Indexed
<1>5. \A x \in DOMAIN b.map : b.map[x] \in Order
  BY <1>0 DEF BookInv, IsBook, IsIndex
<1>6. LiveOf(c) = Resized(LiveOf(b), id, size)
  BY <1>4, <1>5 DEF LiveOf, Quote, Order, Resized
<1> QED BY <1>2, <1>3, <1>6

\* An entry that fits the orders of a book moves them as it moves quotes.
LEMMA EntryFollows ==
  ASSUME NEW kind \in {"W", "X"}, NEW b, GoodBook(b), NEW e \in Entry, Fits(kind, LiveOf(b), e),
         NEW c, c = IF kind = "W" THEN Add(b, EntryId(e), e.side, e.size, e.price)
                    ELSE ApplyEntry(b, EntryId(e), e)
  PROVE  GoodBook(c) /\ LiveOf(c) = Moved(LiveOf(b), e)
<1>1. PICK id \in OrderId : id = EntryId(e)
  BY DEF Fits
<1>2. e.side \in Side /\ e.size \in Size /\ e.price \in Price
  BY DEF Fits, Entry
<1>3. DOMAIN LiveOf(b) = DOMAIN b.map
  BY DEF LiveOf
<1>4. CASE kind = "W"
  <2>1. e.action = "NEW" /\ id \notin DOMAIN b.map
    BY <1>1, <1>3, <1>4 DEF Fits
  <2>2. c = Add(b, id, e.side, e.size, e.price)
    BY <1>1, <1>4
  <2>3. Moved(LiveOf(b), e) = Put(LiveOf(b), id, Quote(e.side, e.price, e.size))
    BY <1>1, <2>1 DEF Moved
  <2> QED BY <1>2, <2>1, <2>2, <2>3, AddFollows
<1>5. CASE kind = "X" /\ e.action = "NEW"
  <2>1. c = Add(IF NewReplaces THEN Remove(b, id) ELSE b, id, e.side, e.size, e.price)
    BY <1>1, <1>5 DEF ApplyEntry, NewEntry
  <2>2. Moved(LiveOf(b), e) = Put(LiveOf(b), id, Quote(e.side, e.price, e.size))
    BY <1>1, <1>5 DEF Moved
  <2>3. CASE NewReplaces
    <3>1. PICK d : d = Remove(b, id)
      OBVIOUS
    <3>2. GoodBook(d) /\ LiveOf(d) = Drop(LiveOf(b), id) /\ id \notin DOMAIN d.map
      BY <3>1, RemoveFollows
    <3>3. GoodBook(c) /\ LiveOf(c) = Put(LiveOf(d), id, Quote(e.side, e.price, e.size))
      BY <1>2, <2>1, <2>3, <3>1, <3>2, AddFollows
    <3>4. Put(Drop(LiveOf(b), id), id, Quote(e.side, e.price, e.size))
            = Put(LiveOf(b), id, Quote(e.side, e.price, e.size))
      BY DEF Put, Drop
    <3> QED BY <2>2, <3>2, <3>3, <3>4
  <2>4. CASE ~NewReplaces
    <3>1. id \notin DOMAIN b.map
      BY <1>1, <1>3, <1>5, <2>4 DEF Fits
    <3> QED BY <1>2, <2>1, <2>2, <2>4, <3>1, AddFollows
  <2> QED BY <2>3, <2>4
<1>6. CASE kind = "X" /\ e.action = "CHANGE" /\ e.ref # NO_ID
  <2>1. PICK d : d = Remove(b, e.ref)
    OBVIOUS
  <2>2. c = Add(d, id, e.side, e.size, e.price)
    BY <1>1, <1>6, <2>1 DEF ApplyEntry, ChangeEntry
  <2>3. /\ GoodBook(d) /\ LiveOf(d) = Drop(LiveOf(b), e.ref)
        /\ DOMAIN d.map = DOMAIN b.map \ {e.ref}
    BY <2>1, RemoveFollows
  <2>4. id \notin DOMAIN d.map
    BY <1>1, <1>3, <1>6, <2>3 DEF Fits
  <2>5. GoodBook(c) /\ LiveOf(c) = Put(LiveOf(d), id, Quote(e.side, e.price, e.size))
    BY <1>2, <2>2, <2>3, <2>4, AddFollows
  <2> QED BY <1>1, <1>6, <2>3, <2>5 DEF Moved
<1>7. CASE kind = "X" /\ e.action = "CHANGE" /\ e.ref = NO_ID
  <2>1. c = Modify(b, id, e.size)
    BY <1>1, <1>7 DEF ApplyEntry, ChangeEntry
  <2>2. id \in DOMAIN b.map
    BY <1>1, <1>3, <1>7 DEF Fits
  <2>3. Moved(LiveOf(b), e) = Resized(LiveOf(b), id, e.size)
    BY <1>1, <1>7 DEF Moved
  <2> QED BY <1>2, <2>1, <2>2, <2>3, ModifyFollows
<1>8. CASE kind = "X" /\ e.action = "DELETE"
  <2>1. c = Remove(b, id)
    BY <1>1, <1>8 DEF ApplyEntry, DeleteEntry
  <2>2. Moved(LiveOf(b), e) = Drop(LiveOf(b), id)
    BY <1>1, <1>8 DEF Moved
  <2> QED BY <2>1, <2>2, RemoveFollows
<1> QED BY <1>4, <1>5, <1>6, <1>7, <1>8 DEF Fits

LEMMA EmptyGood == GoodBook(EmptyBook) /\ LiveOf(EmptyBook) = EmptyFcn
<1>1. Exact(EmptyBook)
  BY EmptyBookInv DEF Exact, Mirrors, AllShared, EmptyBook, EmptyFcn
<1>2. LiveOf(EmptyBook) = EmptyFcn
  BY DEF LiveOf, EmptyBook, EmptyFcn
<1> QED BY <1>1, <1>2, EmptySums DEF GoodBook

\* A snapshot leads from an empty book to the quotes it was made of.
LEMMA SnapshotLeads ==
  ASSUME CInv, NEW s \in Symbol, quotes[s] # EmptyFcn, NEW m \in SnapshotsOf(s)
  PROVE  /\ m.kind = "W" /\ m.sym = s /\ Regular(m)
         /\ Leads("W", EmptyFcn, m.entries, quotes[s])
<1>1. PICK q : q = quotes[s]
  OBVIOUS
<1>2. PICK ids : ids = DOMAIN q
  OBVIOUS
<1>3. /\ q = [id \in ids |-> q[id]] /\ ids \subseteq OrderId
      /\ \A id \in ids : q[id] \in QuoteSet
  BY <1>1, <1>2 DEF CInv, VenueInv, IsQuotes
<1>4. IsFiniteSet(ids)
  BY <1>3, CollectorAssumption, FS_Subset
<1>5. PICK n \in Nat : n = Cardinality(ids)
  BY <1>4, FS_CardinalityType
<1>6. ids # {} /\ n # 0
  <2>1. ids # {}
    BY <1>1, <1>3 DEF EmptyFcn
  <2> QED BY <1>4, <1>5, <2>1, FS_EmptySet
<1> DEFINE Line(id, useQuoteId) ==
             [action |-> "NEW", sym |-> NO_SYM, id |-> IF useQuoteId THEN NO_ID ELSE id,
              qid |-> id, ref |-> NO_ID, side |-> q[id].side,
              price |-> q[id].price, size |-> q[id].size]
<1>7. PICK order \in [1 .. n -> ids], u \in BOOLEAN :
        /\ \A x \in ids : \E i \in 1 .. n : order[i] = x
        /\ m = [kind |-> "W", sym |-> s, entries |-> [i \in 1 .. n |-> Line(order[i], u)]]
  <2> DEFINE QLine(id, useQuoteId) ==
               [action |-> "NEW", sym |-> NO_SYM, id |-> IF useQuoteId THEN NO_ID ELSE id,
                qid |-> id, ref |-> NO_ID, side |-> quotes[s][id].side,
                price |-> quotes[s][id].price, size |-> quotes[s][id].size]
  <2>0. PICK order \in [1 .. Cardinality(DOMAIN quotes[s]) -> DOMAIN quotes[s]], u \in BOOLEAN :
          /\ \A x \in DOMAIN quotes[s] : \E i \in DOMAIN order : order[i] = x
          /\ m = [kind |-> "W", sym |-> s, entries |-> [i \in DOMAIN order |-> QLine(order[i], u)]]
    BY DEF SnapshotsOf
  <2>1. /\ order \in [1 .. n -> ids]
        /\ \A x \in ids : \E i \in DOMAIN order : order[i] = x
        /\ m = [kind |-> "W", sym |-> s, entries |-> [i \in DOMAIN order |-> Line(order[i], u)]]
    BY <1>1, <1>2, <1>5, <2>0, Zenon
  <2>2. DOMAIN order = 1 .. n
    BY <2>1
  <2>3. m = [kind |-> "W", sym |-> s, entries |-> [i \in 1 .. n |-> Line(order[i], u)]]
    BY <2>1, <2>2, Zenon
  <2>4. \A x \in ids : \E i \in 1 .. n : order[i] = x
    BY <2>1, <2>2
  <2> HIDE DEF Line, QLine
  <2> QED BY <2>1, <2>3, <2>4
<1>8. \A i, j \in 1 .. n : order[i] = order[j] => i = j
  <2>1. order \in Surjection(1 .. n, ids)
    BY <1>7 DEF Surjection
  <2>2. IsFiniteSet(1 .. n) /\ Cardinality(1 .. n) = n
    BY <1>6, FS_Interval
  <2>3. order \in Injection(1 .. n, ids)
    BY <1>5, <2>1, <2>2, FS_Surjection
  <2> QED BY <2>3 DEF Injection, IsInjective
<1>9. PICK es : es = [i \in 1 .. n |-> Line(order[i], u)]
  OBVIOUS
<1>10. /\ Len(es) = n /\ m.entries = es /\ m.kind = "W" /\ m.sym = s
  BY <1>7, <1>9
<1>11. \A i \in 1 .. n :
         /\ es[i].action = "NEW" /\ es[i].sym = NO_SYM
         /\ es[i].id = (IF u THEN NO_ID ELSE order[i]) /\ es[i].qid = order[i]
         /\ es[i].side = q[order[i]].side /\ es[i].price = q[order[i]].price
         /\ es[i].size = q[order[i]].size
  BY <1>9
<1> HIDE DEF Line
<1>12. \A i \in 1 .. n : order[i] \in ids /\ order[i] \in OrderId /\ order[i] # NO_ID
  BY <1>3, <1>7, CollectorAssumption
<1>13. Regular(m)
  <2>1. m.entries # <<>>
    BY <1>6, <1>10
  <2>2. RegularEntries("W", s, es)
    BY <1>10, <1>11, <1>12 DEF RegularEntries
  <2> QED BY <1>10, <2>1, <2>2 DEF Regular, SymOf
<1>14. PICK t : t = [i \in 1 .. n + 1 |-> [x \in {order[j] : j \in 1 .. i - 1} |-> q[x]]]
  OBVIOUS
<1>15. t[1] = EmptyFcn
  <2>1. 1 .. 1 - 1 = {}
    OBVIOUS
  <2> QED BY <1>14, <2>1 DEF EmptyFcn
<1>16. t[n + 1] = q
  <2>1. {order[j] : j \in 1 .. n} = ids
    BY <1>7
  <2>2. n + 1 - 1 = n /\ n + 1 \in 1 .. n + 1
    OBVIOUS
  <2>3. t[n + 1] = [x \in {order[j] : j \in 1 .. n} |-> q[x]]
    BY <1>14, <2>2
  <2> QED BY <1>3, <2>1, <2>3
<1>17. ASSUME NEW i \in 1 .. n
       PROVE  Fits("W", t[i], es[i]) /\ t[i + 1] = Moved(t[i], es[i])
  <2>1. PICK D : D = {order[j] : j \in 1 .. i - 1}
    OBVIOUS
  <2>2. PICK k : k = order[i]
    OBVIOUS
  <2>3. k \notin D /\ {order[j] : j \in 1 .. i} = D \cup {k}
    <3>1. \A j \in 1 .. i - 1 : j \in 1 .. n /\ j # i
      OBVIOUS
    <3>2. k \notin D
      BY <1>8, <2>1, <2>2, <3>1
    <3>3. \A j \in 1 .. i : j \in 1 .. i - 1 \/ j = i
      OBVIOUS
    <3>4. \A j \in 1 .. i - 1 : j \in 1 .. i
      OBVIOUS
    <3>5. i \in 1 .. i
      OBVIOUS
    <3> QED BY <2>1, <2>2, <3>2, <3>3, <3>4, <3>5
  <2>4. t[i] = [x \in D |-> q[x]]
    BY <1>14, <2>1
  <2>5. t[i + 1] = [x \in D \cup {k} |-> q[x]]
    <3>1. i + 1 \in 1 .. n + 1 /\ i + 1 - 1 = i
      OBVIOUS
    <3> QED BY <1>14, <2>3, <3>1
  <2>6. PICK e : e = es[i]
    OBVIOUS
  <2>7. /\ e.action = "NEW" /\ EntryId(e) = k /\ k \in OrderId /\ k \in ids
        /\ e.side = q[k].side /\ e.price = q[k].price /\ e.size = q[k].size
    BY <1>11, <1>12, <2>2, <2>6 DEF EntryId
  <2>8. e.side \in Side /\ Quote(e.side, e.price, e.size) = q[k]
    BY <1>3, <2>7 DEF QuoteSet, Quote
  <2>9. Fits("W", t[i], e)
    BY <2>3, <2>4, <2>7, <2>8 DEF Fits
  <2>10. Moved(t[i], e) = Put(t[i], k, q[k])
    BY <2>7, <2>8 DEF Moved
  <2>11. Put(t[i], k, q[k]) = t[i + 1]
    BY <2>4, <2>5 DEF Put
  <2> QED BY <2>6, <2>9, <2>10, <2>11
<1>18. Leads("W", EmptyFcn, es, q)
  BY <1>10, <1>15, <1>16, <1>17 DEF Leads
<1> QED BY <1>1, <1>10, <1>13, <1>18

-----------------------------------------------------------------------------
(* The collector's steps follow the venue *)

LEMMA LogonFollows ==
  ASSUME CInv, SessionInv, Logon
  PROVE  FollowInv'
<1>1. /\ books' = [s \in Symbol |-> EmptyBook] /\ heard' = {}
      /\ UNCHANGED <<work, channel, quotes, subscribed>>
      /\ work = Idle /\ channel = <<>> /\ subscribed = {}
  BY DEF Logon, SessionInv
<1>2. work.at = "idle"
  BY <1>1 DEF Idle, Working
<1>3. BooksInv'
  BY <1>1, EmptyGood DEF BooksInv
<1>4. MessagesInv'
  BY <1>1, <1>2 DEF MessagesInv, RegularWork
<1>5. ASSUME NEW s \in Symbol
      PROVE  Follows(books'[s], work', channel', s, Target(quotes', subscribed', s))
  <2>1. Target(quotes', subscribed', s) = EmptyFcn
    BY <1>1 DEF Target
  <2>2. WorkLeads(work', books'[s], s, EmptyFcn)
    BY <1>1, <1>2, EmptyGood DEF WorkLeads, About
  <2>3. ChannelLeads(EmptyFcn, channel', s, EmptyFcn)
    BY <1>1, ChannelEmpty
  <2> QED BY <2>1, <2>2, <2>3 DEF Follows
<1>6. FollowsInv'
  BY <1>5 DEF FollowsInv
<1>7. PublishedInv'
  BY <1>1 DEF PublishedInv
<1> QED BY <1>3, <1>4, <1>6, <1>7 DEF FollowInv

\* A message is taken up.
LEMMA BeginFollows ==
  ASSUME CInv, FollowInv, work.at = "idle", channel # <<>>, NEW m, m = Head(channel), Regular(m),
         m.kind \in {"W", "X"}, work'.at = m.kind, work'.todo = m.entries,
         WorkSym(work') = SymOf(m), RegularWork(work'), channel' = Tail(channel),
         books' = IF m.kind = "W" THEN Put(books, SymOf(m), EmptyBook) ELSE books,
         UNCHANGED <<published, quotes, subscribed, heard>>
  PROVE  FollowInv'
<1>0. channel \in Seq(Message)
  BY DEF CInv, VenueInv
<1>1. PICK z \in Symbol : z = SymOf(m)
  BY DEF Regular
<1>2. DOMAIN books = Symbol /\ \A s \in Symbol : GoodBook(books[s])
  BY DEF FollowInv, BooksInv
<1>3. /\ DOMAIN books' = Symbol /\ \A s \in Symbol \ {z} : books'[s] = books[s]
      /\ books'[z] = IF m.kind = "W" THEN EmptyBook ELSE books[z]
  BY <1>1, <1>2 DEF Put
<1>4. BooksInv'
  BY <1>2, <1>3, EmptyGood DEF BooksInv
<1>5. MessagesInv'
  <2>1. \A i \in 1 .. Len(channel') : i + 1 \in 1 .. Len(channel) /\ channel'[i] = channel[i + 1]
    BY <1>0
  <2> QED BY <2>1 DEF FollowInv, MessagesInv
<1>6. ASSUME NEW s \in Symbol
      PROVE  Follows(books'[s], work', channel', s, Target(quotes', subscribed', s))
  <2>1. PICK r : r = Target(quotes, subscribed, s)
    OBVIOUS
  <2>2. ChannelLeads(LiveOf(books[s]), channel, s, r)
    BY <2>1 DEF FollowInv, FollowsInv, Follows, WorkLeads, About
  <2>3. PICK p : MessageLeads(LiveOf(books[s]), m, s, p) /\ ChannelLeads(p, channel', s, r)
    BY <1>0, <2>2, ChannelHead
  <2>4. WorkLeads(work', books'[s], s, p)
    <3>1. CASE s = z
      <4>1. Leads(m.kind, LiveOf(books'[s]), m.entries, p)
        BY <1>1, <1>3, <2>3, <3>1, EmptyGood DEF MessageLeads
      <4>2. About(work', s)
        BY <1>1, <3>1 DEF About
      <4> QED BY <4>1, <4>2 DEF WorkLeads
    <3>2. CASE s # z
      <4>1. p = LiveOf(books'[s])
        BY <1>1, <1>3, <2>3, <3>2 DEF MessageLeads
      <4>2. ~About(work', s)
        BY <1>1, <3>2 DEF About
      <4> QED BY <4>1, <4>2 DEF WorkLeads
    <3> QED BY <3>1, <3>2
  <2>5. Target(quotes', subscribed', s) = r
    BY <2>1
  <2> QED BY <2>3, <2>4, <2>5 DEF Follows
<1>7. FollowsInv'
  BY <1>6 DEF FollowsInv
<1>8. PublishedInv'
  <2>1. ASSUME NEW s \in heard
        PROVE  /\ s \in Symbol /\ s \in DOMAIN published
               /\ ~About(work', s) => published[s] = TopOfBook(books'[s])
    <3>1. s \in Symbol /\ s \in DOMAIN published /\ published[s] = TopOfBook(books[s])
      BY DEF FollowInv, PublishedInv, About
    <3>2. ~About(work', s) => s # z
      BY <1>1 DEF About
    <3> QED BY <1>3, <3>1, <3>2
  <2> QED BY <2>1 DEF PublishedInv
<1> QED BY <1>4, <1>5, <1>7, <1>8 DEF FollowInv

\* An entry is applied to the book it is about.
LEMMA EntryStepFollows ==
  ASSUME CInv, FollowInv, NEW z \in Symbol, About(work, z), work.at \in {"W", "X"},
         work.todo # <<>>, NEW e, e = Head(work.todo), NEW c,
         c = IF work.at = "W" THEN Add(books[z], EntryId(e), e.side, e.size, e.price)
             ELSE ApplyEntry(books[z], EntryId(e), e),
         books' = Put(books, z, c), work'.at = work.at, work'.todo = Tail(work.todo),
         WorkSym(work') = z, RegularWork(work'),
         UNCHANGED <<published, channel, quotes, subscribed, heard>>
  PROVE  FollowInv'
<1>0. work.todo \in Seq(Entry) /\ e \in Entry
  BY DEF CInv, CollectorInv, WorkSet
<1>1. DOMAIN books = Symbol /\ \A s \in Symbol : GoodBook(books[s])
  BY DEF FollowInv, BooksInv
<1>2. /\ DOMAIN books' = Symbol /\ \A s \in Symbol \ {z} : books'[s] = books[s]
      /\ books'[z] = c
  BY <1>1 DEF Put
<1>3. \A s \in Symbol : About(work, s) <=> s = z
  BY DEF About
<1>4. \A s \in Symbol : About(work', s) <=> s = z
  BY DEF About
<1>5. PICK r : r = Target(quotes, subscribed, z)
  OBVIOUS
<1>6. PICK q : Leads(work.at, LiveOf(books[z]), work.todo, q) /\ ChannelLeads(q, channel, z, r)
  BY <1>3, <1>5 DEF FollowInv, FollowsInv, Follows, WorkLeads
<1>7. /\ Fits(work.at, LiveOf(books[z]), e)
      /\ Leads(work.at, Moved(LiveOf(books[z]), e), Tail(work.todo), q)
  BY <1>0, <1>6, LeadsHead
<1>8. GoodBook(c) /\ LiveOf(c) = Moved(LiveOf(books[z]), e)
  BY <1>0, <1>1, <1>7, EntryFollows
<1>9. BooksInv'
  BY <1>1, <1>2, <1>8 DEF BooksInv
<1>10. MessagesInv'
  BY DEF FollowInv, MessagesInv
<1>11. ASSUME NEW s \in Symbol
       PROVE  Follows(books'[s], work', channel', s, Target(quotes', subscribed', s))
  <2>1. CASE s = z
    <3>1. WorkLeads(work', books'[s], s, q)
      BY <1>2, <1>4, <1>7, <1>8, <2>1 DEF WorkLeads
    <3>2. Target(quotes', subscribed', s) = r /\ ChannelLeads(q, channel', s, r)
      BY <1>5, <1>6, <2>1
    <3> QED BY <3>1, <3>2 DEF Follows
  <2>2. CASE s # z
    <3>1. ChannelLeads(LiveOf(books[s]), channel, s, Target(quotes, subscribed, s))
      BY <1>3, <2>2 DEF FollowInv, FollowsInv, Follows, WorkLeads
    <3>2. WorkLeads(work', books'[s], s, LiveOf(books[s]))
      BY <1>2, <1>4, <2>2 DEF WorkLeads
    <3> QED BY <3>1, <3>2 DEF Follows
  <2> QED BY <2>1, <2>2
<1>12. FollowsInv'
  BY <1>11 DEF FollowsInv
<1>13. PublishedInv'
  BY <1>2, <1>3, <1>4 DEF FollowInv, PublishedInv
<1> QED BY <1>9, <1>10, <1>12, <1>13 DEF FollowInv

\* The first message in flight, when it is taken up.
LEMMA FirstMessage ==
  ASSUME CInv, FollowInv, CanReceive, NEW m, m = Head(channel)
  PROVE  /\ work.at = "idle" /\ channel # <<>> /\ m \in Message /\ Regular(m)
         /\ m.entries \in Seq(Entry) /\ m.kind \in {"W", "X"} /\ SymOf(m) \in Symbol
<1>1. channel \in Seq(Message) /\ channel # <<>> /\ work.at = "idle"
  BY DEF CInv, VenueInv, CanReceive
<1>2. m = channel[1] /\ 1 \in 1 .. Len(channel) /\ m \in Message
  BY <1>1
<1>3. Regular(m)
  BY <1>2 DEF FollowInv, MessagesInv
<1> QED BY <1>1, <1>2, <1>3 DEF Message, Regular

LEMMA BeginSnapshotFollows ==
  ASSUME CInv, FollowInv, BeginSnapshot
  PROVE  FollowInv'
<1>1. PICK m : m = Head(channel)
  OBVIOUS
<1>2. /\ work.at = "idle" /\ channel # <<>> /\ Regular(m) /\ m.kind = "W"
      /\ m.entries # <<>> /\ m.sym \in Symbol /\ SymOf(m) = m.sym
      /\ RegularEntries("W", m.sym, m.entries)
  BY <1>1, FirstMessage DEF BeginSnapshot, Regular, SymOf
<1>3. DOMAIN books = Symbol /\ NO_SYM \notin Symbol
  BY CollectorAssumption DEF FollowInv, BooksInv
<1>4. GetBook(m.sym) = m.sym
  BY <1>2, <1>3 DEF GetBook
<1>5. /\ work' = Working("W", m.entries, m.sym, NO_ID, NO_ID, m.sym)
      /\ books' = Put(books, m.sym, EmptyBook)
      /\ channel' = Tail(channel)
      /\ UNCHANGED <<death, on, published, venue, observed>>
  BY <1>1, <1>2, <1>3, <1>4 DEF BeginSnapshot, Clear
<1>6. /\ work'.at = "W" /\ work'.todo = m.entries /\ work'.sym = m.sym /\ work'.id = NO_ID
      /\ work'.pBook = m.sym
  BY <1>5 DEF Working
<1>7. WorkSym(work') = m.sym /\ RegularWork(work')
  BY <1>2, <1>6 DEF WorkSym, RegularWork
<1>8. UNCHANGED <<published, quotes, subscribed, heard>>
  BY <1>5 DEF venue, observed
<1> QED BY <1>1, <1>2, <1>5, <1>6, <1>7, <1>8, BeginFollows

LEMMA BeginIncrementalFollows ==
  ASSUME CInv, FollowInv, BeginIncremental
  PROVE  FollowInv'
<1>1. PICK m : m = Head(channel)
  OBVIOUS
<1>2. /\ work.at = "idle" /\ channel # <<>> /\ Regular(m) /\ m.kind = "X"
      /\ m.entries # <<>> /\ SymOf(m) = m.entries[1].sym /\ SymOf(m) \in Symbol
      /\ RegularEntries("X", SymOf(m), m.entries)
  BY <1>1, FirstMessage DEF BeginIncremental, Regular, SymOf
<1>3. /\ work' = Working("X", m.entries, m.sym, NO_ID, NO_ID, NO_SYM)
      /\ channel' = Tail(channel)
      /\ UNCHANGED <<death, on, books, published, venue, observed>>
  BY <1>1 DEF BeginIncremental
<1>4. work'.at = "X" /\ work'.todo = m.entries
  BY <1>3 DEF Working
<1>5. WorkSym(work') = SymOf(m)
  BY <1>2, <1>4 DEF WorkSym
<1>6. RegularWork(work')
  BY <1>2, <1>4, <1>5 DEF RegularWork
<1>7. UNCHANGED <<published, quotes, subscribed, heard>>
  BY <1>3 DEF venue, observed
<1> QED BY <1>1, <1>2, <1>3, <1>4, <1>5, <1>6, <1>7, BeginFollows

LEMMA SnapshotEntryFollows ==
  ASSUME CInv, FollowInv, SnapshotEntry, on'
  PROVE  FollowInv'
<1>1. PICK e : e = Head(work.todo)
  OBVIOUS
<1>3. PICK todo \in Seq(Entry) : todo = work.todo /\ todo # <<>>
  BY DEF CInv, CollectorInv, WorkSet, SnapshotEntry
<1>4. PICK z \in Symbol : z = work.sym
  BY DEF FollowInv, MessagesInv, RegularWork, WorkSym, SnapshotEntry
<1>5. /\ work.at = "W" /\ work.pBook = z /\ About(work, z) /\ RegularEntries("W", z, todo)
      /\ work.id = NO_ID \/ \A i \in 1 .. Len(todo) : todo[i].id \in OrderId
  BY <1>3, <1>4 DEF FollowInv, MessagesInv, RegularWork, WorkSym, About, SnapshotEntry
<1>6. NO_SYM \notin Symbol /\ NO_ID \notin OrderId
  BY CollectorAssumption
<1>7. /\ books' = Put(books, z, Add(books[z], SnapshotId(e), e.side, e.size, e.price))
      /\ work' = Working("W", Tail(todo), Set(e.sym, z, NO_SYM),
                         Set(e.id, work.id, NO_ID), Set(e.qid, work.qid, NO_ID), z)
      /\ UNCHANGED <<death, on, published, channel, venue, observed>>
  BY <1>1, <1>3, <1>4, <1>5, <1>6 DEF SnapshotEntry
<1>8. /\ e = todo[1] /\ 1 \in 1 .. Len(todo) /\ Tail(todo) \in Seq(Entry)
      /\ \A i \in 1 .. Len(Tail(todo)) : i + 1 \in 1 .. Len(todo) /\ Tail(todo)[i] = todo[i + 1]
  BY <1>1, <1>3
<1>9. /\ e.sym = NO_SYM
      /\ \/ /\ e.id = NO_ID /\ e.qid \in OrderId /\ work.id = NO_ID
            /\ \A i \in 1 .. Len(todo) : todo[i].id = NO_ID /\ todo[i].qid \in OrderId
         \/ e.id \in OrderId /\ \A i \in 1 .. Len(todo) : todo[i].id \in OrderId
      /\ \A i \in 1 .. Len(todo) : todo[i].sym = NO_SYM
  BY <1>5, <1>6, <1>8 DEF RegularEntries
<1>10. SnapshotId(e) = EntryId(e)
  BY <1>6, <1>9 DEF SnapshotId, EntryId, HashOf, Set
<1>11. /\ work'.at = "W" /\ work'.todo = Tail(todo) /\ work'.sym = z /\ work'.pBook = z
       /\ work'.id = Set(e.id, work.id, NO_ID)
  BY <1>7, <1>9 DEF Working, Set
<1>12. WorkSym(work') = z
  BY <1>11 DEF WorkSym
<1>13. RegularEntries("W", z, Tail(todo))
  BY <1>8, <1>9 DEF RegularEntries
<1>14. work'.id = NO_ID \/ \A i \in 1 .. Len(Tail(todo)) : Tail(todo)[i].id \in OrderId
  BY <1>8, <1>9, <1>11 DEF Set
<1>15. RegularWork(work')
  BY <1>11, <1>12, <1>13, <1>14 DEF RegularWork
<1>16. UNCHANGED <<published, channel, quotes, subscribed, heard>>
  BY <1>7 DEF venue, observed
<1>17. PICK c : c = Add(books[z], EntryId(e), e.side, e.size, e.price)
  OBVIOUS
<1>18. books' = Put(books, z, c)
  BY <1>7, <1>10, <1>17
<1> QED BY <1>1, <1>3, <1>5, <1>11, <1>12, <1>15, <1>16, <1>17, <1>18, EntryStepFollows

LEMMA IncrementalEntryFollows ==
  ASSUME CInv, FollowInv, IncrementalEntry, on'
  PROVE  FollowInv'
<1>1. PICK e : e = Head(work.todo)
  OBVIOUS
<1>2. PICK todo \in Seq(Entry) : todo = work.todo /\ todo # <<>> /\ work.at = "X"
  BY DEF CInv, CollectorInv, WorkSet, IncrementalEntry
<1>3. PICK z \in Symbol : z = WorkSym(work)
  BY <1>2 DEF FollowInv, MessagesInv, RegularWork
<1>4. /\ About(work, z) /\ RegularEntries("X", z, todo)
  BY <1>2, <1>3 DEF FollowInv, MessagesInv, RegularWork, About
<1>5. NO_SYM \notin Symbol /\ NO_ID \notin OrderId /\ DOMAIN books = Symbol
  BY CollectorAssumption DEF FollowInv, BooksInv
<1>6. /\ e = todo[1] /\ 1 \in 1 .. Len(todo) /\ Tail(todo) \in Seq(Entry)
      /\ \A i \in 1 .. Len(Tail(todo)) : i + 1 \in 1 .. Len(todo) /\ Tail(todo)[i] = todo[i + 1]
  BY <1>1, <1>2
<1>7. e.sym = z /\ e.id \in OrderId /\ \A i \in 1 .. Len(todo) : todo[i].sym = z /\ todo[i].id \in OrderId
  BY <1>4, <1>6 DEF RegularEntries
<1>8. /\ Set(e.sym, work.sym, NO_SYM) = z /\ GetBook(z) = z /\ z # NO_SYM
      /\ HashOf(Set(e.id, work.id, NO_ID)) = EntryId(e)
  BY <1>5, <1>7 DEF Set, GetBook, HashOf, EntryId
<1>9. ~Die(EntryDeath(books[z], EntryId(e), e))
  BY DEF Die
<1>10. PICK c : c = ApplyEntry(books[z], EntryId(e), e)
  OBVIOUS
<1>11. /\ work' = Working("X", Tail(todo), z, Set(e.id, work.id, NO_ID), NO_ID, z)
       /\ books' = Put(books, z, c)
       /\ UNCHANGED <<death, on, published, channel, venue, observed>>
  BY <1>1, <1>2, <1>8, <1>9, <1>10 DEF IncrementalEntry
<1>12. work'.at = "X" /\ work'.todo = Tail(todo) /\ work'.sym = z /\ work'.pBook = z
  BY <1>11 DEF Working
<1>13. WorkSym(work') = z
  <2>1. Tail(todo) # <<>> => Tail(todo)[1].sym = z
    BY <1>6, <1>7
  <2> QED BY <1>12, <2>1 DEF WorkSym
<1>14. RegularEntries("X", z, Tail(todo))
  BY <1>6, <1>7 DEF RegularEntries
<1>15. RegularWork(work')
  BY <1>12, <1>13, <1>14 DEF RegularWork
<1>16. UNCHANGED <<published, channel, quotes, subscribed, heard>>
  BY <1>11 DEF venue, observed
<1> QED BY <1>1, <1>2, <1>4, <1>10, <1>11, <1>12, <1>13, <1>15, <1>16, EntryStepFollows

LEMMA PublishFollows ==
  ASSUME CInv, FollowInv, Publish, on'
  PROVE  FollowInv'
<1>1. work.at # "idle" /\ work.todo = <<>>
  BY DEF Publish
<1>2. PICK z \in Symbol : z = work.sym /\ z = WorkSym(work) /\ z = work.pBook
  BY <1>1 DEF FollowInv, MessagesInv, RegularWork, WorkSym
<1>3. z # NO_SYM
  BY CollectorAssumption
<1>4. /\ published' = Put(published, z, TopOfBook(books[z]))
      /\ heard' = heard \cup {z} /\ work' = Idle
      /\ UNCHANGED <<death, on, books, channel, venue, strayed>>
  BY <1>2, <1>3 DEF Publish
<1>5. work'.at = "idle" /\ UNCHANGED <<quotes, subscribed>>
  BY <1>4 DEF Idle, Working, venue
<1>6. BooksInv' /\ MessagesInv'
  BY <1>4, <1>5 DEF FollowInv, BooksInv, MessagesInv, RegularWork
<1>7. ASSUME NEW s \in Symbol
      PROVE  Follows(books'[s], work', channel', s, Target(quotes', subscribed', s))
  <2>1. PICK q : /\ WorkLeads(work, books[s], s, q)
                 /\ ChannelLeads(q, channel, s, Target(quotes, subscribed, s))
    BY DEF FollowInv, FollowsInv, Follows
  <2>2. q = LiveOf(books[s])
    BY <1>1, <2>1, LeadsEmpty DEF WorkLeads
  <2>3. WorkLeads(work', books'[s], s, q)
    BY <1>4, <1>5, <2>2 DEF WorkLeads, About
  <2> QED BY <1>4, <1>5, <2>1, <2>3 DEF Follows
<1>8. FollowsInv'
  BY <1>7 DEF FollowsInv
<1>9. PublishedInv'
  <2>1. ASSUME NEW s \in heard'
        PROVE  s \in Symbol /\ s \in DOMAIN published' /\ published'[s] = TopOfBook(books'[s])
    <3>1. CASE s = z
      BY <1>4, <3>1 DEF Put
    <3>2. CASE s # z
      <4>1. s \in heard /\ ~About(work, s)
        BY <1>2, <1>4, <3>2 DEF About
      <4>2. s \in Symbol /\ s \in DOMAIN published /\ published[s] = TopOfBook(books[s])
        BY <4>1 DEF FollowInv, PublishedInv
      <4> QED BY <1>4, <3>2, <4>2 DEF Put
    <3> QED BY <3>1, <3>2
  <2> QED BY <2>1 DEF PublishedInv
<1> QED BY <1>6, <1>8, <1>9 DEF FollowInv

-----------------------------------------------------------------------------
(* The venue's steps *)

\* A step of the venue after which what is in flight leads to its new quotes.
LEMMA VenueFollows ==
  ASSUME FollowInv, UNCHANGED <<collector, observed>>,
         \A i \in 1 .. Len(channel') : Regular(channel'[i]),
         \A s \in Symbol : \A q :
           ChannelLeads(q, channel, s, Target(quotes, subscribed, s))
             => ChannelLeads(q, channel', s, Target(quotes', subscribed', s))
  PROVE  FollowInv'
<1>1. UNCHANGED <<books, work, published, heard>>
  BY DEF collector, observed
<1>2. BooksInv' /\ MessagesInv' /\ PublishedInv'
  BY <1>1 DEF FollowInv, BooksInv, MessagesInv, PublishedInv
<1>3. FollowsInv'
  BY <1>1 DEF FollowInv, FollowsInv, Follows
<1> QED BY <1>2, <1>3 DEF FollowInv

LEMMA RegularAppend ==
  ASSUME CInv, FollowInv, NEW m \in Message, Regular(m), channel' = Append(channel, m)
  PROVE  \A i \in 1 .. Len(channel') : Regular(channel'[i])
<1>1. channel \in Seq(Message) /\ \A i \in 1 .. Len(channel) : Regular(channel[i])
  BY DEF CInv, VenueInv, FollowInv, MessagesInv
<1>2. \A i \in 1 .. Len(channel') : (i \in 1 .. Len(channel) /\ channel'[i] = channel[i]) \/ channel'[i] = m
  BY <1>1
<1> QED BY <1>1, <1>2

\* A snapshot of the quotes a symbol has.
LEMMA SendSnapshotFollows ==
  ASSUME CInv, FollowInv, NEW z \in Symbol, quotes[z] # EmptyFcn, SendSnapshot(z),
         UNCHANGED <<collector, observed>>, UNCHANGED quotes, subscribed' = subscribed \cup {z}
  PROVE  FollowInv'
<1>1. PICK m \in SnapshotsOf(z) : channel' = Append(channel, m)
  BY DEF SendSnapshot
<1>2. m \in Message
  BY SnapshotsAreMessages
<1>3. m.kind = "W" /\ m.sym = z /\ Regular(m) /\ Leads("W", EmptyFcn, m.entries, quotes[z])
  BY SnapshotLeads
<1>4. channel \in Seq(Message)
  BY DEF CInv, VenueInv
<1>5. ASSUME NEW s \in Symbol, NEW q, ChannelLeads(q, channel, s, Target(quotes, subscribed, s))
      PROVE  ChannelLeads(q, channel', s, Target(quotes', subscribed', s))
  <2>1. MessageLeads(Target(quotes, subscribed, s), m, s, Target(quotes', subscribed', s))
    BY <1>3 DEF MessageLeads, SymOf, Target
  <2> QED BY <1>1, <1>2, <1>4, <1>5, <2>1, ChannelAppend
<1>6. \A i \in 1 .. Len(channel') : Regular(channel'[i])
  BY <1>1, <1>2, <1>3, RegularAppend
<1> QED BY <1>5, <1>6, VenueFollows

\* A change of the quotes of a symbol, told if somebody has subscribed.
LEMMA TellFollows ==
  ASSUME CInv, FollowInv, NEW z \in Symbol, NEW e \in Entry, e.sym = z, e.id \in OrderId,
         Fits("X", quotes[z], e), NEW r, r = Moved(quotes[z], e),
         quotes' = [quotes EXCEPT ![z] = r], Tell(z, e)
  PROVE  FollowInv'
<1>0. /\ channel \in Seq(Message) /\ \A i \in 1 .. Len(channel) : Regular(channel[i])
      /\ quotes = [s \in Symbol |-> quotes[s]]
  BY DEF CInv, VenueInv, FollowInv, MessagesInv
<1>1. UNCHANGED <<collector, observed>> /\ UNCHANGED subscribed
  BY DEF Tell
<1>2. /\ quotes'[z] = r
      /\ \A s \in Symbol \ {z} : Target(quotes', subscribed', s) = Target(quotes, subscribed, s)
  BY <1>0, <1>1 DEF Target
<1>3. CASE z \notin subscribed
  <2>1. UNCHANGED channel
    BY <1>3 DEF Tell
  <2>2. Target(quotes', subscribed', z) = Target(quotes, subscribed, z)
    BY <1>1, <1>3 DEF Target
  <2>3. \A s \in Symbol : Target(quotes', subscribed', s) = Target(quotes, subscribed, s)
    BY <1>2, <2>2
  <2> QED BY <1>0, <1>1, <2>1, <2>3, VenueFollows
<1>4. z \in subscribed => /\ Target(quotes, subscribed, z) = quotes[z]
                          /\ Target(quotes', subscribed', z) = r
  BY <1>1, <1>2 DEF Target
<1>5. NO_SYM \in AnySymbol /\ NO_ID \notin OrderId
  BY CollectorAssumption DEF AnySymbol
<1>6. CASE /\ z \in subscribed
           /\ channel' = Append(channel, [kind |-> "X", sym |-> NO_SYM, entries |-> <<e>>])
  <2>1. PICK m : m = [kind |-> "X", sym |-> NO_SYM, entries |-> <<e>>]
    OBVIOUS
  <2>2. /\ m \in Message /\ m.kind = "X" /\ m.sym = NO_SYM /\ m.entries = <<e>>
        /\ SymOf(m) = z
    BY <1>5, <2>1 DEF Message, SymOf
  <2>3. Regular(m)
    BY <2>2 DEF Regular, RegularEntries
  <2>4. Leads("X", quotes[z], <<e>>, r)
    <3>1. Leads("X", quotes[z], <<>>, quotes[z])
      BY LeadsEmpty
    <3>0. <<>> \in Seq(Entry)
      OBVIOUS
    <3>2. PICK es \in Seq(Entry) : es = <<>>
      BY <3>0
    <3>3. Leads("X", quotes[z], Append(es, e), Moved(quotes[z], e))
      BY <3>1, <3>2, LeadsAppend
    <3>4. Append(es, e) = <<e>>
      BY <3>2
    <3> QED BY <3>3, <3>4
  <2>5. ASSUME NEW s \in Symbol, NEW q, ChannelLeads(q, channel, s, Target(quotes, subscribed, s))
        PROVE  ChannelLeads(q, channel', s, Target(quotes', subscribed', s))
    <3>1. MessageLeads(Target(quotes, subscribed, s), m, s, Target(quotes', subscribed', s))
      BY <1>2, <1>4, <1>6, <2>2, <2>4 DEF MessageLeads
    <3> QED BY <1>0, <1>6, <2>1, <2>2, <2>5, <3>1, ChannelAppend
  <2>6. \A i \in 1 .. Len(channel') : Regular(channel'[i])
    BY <1>6, <2>1, <2>2, <2>3, RegularAppend
  <2> QED BY <1>1, <2>5, <2>6, VenueFollows
<1>7. CASE /\ z \in subscribed /\ channel # <<>>
           /\ channel[Len(channel)].kind = "X" /\ channel[Len(channel)].entries[1].sym = z
           /\ channel' = [channel EXCEPT ![Len(channel)].entries = Append(@, e)]
  <2>1. PICK n \in 1 .. Len(channel) : n = Len(channel)
    BY <1>0, <1>7
  <2>2. PICK m \in Message : m = channel[n]
    BY <1>0, <2>1
  <2>3. PICK es \in Seq(Entry) : es = m.entries
    BY DEF Message
  <2>4. PICK k : k = [m EXCEPT !.entries = Append(es, e)]
    OBVIOUS
  <2>5. channel' = [channel EXCEPT ![n] = k]
    BY <1>7, <2>1, <2>2, <2>3, <2>4
  <2>6. /\ Regular(m) /\ m.kind = "X" /\ SymOf(m) = z /\ es # <<>> /\ m.sym = NO_SYM
        /\ RegularEntries("X", z, es)
    BY <1>0, <1>7, <2>1, <2>2, <2>3 DEF Regular, SymOf
  <2>7. k.kind = "X" /\ k.sym = NO_SYM /\ k.entries = Append(es, e)
    BY <2>4, <2>6 DEF Message
  <2>8. /\ Append(es, e) # <<>> /\ Append(es, e)[1] = es[1]
        /\ \A i \in 1 .. Len(Append(es, e)) :
             (i \in 1 .. Len(es) /\ Append(es, e)[i] = es[i]) \/ Append(es, e)[i] = e
    BY <2>6
  <2>9. SymOf(k) = z
    BY <2>3, <2>6, <2>7, <2>8 DEF SymOf
  <2>10. Regular(k)
    <3>1. RegularEntries("X", z, Append(es, e))
      BY <2>6, <2>8 DEF RegularEntries
    <3> QED BY <2>7, <2>8, <2>9, <3>1 DEF Regular
  <2>11. \A i \in 1 .. Len(channel') : Regular(channel'[i])
    BY <1>0, <2>5, <2>10
  <2>12. ASSUME NEW s \in Symbol, NEW q, ChannelLeads(q, channel, s, Target(quotes, subscribed, s))
         PROVE  ChannelLeads(q, channel', s, Target(quotes', subscribed', s))
    <3>1. ASSUME NEW x, MessageLeads(x, channel[n], s, Target(quotes, subscribed, s))
          PROVE  MessageLeads(x, k, s, Target(quotes', subscribed', s))
      <4>1. CASE s = z
        <5>1. Leads("X", x, es, quotes[z])
          BY <1>4, <1>7, <2>2, <2>3, <2>6, <3>1, <4>1 DEF MessageLeads
        <5>2. Leads("X", x, Append(es, e), r)
          BY <5>1, LeadsAppend
        <5> QED BY <1>4, <1>7, <2>7, <2>9, <4>1, <5>2 DEF MessageLeads
      <4>2. CASE s # z
        BY <1>2, <2>2, <2>6, <2>9, <3>1, <4>2 DEF MessageLeads
      <4> QED BY <4>1, <4>2
    <3> QED BY <1>0, <1>7, <2>1, <2>5, <2>12, <3>1, ChannelLast
  <2> QED BY <1>1, <2>11, <2>12, VenueFollows
<1>8. CASE z \in subscribed
  <2>1. \/ channel' = Append(channel, [kind |-> "X", sym |-> NO_SYM, entries |-> <<e>>])
        \/ /\ channel # <<>>
           /\ channel[Len(channel)].kind = "X" /\ channel[Len(channel)].entries[1].sym = z
           /\ channel' = [channel EXCEPT ![Len(channel)].entries = Append(@, e)]
    BY <1>8, Zenon DEF Tell
  <2> QED BY <1>6, <1>7, <1>8, <2>1
<1> QED BY <1>3, <1>8

LEMMA VenueStepFollows ==
  ASSUME CInv, SessionInv, FollowInv, VenueNext, ~strayed'
  PROVE  FollowInv'
<1>1. ASSUME NEW s \in Symbol, Answer(s) PROVE FollowInv'
  <2>1. /\ UNCHANGED <<collector, observed>> /\ UNCHANGED quotes
        /\ subscribed' = subscribed \cup {s}
    BY <1>1 DEF Answer
  <2>2. CASE quotes[s] = EmptyFcn
    <3>1. UNCHANGED channel
      BY <1>1, <2>2 DEF Answer
    <3>2. \A x \in Symbol : Target(quotes', subscribed', x) = Target(quotes, subscribed, x)
      BY <2>1, <2>2 DEF Target
    <3>3. \A i \in 1 .. Len(channel') : Regular(channel'[i])
      BY <3>1 DEF FollowInv, MessagesInv
    <3> QED BY <2>1, <3>1, <3>2, <3>3, VenueFollows
  <2>3. CASE quotes[s] # EmptyFcn
    BY <1>1, <2>1, <2>3, SendSnapshotFollows DEF Answer
  <2> QED BY <2>2, <2>3
<1>2. ASSUME NEW s \in Symbol, Refresh(s) PROVE FollowInv'
  <2>1. /\ UNCHANGED <<collector, observed>> /\ UNCHANGED quotes
        /\ subscribed' = subscribed \cup {s}
    BY <1>2 DEF Refresh
  <2> QED BY <1>2, <2>1, SendSnapshotFollows DEF Refresh
<1>3. ASSUME NEW s \in Symbol PROVE IsQuotes(quotes[s])
  BY DEF CInv, VenueInv
<1>4. NO_ID \in AnyId /\ NO_ID \notin OrderId /\ Quoted \subseteq Symbol
  BY CollectorAssumption DEF AnyId
<1>5. ASSUME NEW s \in Quoted, NEW id \in OrderId, NEW side \in Side, NEW price \in Price,
             NEW size \in Size, QuoteNew(s, id, side, price, size)
      PROVE  FollowInv'
  <2>1. PICK e : e = Told(s, "NEW", id, NO_ID, side, price, size)
    OBVIOUS
  <2>2. /\ e.action = "NEW" /\ e.sym = s /\ e.id = id /\ e.side = side /\ e.price = price
        /\ e.size = size /\ EntryId(e) = id
    BY <1>4, <2>1 DEF Told, EntryId
  <2>3. e \in Entry
    BY <1>4, <2>1, ToldType
  <2>4. Fits("X", quotes[s], e)
    BY <1>5, <2>2 DEF Fits, QuoteNew
  <2>5. PICK r : r = Moved(quotes[s], e)
    OBVIOUS
  <2>6. r = Put(quotes[s], id, Quote(side, price, size))
    BY <2>2, <2>5 DEF Moved
  <2>7. quotes' = [quotes EXCEPT ![s] = r] /\ Tell(s, e)
    BY <1>5, <2>1, <2>6 DEF QuoteNew
  <2> QED BY <1>4, <2>2, <2>3, <2>4, <2>5, <2>7, TellFollows
<1>6. ASSUME NEW s \in Quoted, NEW id \in OrderId, NEW size \in Size, QuoteResize(s, id, size)
      PROVE  FollowInv'
  <2>0. id \in DOMAIN quotes[s]
    BY <1>6 DEF QuoteResize
  <2>1. PICK v \in QuoteSet : v = quotes[s][id]
    BY <1>3, <1>4, <2>0 DEF IsQuotes
  <2>2. PICK e : e = Told(s, "CHANGE", id, NO_ID, v.side, v.price, size)
    OBVIOUS
  <2>3. /\ e.action = "CHANGE" /\ e.sym = s /\ e.id = id /\ e.ref = NO_ID /\ e.side = v.side
        /\ e.size = size /\ EntryId(e) = id
    BY <1>4, <2>2 DEF Told, EntryId
  <2>4. e \in Entry /\ v.side \in Side
    BY <1>4, <2>2, ToldType DEF QuoteSet
  <2>5. Fits("X", quotes[s], e)
    BY <2>0, <2>3, <2>4 DEF Fits
  <2>6. PICK r : r = Moved(quotes[s], e)
    OBVIOUS
  <2>7. r = Resized(quotes[s], id, size)
    BY <2>3, <2>6 DEF Moved
  <2>8. quotes' = [quotes EXCEPT ![s] = r]
    BY <1>6, <2>7 DEF QuoteResize, Resized
  <2>9. Tell(s, e)
    BY <1>6, <2>1, <2>2 DEF QuoteResize
  <2> QED BY <1>4, <2>3, <2>4, <2>5, <2>6, <2>8, <2>9, TellFollows
<1>7. ASSUME NEW s \in Quoted, NEW ref \in OrderId, NEW id \in OrderId, NEW price \in Price,
             QuoteMove(s, ref, id, price)
      PROVE  FollowInv'
  <2>0. ref \in DOMAIN quotes[s] /\ id \notin DOMAIN quotes[s] \ {ref}
    BY <1>7 DEF QuoteMove
  <2>1. quotes[s][ref] \in QuoteSet
    BY <1>3, <1>4, <2>0 DEF IsQuotes
  <2>2. PICK v \in QuoteSet : v = [quotes[s][ref] EXCEPT !.price = price]
    BY <2>1 DEF QuoteSet
  <2>3. PICK e : e = Told(s, "CHANGE", id, ref, v.side, v.price, v.size)
    OBVIOUS
  <2>4. /\ e.action = "CHANGE" /\ e.sym = s /\ e.id = id /\ e.ref = ref /\ e.side = v.side
        /\ e.price = v.price /\ e.size = v.size /\ EntryId(e) = id
    BY <1>4, <2>3 DEF Told, EntryId
  <2>5. e \in Entry /\ v.side \in Side /\ Quote(v.side, v.price, v.size) = v
    <3>1. v.side \in Side /\ v.price \in Price /\ v.size \in Size /\ ref \in AnyId
      BY DEF QuoteSet, AnyId
    <3>2. e \in Entry
      BY <1>4, <2>3, <3>1, ToldType
    <3>3. Quote(v.side, v.price, v.size) = v
      BY DEF QuoteSet, Quote
    <3> QED BY <3>1, <3>2, <3>3
  <2>6. Fits("X", quotes[s], e)
    BY <1>4, <2>0, <2>4, <2>5 DEF Fits
  <2>7. PICK r : r = Moved(quotes[s], e)
    OBVIOUS
  <2>8. r = Put(Drop(quotes[s], ref), id, v)
    BY <1>4, <2>4, <2>5, <2>7 DEF Moved
  <2>9. quotes' = [quotes EXCEPT ![s] = r]
    BY <1>7, <2>2, <2>8 DEF QuoteMove
  <2>10. Tell(s, e)
    BY <1>7, <2>2, <2>3 DEF QuoteMove
  <2> QED BY <1>4, <2>4, <2>5, <2>6, <2>7, <2>9, <2>10, TellFollows
<1>8. ASSUME NEW s \in Quoted, NEW id \in OrderId, QuoteDelete(s, id)
      PROVE  FollowInv'
  <2>0. id \in DOMAIN quotes[s]
    BY <1>8 DEF QuoteDelete
  <2>1. PICK v \in QuoteSet : v = quotes[s][id]
    BY <1>3, <1>4, <2>0 DEF IsQuotes
  <2>2. PICK e : e = Told(s, "DELETE", id, NO_ID, v.side, v.price, v.size)
    OBVIOUS
  <2>3. /\ e.action = "DELETE" /\ e.sym = s /\ e.id = id /\ e.side = v.side /\ EntryId(e) = id
    BY <1>4, <2>2 DEF Told, EntryId
  <2>4. e \in Entry /\ v.side \in Side
    BY <1>4, <2>2, ToldType DEF QuoteSet
  <2>5. Fits("X", quotes[s], e)
    BY <2>0, <2>3, <2>4 DEF Fits
  <2>6. PICK r : r = Moved(quotes[s], e)
    OBVIOUS
  <2>7. r = Drop(quotes[s], id)
    BY <2>3, <2>6 DEF Moved
  <2>8. quotes' = [quotes EXCEPT ![s] = r]
    BY <1>8, <2>7 DEF QuoteDelete
  <2>9. Tell(s, e)
    BY <1>8, <2>1, <2>2 DEF QuoteDelete
  <2> QED BY <1>4, <2>3, <2>4, <2>5, <2>6, <2>8, <2>9, TellFollows
<1>9. ASSUME NEW m \in Stray, SendStray(m) PROVE FALSE
  BY <1>9 DEF SendStray
<1> QED BY <1>1, <1>2, <1>5, <1>6, <1>7, <1>8, <1>9 DEF VenueNext

-----------------------------------------------------------------------------
\* What the venue leaves alone.
LEMMA TellFacts ==
  ASSUME NEW s, NEW e, Tell(s, e)
  PROVE  /\ UNCHANGED <<collector, requested, subscribed, observed>>
         /\ s \notin subscribed => UNCHANGED channel
BY DEF Tell

LEMMA VenueFacts ==
  ASSUME VenueNext
  PROVE  /\ UNCHANGED collector /\ (strayed => strayed')
         /\ subscribed' \subseteq subscribed \cup requested /\ requested' \subseteq requested
         /\ ~on /\ subscribed = {} /\ requested = {} => UNCHANGED channel
<1>1. ASSUME NEW s \in Symbol, Answer(s) \/ Refresh(s)
      PROVE  /\ UNCHANGED <<collector, strayed>> /\ requested' \subseteq requested
             /\ subscribed' \subseteq subscribed \cup requested
             /\ subscribed # {} \/ requested # {}
  BY <1>1 DEF Answer, Refresh, observed
<1>2. ASSUME NEW s, NEW e, Tell(s, e)
      PROVE  /\ UNCHANGED <<collector, requested, subscribed, strayed>>
             /\ subscribed = {} => UNCHANGED channel
  BY <1>2, TellFacts DEF observed
<1>3. ASSUME NEW m \in Stray, SendStray(m)
      PROVE  /\ UNCHANGED <<collector, requested, subscribed>> /\ strayed' /\ on
  BY <1>3 DEF SendStray
<1>4. CASE \E s \in Symbol : Answer(s) \/ Refresh(s)
  BY <1>1, <1>4
<1>5. CASE \E s, e : Tell(s, e)
  BY <1>2, <1>5
<1>6. CASE \E m \in Stray : SendStray(m)
  BY <1>3, <1>6
<1>7. VenueNext => \/ \E s \in Symbol : Answer(s) \/ Refresh(s)
                   \/ \E s, e : Tell(s, e)
                   \/ \E m \in Stray : SendStray(m)
  BY DEF VenueNext, QuoteNew, QuoteResize, QuoteMove, QuoteDelete
<1> QED BY <1>4, <1>5, <1>6, <1>7

\* Nothing is in flight and nothing subscribed while there is no session.
LEMMA SessionInvStep ==
  ASSUME CInv, SessionInv, [Next]_vars
  PROVE  SessionInv'
<1>1. CASE Logon
  BY <1>1 DEF Logon, SessionInv
<1>2. CASE Logout
  BY <1>2 DEF Logout, SessionInv
<1>3. CASE \E why : Die(why)
  BY <1>3 DEF Die, SessionInv
<1>4. CASE Restart
  BY <1>4 DEF Restart, SessionInv, venue
<1>5. CASE on /\ on' /\ UNCHANGED <<requested, subscribed>>
  BY <1>5 DEF SessionInv
<1>6. ASSUME CollectorNext
      PROVE  Logon \/ Logout \/ Restart \/ (\E why : Die(why))
             \/ (UNCHANGED <<on, requested, subscribed>> /\ (on \/ work.at # "idle"))
  BY <1>6 DEF CollectorNext, BeginSnapshot, SnapshotEntry, BeginIncremental, IncrementalEntry,
     Publish, CanReceive, venue
<1>7. ~on => work.at = "idle"
  BY DEF SessionInv, Idle, Working
<1>8. CASE CollectorNext
  <2>1. on \in BOOLEAN
    BY DEF CInv, CollectorInv
  <2> QED BY <1>1, <1>2, <1>3, <1>4, <1>5, <1>6, <1>7, <1>8, <2>1
<1>9. CASE VenueNext
  <2>1. UNCHANGED <<on, work>>
    BY <1>9, VenueFacts DEF collector
  <2>2. subscribed' \subseteq subscribed \cup requested /\ requested' \subseteq requested
    BY <1>9, VenueFacts
  <2>3. ~on => UNCHANGED channel
    BY <1>9, VenueFacts DEF SessionInv
  <2> QED BY <2>1, <2>2, <2>3 DEF SessionInv
<1>10. CASE UNCHANGED vars
  BY <1>10 DEF vars, collector, venue, SessionInv
<1> QED BY <1>8, <1>9, <1>10 DEF Next

LEMMA FollowInvStep == FInv /\ [Next]_vars => FInv'
<1> SUFFICES ASSUME FInv, [Next]_vars PROVE FInv'
  OBVIOUS
<1>1. CInv' /\ SessionInv' /\ CInv /\ SessionInv
  BY CInvStep, SessionInvStep DEF FInv
<1>2. ASSUME on', ~strayed' PROVE FollowInv'
  <2>1. CASE Logon
    BY <1>1, <2>1, LogonFollows
  <2>2. CASE ~Logon
    <3>1. on /\ ~strayed
      <4>1. CASE VenueNext
        BY <1>2, <4>1, VenueFacts DEF collector
      <4>2. CASE CollectorNext
        BY <1>2, <2>2, <4>2 DEF CollectorNext, Logout, Restart, BeginSnapshot, SnapshotEntry,
           BeginIncremental, IncrementalEntry, Publish, Die, observed
      <4>3. CASE UNCHANGED vars
        BY <1>2, <4>3 DEF vars, collector, observed
      <4> QED BY <4>1, <4>2, <4>3 DEF Next
    <3>2. FollowInv
      BY <3>1 DEF FInv
    <3>3. CASE VenueNext
      BY <1>1, <1>2, <3>2, <3>3, VenueStepFollows
    <3>4. CASE Logout
      BY <1>2, <3>4 DEF Logout
    <3>5. CASE Restart
      BY <3>2, <3>5 DEF Restart, FollowInv, BooksInv, MessagesInv, FollowsInv, PublishedInv,
         venue, observed
    <3>6. CASE UNCHANGED vars
      BY <3>2, <3>6 DEF vars, collector, venue, observed, FollowInv, BooksInv, MessagesInv,
         FollowsInv, PublishedInv
    <3>7. CASE CollectorNext
      BY <1>1, <1>2, <2>2, <3>2, <3>4, <3>5, <3>7, BeginSnapshotFollows, SnapshotEntryFollows,
         BeginIncrementalFollows, IncrementalEntryFollows, PublishFollows DEF CollectorNext
    <3> QED BY <3>3, <3>6, <3>7 DEF Next
  <2> QED BY <2>1, <2>2
<1> QED BY <1>1, <1>2 DEF FInv

LEMMA FollowInvAlways == Spec => []FInv
<1>1. Init => FInv
  BY CInvInit DEF Init, FInv, SessionInv
<1> QED BY <1>1, FollowInvStep, PTL DEF Spec

\* Whatever a venue that tells its changes does, once everything has arrived
\* the book of every subscribed symbol holds the venue's quotes, each queued
\* once and at its own price: through reconnections and crashes, unasked
\* snapshots, several changes in one refresh and moves under new ids.
THEOREM BooksAreFollowed == Spec => []BooksFollowVenue
<1>1. ASSUME FInv, Quiet, ~strayed, NEW s \in subscribed
      PROVE  LiveOf(books[s]) = quotes[s] /\ Mirrors(books[s])
  <2>1. FollowInv /\ s \in Symbol
    BY <1>1 DEF FInv, Quiet, SessionInv
  <2>2. work.at = "idle" /\ channel = <<>>
    BY <1>1 DEF Quiet, Idle, Working
  <2>3. ChannelLeads(LiveOf(books[s]), <<>>, s, quotes[s])
    BY <2>1, <2>2 DEF FollowInv, FollowsInv, Follows, WorkLeads, About, Target
  <2>4. LiveOf(books[s]) = quotes[s]
    BY <2>3, ChannelEmpty
  <2>5. Mirrors(books[s])
    BY <2>1 DEF FollowInv, BooksInv, GoodBook, Exact
  <2> QED BY <2>4, <2>5
<1>2. FInv => BooksFollowVenue
  BY <1>1 DEF BooksFollowVenue
<1> QED BY <1>2, FollowInvAlways, PTL

\* The collector and the abstract venue take sums and extrema from the same
\* library.
LEMMA VenueLibrary ==
  ASSUME NEW f, NEW S
  PROVE  /\ Venue!SumFunctionOnSet(f, S) = SumFunctionOnSet(f, S)
         /\ Venue!Max(S) = Max(S) /\ Venue!Min(S) = Min(S)
<1>1. Venue!SumFunctionOnSet(f, S) = SumFunctionOnSet(f, S)
  BY DEF Venue!SumFunctionOnSet, Venue!FoldFunctionOnSet, Venue!MapThenFoldSet,
         SumFunctionOnSet, FoldFunctionOnSet, MapThenFoldSet
<1>2. Venue!Max(S) = Max(S)
  BY DEF Venue!Max, Max
<1>3. Venue!Min(S) = Min(S)
  BY DEF Venue!Min, Min
<1> QED BY <1>1, <1>2, <1>3

\* The top of a book is the one its orders make.
LEMMA TopOfOrders ==
  ASSUME NEW b, GoodBook(b)
  PROVE  TopOfBook(b) = Venue!TopOf(LiveOf(b))
<1>0. Exact(b) /\ BookSums(b)
  BY DEF GoodBook
<1>1. PICK live : live = LiveOf(b)
  OBVIOUS
<1>2. ShowsOrders(b, live)
  BY <1>1 DEF ShowsOrders, LiveOf, Quote
<1>3. ASSUME NEW s \in Side
      PROVE  /\ BestPrice(b, s) = Venue!BestOf(live, s)
             /\ BestPriceVolume(b, s) = Venue!VolumeAt(live, s, Venue!BestOf(live, s))
  <2>1. Venue!OrdersOn(live, s) = OrdersOnSide(live, s)
    BY DEF Venue!OrdersOn, OrdersOnSide
  <2>2. Venue!PricesOn(live, s) = DOMAIN b.tree[s]
    BY <1>0, <1>2, <2>1, LimitsAreOrders DEF Venue!PricesOn
  <2>3. BestPrice(b, s) = Venue!BestOf(live, s)
    BY <2>2, VenueLibrary DEF BestPrice, Venue!BestOf
  <2>4. BestPriceVolume(b, s) = Venue!VolumeAt(live, s, BestPrice(b, s))
    BY <1>0, <1>2, <2>1, BestVolumeIsSum, VenueLibrary DEF Venue!VolumeAt
  <2> QED BY <2>3, <2>4
<1> QED BY <1>1, <1>3 DEF TopOfBook, Venue!TopOf, Venue!Sides, Side

\* What was broadcast last of a symbol since the logon is the best price and
\* the volume its quotes make at the venue, once everything has arrived: no
\* change of a book goes out unpublished, or under another symbol.
THEOREM PublishedTopIsVenues == Spec => []PublishedIsTop
<1>1. ASSUME FInv, Quiet, ~strayed, NEW s \in heard \cap subscribed
      PROVE  published[s] = Venue!TopOf(quotes[s])
  <2>1. FollowInv /\ s \in Symbol
    BY <1>1 DEF FInv, Quiet, SessionInv
  <2>2. work.at = "idle" /\ channel = <<>>
    BY <1>1 DEF Quiet, Idle, Working
  <2>3. ChannelLeads(LiveOf(books[s]), <<>>, s, quotes[s])
    BY <1>1, <2>1, <2>2 DEF FollowInv, FollowsInv, Follows, WorkLeads, About, Target
  <2>4. LiveOf(books[s]) = quotes[s]
    BY <2>3, ChannelEmpty
  <2>5. published[s] = TopOfBook(books[s])
    BY <1>1, <2>1, <2>2 DEF FollowInv, PublishedInv, About
  <2>6. GoodBook(books[s])
    BY <2>1 DEF FollowInv, BooksInv
  <2> QED BY <2>4, <2>5, <2>6, TopOfOrders
<1>2. FInv => PublishedIsTop
  BY <1>1 DEF PublishedIsTop
<1> QED BY <1>2, FollowInvAlways, PTL
=============================================================================
