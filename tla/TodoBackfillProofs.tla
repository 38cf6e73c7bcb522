------------------------- MODULE TodoBackfillProofs -------------------------
(***************************************************************************)
(* The backfill of todo.sr.ht loses nothing and reads nothing twice, for   *)
(* any trackers, tickets, page sizes and events, whatever is touched       *)
(* meanwhile and wherever its passes are cut off: what is promised is      *)
(* stored or still before the cursor (Covers), and what is stored is not   *)
(* (NotBehind).  Both rest on the order of the listings, and on what the   *)
(* parts of a cursor say of each other (CursorOK).                         *)
(***************************************************************************)
EXTENDS TodoBackfill, FiniteSetTheorems, SequenceTheorems, WellFoundedInduction, TLAPS

\* The events of a ticket are in the order of their times, and all past.
HistoryOK ==
    \A k \in Tickets :
        /\ history[k] # <<>>
        /\ \A i \in DOMAIN history[k] : history[k][i] < now
        /\ \A i, j \in DOMAIN history[k] : i <= j => history[k][i] <= history[k][j]

Types == TypeOK /\ HistoryOK

\* The tickets a cursor has taken from the listing and not read to the end.
Taken(st) == st.pendingTickets \cup ({st.currentTicket} \ {None})

\* The page of tickets that comes next, of the tracker in progress.
Unlisted(st) ==
    IF st.ticketsCursor = NoPlace THEN {} ELSE TicketsAfter(st.currentTracker, st.ticketsCursor)

\* What the parts of a cursor say of each other.
Consistent(st) ==
    /\ IF st.trackersLoaded THEN st.trackersCursor = NTrackers ELSE st.currentTracker = None
    /\ st.currentTracker \notin st.trackerQueue
    /\ st.currentTracker = None => Taken(st) = {} /\ st.ticketsCursor = NoPlace
    /\ \A k \in Taken(st) : TrackerOf[k] = st.currentTracker /\ k \notin Unlisted(st)
    /\ st.currentTicket \notin st.pendingTickets
    /\ IF st.currentTicket = None THEN st.eventsCursor = None
                                  ELSE st.eventsCursor \in 2..Len(history[st.currentTicket])
    /\ st.ticketsCursor # NoPlace => st.ticketsCursor.time < now /\ st.ticketsCursor.ticket # None

\* A tracker is left as soon as no ticket of it is.
CursorOK(st) ==
    /\ Consistent(st)
    /\ st.currentTracker # None => Taken(st) # {} \/ st.ticketsCursor # NoPlace

\* The promised events, one by one.
Owed(k, i) == Settled(k) /\ i \in DOMAIN history[k] /\ InWindow(history[k][i])

\* With the events E stored, nothing that is promised is behind the cursor.
Covers(st, E) ==
    \A k \in Tickets, i \in Nat : Owed(k, i) => <<k, i>> \in E \/ Ahead(st, k, i)

\* With the events E stored, nothing that is stored is before the cursor.
NotBehind(st, E) == \A k \in Tickets, i \in Nat : <<k, i>> \in E => ~Ahead(st, k, i)

Follows(st, E) == CursorOK(st) /\ Covers(st, E) /\ NotBehind(st, E)

BackfillInv ==
    /\ Types
    /\ CursorOK(saved) /\ CursorOK(state)
    /\ status = "in_progress" => Follows(saved, stored)
    /\ running => status = "in_progress"
    /\ ~running => ~complete /\ fetched = {}
    /\ running /\ ~complete => Follows(state, stored \cup fetched)
    /\ complete => Promised \subseteq stored \cup fetched

-----------------------------------------------------------------------------
LEMMA Settings ==
    /\ {TrackerPage, TicketPage, EventPage, BatchesPerService} \subseteq Nat \ {0}
    /\ Start \in Nat /\ MaxFailures \in Nat /\ NTrackers \in Nat /\ MaxTouches \in Nat
    /\ Tickets \subseteq Nat \ {None} /\ IsFiniteSet(Tickets)
    /\ TrackerOf \in [Tickets -> Trackers]
BY WorldAssumption, PagesAssumption, PassAssumption

LEMMA HistoryFacts ==
    ASSUME Types, NEW k \in Tickets
    PROVE  /\ now \in Nat /\ since \in Nat /\ k \in Nat /\ k # None
           /\ Len(history[k]) \in Nat \ {0} /\ DOMAIN history[k] = 1..Len(history[k])
           /\ \A i \in 1..Len(history[k]) : history[k][i] \in Nat
           /\ Updated(k) \in Nat /\ Updated(k) < now
           /\ \A i \in 1..Len(history[k]) : history[k][i] <= Updated(k)
<1>1. history \in [Tickets -> Seq(0..(Start + MaxTouches))]
  BY DEF Types, TypeOK
<1>2. now \in Nat /\ since \in Nat
  BY Settings DEF Types, TypeOK, PassTypeOK
<1>3. history[k] \in Seq(0..(Start + MaxTouches)) /\ history[k] # <<>>
  BY <1>1 DEF Types, HistoryOK
<1>4. Len(history[k]) \in Nat \ {0} /\ DOMAIN history[k] = 1..Len(history[k])
  BY <1>3, EmptySeq, LenProperties
<1>5. \A i \in 1..Len(history[k]) : history[k][i] \in 0..(Start + MaxTouches)
  BY <1>3, ElementOfSeq
<1>6. \A i \in 1..Len(history[k]) : history[k][i] \in Nat
  BY <1>5, Settings
<1>7. Len(history[k]) \in 1..Len(history[k]) /\ \A i \in 1..Len(history[k]) : i <= Len(history[k])
  BY <1>4
<1>8. /\ Updated(k) \in Nat /\ Updated(k) < now
      /\ \A i \in 1..Len(history[k]) : history[k][i] <= Updated(k)
  BY <1>4, <1>6, <1>7 DEF Types, HistoryOK, Updated
<1> QED BY <1>2, <1>4, <1>6, <1>8, Settings

-----------------------------------------------------------------------------
(* The order of the listing of tickets. *)
LEMMA Order ==
    ASSUME NEW p \in Places, NEW q \in Places, NEW r \in Places
    PROVE  /\ ~Before(p, p)
           /\ Before(p, q) /\ Before(q, r) => Before(p, r)
           /\ ~Before(p, q) /\ p.ticket # q.ticket => Before(q, p)
BY DEF Places, Before

LEMMA PlaceFacts ==
    ASSUME Types, NEW k \in Tickets
    PROVE  /\ Place(k) \in Places /\ Place(k) # NoPlace
           /\ Place(k).time = Updated(k) /\ Place(k).ticket = k
BY HistoryFacts DEF Place, Places, NoPlace

\* A finite set has a first element in any order.
LEMMA FirstInOrder ==
    ASSUME NEW S, IsFiniteSet(S), S # {}, NEW R \in SUBSET (S \X S),
           \A x \in S : <<x, x>> \notin R,
           \A x, y, z \in S : <<x, y>> \in R /\ <<y, z>> \in R => <<x, z>> \in R
    PROVE  \E x \in S : \A y \in S : <<y, x>> \notin R
<1> DEFINE Earlier(x) == {y \in S : <<y, x>> \in R}
           Size(x) == Cardinality(Earlier(x))
           Sizes == {Size(x) : x \in S}
<1>1. \A x \in S : IsFiniteSet(Earlier(x)) /\ Cardinality(Earlier(x)) \in Nat
  BY FS_Subset, FS_CardinalityType
<1>2. Sizes \subseteq Nat /\ Sizes # {}
  <2> HIDE DEF Size
  <2>1. \A x \in S : Size(x) \in Nat
    BY <1>1 DEF Size
  <2> QED BY <2>1
<1>3. PICK n \in Sizes : \A m \in Sizes : ~(<<m, n>> \in OpToRel(<, Nat))
  <2> HIDE DEF Sizes
  <2> QED BY <1>2, NatLessThanWellFounded, WFMin
<1>4. PICK x \in S : n = Size(x)
  OBVIOUS
<1>5. ASSUME NEW y \in S, <<y, x>> \in R
      PROVE  FALSE
  <2>1. Earlier(y) \subseteq Earlier(x) /\ y \in Earlier(x) /\ y \notin Earlier(y)
    BY <1>5
  <2>2. Cardinality(Earlier(y)) <= n /\ Cardinality(Earlier(y)) # n
    <3> DEFINE A == Earlier(y)
               B == Earlier(x)
    <3>1. IsFiniteSet(B) /\ A \in SUBSET B /\ A # B
      BY <1>1, <2>1
    <3> HIDE DEF A, B
    <3>2. Cardinality(A) <= Cardinality(B) /\ Cardinality(A) # Cardinality(B)
      BY <3>1, FS_Subset
    <3> QED BY <1>4, <3>2 DEF A, B
  <2>3. Size(y) \in Nat /\ n \in Nat /\ Size(y) \in Sizes
    <3>1. Size(y) \in Nat
      BY <1>1
    <3> HIDE DEF Size
    <3>2. n \in Nat
      BY <1>2
    <3> QED BY <3>1, <3>2
  <2>4. Size(y) < n
    <3>1. Size(y) <= n /\ Size(y) # n
      BY <2>2
    <3> HIDE DEF Size
    <3> QED BY <2>3, <3>1
  <2> HIDE DEF Sizes, Size
  <2>5. <<Size(y), n>> \in OpToRel(<, Nat)
    BY <2>3, <2>4 DEF OpToRel
  <2> QED BY <1>3, <2>3, <2>5
<1> QED BY <1>5

\* A page holds the first tickets of what is left, and one of them is its last.
LEMMA TicketsPageFacts ==
    ASSUME Types, NEW S \in SUBSET Tickets, NEW page, page = TicketsPage(S)
    PROVE  /\ page \subseteq S
           /\ \A k \in S \ page, m \in page : Before(Place(m), Place(k))
           /\ S # {} => /\ page # {} /\ \E k \in page : LastPlace(page) = Place(k)
                        /\ \A k \in page : ~Before(LastPlace(page), Place(k))
<1> DEFINE Earlier(x) == {m \in S : Before(Place(m), Place(x))}
           R == {q \in S \X S : Before(Place(q[1]), Place(q[2]))}
<1>1. page = {k \in S : Cardinality(Earlier(k)) < TicketPage}
  BY DEF TicketsPage
<1>2. IsFiniteSet(S) /\ page \subseteq S /\ IsFiniteSet(page)
  BY <1>1, Settings, FS_Subset
<1>3. /\ \A k \in S : Place(k) \in Places /\ ~Before(Place(k), Place(k))
      /\ \A k, m, l \in S :
            Before(Place(k), Place(m)) /\ Before(Place(m), Place(l)) => Before(Place(k), Place(l))
      /\ \A k, m \in S : k # m /\ ~Before(Place(m), Place(k)) => Before(Place(k), Place(m))
  <2>1. \A k \in S : Place(k) \in Places /\ Place(k).ticket = k
    BY PlaceFacts
  <2> QED BY <2>1, Order
<1>4. \A x, y \in S : <<x, y>> \in R <=> Before(Place(x), Place(y))
  OBVIOUS
<1>5. \A k \in S : IsFiniteSet(Earlier(k)) /\ Cardinality(Earlier(k)) \in Nat
  BY <1>2, FS_Subset, FS_CardinalityType
<1>6. ASSUME NEW k \in S \ page, NEW m \in page
      PROVE  Before(Place(m), Place(k))
  <2> SUFFICES ASSUME Before(Place(k), Place(m))
               PROVE  FALSE
    BY <1>2, <1>3
  <2>1. Earlier(k) \in SUBSET Earlier(m)
    BY <1>2, <1>3
  <2>2. Cardinality(Earlier(k)) <= Cardinality(Earlier(m))
    BY <1>2, <1>5, <2>1, FS_Subset
  <2>3. ~(Cardinality(Earlier(k)) < TicketPage) /\ Cardinality(Earlier(m)) < TicketPage
    BY <1>1
  <2>4. Cardinality(Earlier(k)) \in Nat /\ Cardinality(Earlier(m)) \in Nat /\ TicketPage \in Nat
    BY <1>2, <1>5, Settings
  <2> HIDE DEF Earlier
  <2> QED BY <2>2, <2>3, <2>4
<1>7. ASSUME S # {}
      PROVE  page # {}
  <2>1. PICK x \in S : \A y \in S : <<y, x>> \notin R
    <3>1. R \in SUBSET (S \X S)
      OBVIOUS
    <3> HIDE DEF R
    <3>2. \A x \in S : <<x, x>> \notin R
      BY <1>3, <1>4
    <3>3. \A x, y, z \in S : <<x, y>> \in R /\ <<y, z>> \in R => <<x, z>> \in R
      BY <1>3, <1>4
    <3> QED BY <1>2, <1>7, <3>1, <3>2, <3>3, FirstInOrder
  <2>2. Earlier(x) = {}
    BY <1>4, <2>1
  <2>3. Cardinality(Earlier(x)) = 0
    BY <2>2, FS_EmptySet
  <2>4. x \in page
    BY <1>1, <2>3, Settings
  <2> QED BY <2>4
<1>8. ASSUME page # {}
      PROVE  \E k \in page : LastPlace(page) = Place(k) /\ \A m \in page : ~Before(Place(k), Place(m))
  <2> DEFINE Q == {q \in page \X page : Before(Place(q[2]), Place(q[1]))}
  <2>1. Q \in SUBSET (page \X page)
    OBVIOUS
  <2>2. \A x, y \in page : <<x, y>> \in Q <=> Before(Place(y), Place(x))
    OBVIOUS
  <2>3. PICK x \in page : \A y \in page : <<y, x>> \notin Q
    <3> HIDE DEF Q
    <3>1. \A x \in page : <<x, x>> \notin Q
      BY <1>2, <1>3, <2>2
    <3>2. \A x, y, z \in page : <<x, y>> \in Q /\ <<y, z>> \in Q => <<x, z>> \in Q
      BY <1>2, <1>3, <2>2
    <3> QED BY <1>2, <1>8, <2>1, <3>1, <3>2, FirstInOrder
  <2>4. Place(x) \in {Place(k) : k \in page} /\ \A k \in page : ~Before(Place(x), Place(k))
    BY <2>2, <2>3
  <2>5. /\ LastPlace(page) \in {Place(k) : k \in page}
        /\ \A k \in page : ~Before(LastPlace(page), Place(k))
    BY <2>4 DEF LastPlace
  <2> QED BY <2>5
<1> QED BY <1>2, <1>6, <1>7, <1>8

-----------------------------------------------------------------------------
(* The cursor after a batch: the trackers. *)
AfterTrackers(st) ==
    LET last == IF st.trackersCursor + TrackerPage < NTrackers
                THEN st.trackersCursor + TrackerPage ELSE NTrackers
    IN  [st EXCEPT !.trackersCursor = last, !.trackersLoaded = last = NTrackers,
                   !.trackerQueue = st.trackerQueue \cup (st.trackersCursor + 1)..last]

LEMMA TrackersNext ==
    ASSUME Types, NEW st \in State, CursorOK(st), ~st.trackersLoaded,
           NEW E, Covers(st, E), NotBehind(st, E),
           NEW next, next = AfterTrackers(st)
    PROVE  next \in State /\ Follows(next, E)
<1>1. PICK last : last = IF st.trackersCursor + TrackerPage < NTrackers
                         THEN st.trackersCursor + TrackerPage ELSE NTrackers
  OBVIOUS
<1>2. PICK queue : queue = st.trackerQueue \cup (st.trackersCursor + 1)..last
  OBVIOUS
<1>3. next = [st EXCEPT !.trackersCursor = last, !.trackersLoaded = last = NTrackers,
                        !.trackerQueue = queue]
  BY <1>1, <1>2 DEF AfterTrackers
<1>4. /\ st.trackersCursor \in 0..NTrackers /\ NTrackers \in Nat
      /\ last \in st.trackersCursor..NTrackers
      /\ \A t \in Trackers : t > st.trackersCursor <=> t \in (st.trackersCursor + 1)..last \/ t > last
      /\ (st.trackersCursor + 1)..last \subseteq Trackers
  <2>1. st.trackersCursor \in 0..NTrackers
    BY DEF State
  <2>2. last \in st.trackersCursor..NTrackers
    BY <1>1, <2>1, Settings
  <2> QED BY <2>1, <2>2, Settings DEF Trackers
<1>5. /\ next \in State
      /\ next.trackersCursor = last /\ next.trackersLoaded = (last = NTrackers)
      /\ next.trackerQueue = queue /\ next.currentTracker = st.currentTracker
      /\ next.ticketsCursor = st.ticketsCursor /\ next.pendingTickets = st.pendingTickets
      /\ next.currentTicket = st.currentTicket /\ next.eventsCursor = st.eventsCursor
  <2>1. queue \subseteq Trackers /\ last \in 0..NTrackers
    BY <1>2, <1>4 DEF State
  <2> QED BY <1>3, <2>1 DEF State
<1>6. CursorOK(next)
  <2>1. st.currentTracker = None /\ None \notin queue
    BY <1>5, Settings DEF CursorOK, Consistent, State, Trackers, None
  <2> QED BY <1>5, <2>1 DEF CursorOK, Consistent, Taken, Unlisted
<1>7. ASSUME NEW k \in Tickets, NEW i \in Nat
      PROVE  Ahead(next, k, i) <=> Ahead(st, k, i)
  <2>1. TrackerOf[k] \in Trackers
    BY Settings
  <2>2. (TrackerOf[k] > last \/ TrackerOf[k] \in queue)
            <=> (TrackerOf[k] > st.trackersCursor \/ TrackerOf[k] \in st.trackerQueue)
    BY <1>2, <1>4, <2>1
  <2> QED BY <1>5, <2>2 DEF Ahead
<1> QED BY <1>5, <1>6, <1>7 DEF Follows, Covers, NotBehind

\* Leaving a tracker loses nothing and goes back to nothing.
LEMMA LeaveFacts ==
    ASSUME Types, NEW st \in State, Consistent(st), st.trackersLoaded,
           st.currentTicket = None, NEW next, next = Leave(st)
    PROVE  /\ next \in State /\ CursorOK(next)
           /\ \A k \in Tickets, i \in Nat : Ahead(next, k, i) <=> Ahead(st, k, i)
<1>1. CASE NoTicketLeft(st)
  <2>1. NoPlace \in Places
    BY DEF NoPlace, Places, None
  <2>2. /\ next \in State
        /\ next.trackersCursor = st.trackersCursor
        /\ next.trackersLoaded = st.trackersLoaded
        /\ next.trackerQueue = st.trackerQueue /\ next.currentTracker = None
        /\ next.ticketsCursor = NoPlace /\ next.pendingTickets = st.pendingTickets
        /\ next.currentTicket = st.currentTicket /\ next.eventsCursor = st.eventsCursor
    BY <1>1, <2>1 DEF Leave, State
  <2>3. st.pendingTickets = {} /\ st.ticketsCursor = NoPlace
    BY <1>1 DEF NoTicketLeft
  <2>4. None \notin st.trackerQueue
    BY Settings DEF State, Trackers, None
  <2>5. Taken(next) = {}
    BY <2>2, <2>3 DEF Taken
  <2>6. CursorOK(next)
    BY <2>2, <2>3, <2>4, <2>5 DEF CursorOK, Consistent
  <2> QED BY <2>2, <2>3, <2>6 DEF Ahead
<1>2. CASE ~NoTicketLeft(st)
  <2>1. next = st
    BY <1>2 DEF Leave
  <2> QED BY <1>2, <2>1 DEF NoTicketLeft, CursorOK, Taken
<1> QED BY <1>1, <1>2

\* A cursor with nothing left to read has nothing before it.
LEMMA NothingAhead ==
    ASSUME Types, NEW st \in State, CursorOK(st), st.trackersLoaded,
           st.trackerQueue = {}, st.currentTracker = None
    PROVE  \A k \in Tickets, i \in Nat : ~Ahead(st, k, i)
<1>1. /\ st.trackersCursor = NTrackers /\ st.pendingTickets = {} /\ st.ticketsCursor = NoPlace
      /\ st.currentTicket = None
  BY DEF CursorOK, Consistent, Taken
<1>2. \A k \in Tickets : ~(TrackerOf[k] > NTrackers) /\ k # None
  BY Settings DEF Trackers
<1> QED BY <1>1, <1>2 DEF Ahead

-----------------------------------------------------------------------------
(* The cursor after a batch: the tickets of a tracker. *)

\* The next page starts where a page ends: no ticket is on both, none on neither.
LEMMA NextPage ==
    ASSUME Types, NEW t \in Trackers, NEW p \in Places,
           NEW rest, rest = TicketsAfter(t, p), NEW page, page = TicketsPage(rest),
           page # rest, NEW last, last = LastPlace(page)
    PROVE  /\ last \in Places /\ last # NoPlace /\ last.time < now /\ last.ticket # None
           /\ TicketsAfter(t, last) = rest \ page
<1>1. rest \in SUBSET Tickets /\ \A k \in rest : TrackerOf[k] = t
  BY DEF TicketsAfter
<1>2. /\ page \subseteq rest
      /\ \A k \in rest \ page, m \in page : Before(Place(m), Place(k))
      /\ rest # {} => /\ page # {} /\ \E k \in page : LastPlace(page) = Place(k)
                      /\ \A k \in page : ~Before(LastPlace(page), Place(k))
  BY <1>1, TicketsPageFacts
<1>3. PICK m \in page : last = Place(m) /\ \A k \in page : ~Before(last, Place(k))
  BY <1>2
<1>4. m \in rest /\ m \in Tickets
  BY <1>1, <1>2
<1>5. last \in Places /\ last # NoPlace /\ last.time < now /\ last.ticket # None
  BY <1>3, <1>4, PlaceFacts, HistoryFacts
<1>6. ASSUME NEW k \in Tickets, TrackerOf[k] = t, Before(last, Place(k))
      PROVE  k \in rest
  <2>1. p = NoPlace \/ Before(p, last)
    BY <1>3, <1>4 DEF TicketsAfter
  <2>2. p = NoPlace \/ Before(p, Place(k))
    BY <1>5, <1>6, <2>1, PlaceFacts, Order
  <2> QED BY <1>6, <2>2 DEF TicketsAfter
<1>7. TicketsAfter(t, last) = {k \in Tickets : TrackerOf[k] = t /\ Before(last, Place(k))}
  BY <1>5 DEF TicketsAfter
<1> QED BY <1>1, <1>2, <1>3, <1>5, <1>6, <1>7

Listed(st, t) ==
    LET rest == TicketsAfter(t, st.ticketsCursor)
        page == TicketsPage(rest)
        pending == {k \in page : InWindow(Updated(k))}
        more == page # rest /\ pending = page
    IN  [st EXCEPT !.trackerQueue = st.trackerQueue \ {t}, !.currentTracker = t,
                   !.pendingTickets = pending,
                   !.ticketsCursor = IF more THEN LastPlace(page) ELSE NoPlace]

LEMMA TicketsNext ==
    ASSUME Types, NEW st \in State, CursorOK(st), st.trackersLoaded,
           NEW E, Covers(st, E), NotBehind(st, E), NEW t \in Trackers,
           st.currentTracker = None => t \in st.trackerQueue,
           st.currentTracker # None => t = st.currentTracker,
           st.currentTicket = None, st.pendingTickets = {},
           NEW next, next = Listed(st, t)
    PROVE  /\ next \in State /\ Consistent(next) /\ Covers(next, E) /\ NotBehind(next, E)
           /\ next.trackersLoaded /\ next.currentTicket = None
<1>a. PICK rest : rest = TicketsAfter(t, st.ticketsCursor)
  OBVIOUS
<1>b. PICK page : page = TicketsPage(rest)
  OBVIOUS
<1>c. PICK pending : pending = {k \in page : InWindow(Updated(k))}
  OBVIOUS
<1>d. PICK more : more = (page # rest /\ pending = page)
  OBVIOUS
<1>e. PICK cursor : cursor = IF more THEN LastPlace(page) ELSE NoPlace
  OBVIOUS
<1>f. next = [st EXCEPT !.trackerQueue = st.trackerQueue \ {t}, !.currentTracker = t,
                        !.pendingTickets = pending, !.ticketsCursor = cursor]
  BY <1>a, <1>b, <1>c, <1>d, <1>e DEF Listed
<1>1. /\ rest \subseteq Tickets /\ \A k \in rest : TrackerOf[k] = t
      /\ page \subseteq rest /\ pending \subseteq page
      /\ \A k \in rest \ page, m \in page : Before(Place(m), Place(k))
  <2>1. rest \in SUBSET Tickets /\ \A k \in rest : TrackerOf[k] = t
    BY <1>a DEF TicketsAfter
  <2>2. page \subseteq rest /\ \A k \in rest \ page, m \in page : Before(Place(m), Place(k))
    BY <1>b, <2>1, TicketsPageFacts
  <2> QED BY <1>c, <2>1, <2>2
<1>2. /\ cursor \in Places
      /\ more => /\ cursor # NoPlace /\ cursor.time < now /\ cursor.ticket # None
                 /\ TicketsAfter(t, cursor) = rest \ page
      /\ ~more => cursor = NoPlace
  <2>1. CASE more
    <3>1. page # rest /\ cursor = LastPlace(page) /\ st.ticketsCursor \in Places
      BY <1>d, <1>e, <2>1 DEF State
    <3> QED BY <1>a, <1>b, <2>1, <3>1, NextPage
  <2>2. CASE ~more
    BY <1>e, <2>2 DEF NoPlace, Places, None
  <2> QED BY <2>1, <2>2
<1>3. /\ next \in State
      /\ next.trackersCursor = st.trackersCursor /\ next.trackersLoaded = st.trackersLoaded
      /\ next.trackerQueue = st.trackerQueue \ {t} /\ next.currentTracker = t
      /\ next.ticketsCursor = cursor /\ next.pendingTickets = pending
      /\ next.currentTicket = None /\ next.eventsCursor = st.eventsCursor
  <2>1. pending \subseteq Tickets /\ st.trackerQueue \ {t} \subseteq Trackers
    BY <1>1 DEF State
  <2> QED BY <1>2, <1>f, <2>1 DEF State
<1>4. Consistent(next)
  <2>1. Taken(next) = pending /\ None \notin pending /\ t # None
    BY <1>1, <1>3, Settings DEF Taken, Trackers, None
  <2>2. \A k \in pending : TrackerOf[k] = t /\ k \notin Unlisted(next)
    BY <1>1, <1>2, <1>3 DEF Unlisted
  <2>3. st.trackersCursor = NTrackers /\ st.eventsCursor = None
    BY DEF CursorOK, Consistent
  <2> QED BY <1>2, <1>3, <2>1, <2>2, <2>3 DEF Consistent
<1>5. ASSUME NEW k \in Tickets, NEW i \in Nat, TrackerOf[k] # t
      PROVE  Ahead(next, k, i) <=> Ahead(st, k, i)
  <2>1. k # None /\ TrackerOf[k] # None /\ k \notin pending
    BY <1>1, <1>5, Settings DEF Trackers, None
  <2>2. st.currentTracker \in {None, t}
    OBVIOUS
  <2> QED BY <1>3, <1>5, <2>1, <2>2 DEF Ahead
<1>6. ASSUME NEW k \in Tickets, NEW i \in Nat, TrackerOf[k] = t
      PROVE  /\ Ahead(st, k, i) <=> k \in rest
             /\ Ahead(next, k, i) <=> k \in pending \/ (more /\ k \in rest \ page)
  <2>1. k # None /\ t # None /\ ~(t > NTrackers) /\ st.trackersCursor = NTrackers
    BY Settings DEF CursorOK, Consistent, Trackers, None
  <2>2. IF st.currentTracker = None
        THEN st.ticketsCursor = NoPlace /\ t \in st.trackerQueue
        ELSE st.ticketsCursor # NoPlace /\ t \notin st.trackerQueue /\ st.currentTracker = t
    BY DEF CursorOK, Consistent, Taken
  <2>3. Ahead(st, k, i) <=> t \in st.trackerQueue \/ (st.currentTracker = t /\ k \in rest)
    BY <1>6, <1>a, <2>1, <2>2 DEF Ahead
  <2>4. Ahead(st, k, i) <=> k \in rest
    BY <1>6, <1>a, <2>1, <2>2, <2>3 DEF TicketsAfter
  <2>5. Ahead(next, k, i) <=> k \in pending \/ (more /\ k \in rest \ page)
    BY <1>2, <1>3, <1>6, <2>1 DEF Ahead
  <2> QED BY <2>4, <2>5
<1>7. ASSUME NEW k \in rest, NEW i \in Nat, Owed(k, i)
      PROVE  k \in pending \/ (more /\ k \in rest \ page)
  <2>1. InWindow(Updated(k)) /\ Updated(k) >= since
    <3>1. k \in Tickets
      BY <1>1
    <3>2. since \in Nat /\ Updated(k) \in Nat /\ history[k][i] \in Nat /\ history[k][i] <= Updated(k)
      BY <1>7, <3>1, HistoryFacts DEF Owed
    <3> QED BY <1>7, <3>2 DEF Owed, InWindow
  <2>2. ASSUME k \notin page, NEW m \in page
        PROVE  InWindow(Updated(m))
    <3>1. Before(Place(m), Place(k)) /\ m \in Tickets /\ k \in Tickets
      BY <1>1, <2>2
    <3>2. Updated(m) >= Updated(k) /\ Updated(m) \in Nat /\ Updated(k) \in Nat /\ since \in Nat
      BY <3>1, HistoryFacts, PlaceFacts DEF Before
    <3> QED BY <2>1, <3>2 DEF InWindow
  <2> QED BY <1>c, <1>d, <2>1, <2>2
<1>8. Covers(next, E)
  BY <1>5, <1>6, <1>7 DEF Covers
<1>9. NotBehind(next, E)
  BY <1>1, <1>5, <1>6 DEF NotBehind
<1> QED BY <1>3, <1>4, <1>8, <1>9

-----------------------------------------------------------------------------
(* The cursor after a batch: the events of a ticket. *)
Oldest(page) == CHOOSE i \in page : \A j \in page : i <= j

LEMMA EventsPageFacts ==
    ASSUME Types, NEW k \in Tickets, NEW c, c = None \/ c \in 2..Len(history[k]),
           NEW newest, newest = IF c = None THEN Len(history[k]) ELSE c - 1,
           NEW page, page = EventsPage(k, c),
           NEW oldest, oldest = Oldest(page)
    PROVE  newest \in 1..Len(history[k]) /\ oldest \in 1..newest /\ page = oldest..newest
<1>1. newest \in 1..Len(history[k]) /\ newest \in Nat /\ EventPage \in Nat \ {0}
  BY HistoryFacts, Settings DEF None
<1>2. page = {i \in 1..newest : i > newest - EventPage}
  BY DEF EventsPage
<1>3. \E i \in page : \A j \in page : i <= j
  <2>1. CASE newest - EventPage >= 1
    <3>1. newest - EventPage + 1 \in page
      BY <1>1, <1>2, <2>1
    <3>2. \A j \in page : newest - EventPage + 1 <= j
      BY <1>1, <1>2
    <3> QED BY <3>1, <3>2
  <2>2. CASE newest - EventPage < 1
    BY <1>1, <1>2, <2>2
  <2> QED BY <1>1, <2>1, <2>2
<1>4. oldest \in page /\ \A j \in page : oldest <= j
  BY <1>3 DEF Oldest
<1>5. oldest \in 1..newest /\ oldest > newest - EventPage
  BY <1>2, <1>4
<1>6. ASSUME NEW i
      PROVE  i \in page <=> i \in oldest..newest
  BY <1>1, <1>2, <1>4, <1>5
<1>7. page = oldest..newest
  BY <1>6
<1> QED BY <1>1, <1>5, <1>7

\* A page cuts the events of a ticket in three.
LEMMA Cut ==
    ASSUME NEW len \in Nat, NEW newest \in 1..len, NEW oldest \in 1..newest
    PROVE  /\ oldest..newest \subseteq 1..len
           /\ 1 \notin oldest..newest <=> oldest > 1
           /\ oldest > 1 => oldest \in 2..len
           /\ \A i \in 1..len :
                 /\ i > newest \/ i \in oldest..newest \/ i < oldest
                 /\ i < oldest => oldest > 1 /\ \A j \in oldest..newest : i <= j
                 /\ i \in oldest..newest => ~(i < oldest)
OBVIOUS

InPage(k, page) == {i \in page : InWindow(history[k][i])}
EventsRead(st, k) == {<<k, i>> : i \in InPage(k, EventsPage(k, st.eventsCursor))}

Read(st, k) ==
    LET page == EventsPage(k, st.eventsCursor)
        more == 1 \notin page /\ InPage(k, page) = page
    IN  [st EXCEPT !.pendingTickets = st.pendingTickets \ {k},
                   !.currentTicket = IF more THEN k ELSE None,
                   !.eventsCursor = IF more THEN Oldest(page) ELSE None]

LEMMA EventsNext ==
    ASSUME Types, NEW st \in State, CursorOK(st), st.trackersLoaded,
           NEW E, Covers(st, E), NotBehind(st, E), NEW k \in Tickets,
           st.currentTicket = None => k \in st.pendingTickets,
           st.currentTicket # None => k = st.currentTicket,
           NEW next, next = Read(st, k),
           NEW events, events = EventsRead(st, k)
    PROVE  /\ next \in State /\ Consistent(next) /\ next.trackersLoaded
           /\ Covers(next, E \cup events) /\ NotBehind(next, E \cup events)
           /\ events \subseteq AllEvents
           /\ next.currentTicket # None => CursorOK(next)
<1>a. PICK page : page = EventsPage(k, st.eventsCursor)
  OBVIOUS
<1>b. PICK read : read = InPage(k, page)
  OBVIOUS
<1>c. PICK oldest : oldest = Oldest(page)
  OBVIOUS
<1>d. PICK more : more = (1 \notin page /\ read = page)
  OBVIOUS
<1>e. PICK ticket : ticket = IF more THEN k ELSE None
  OBVIOUS
<1>f. PICK cursor : cursor = IF more THEN oldest ELSE None
  OBVIOUS
<1>g. next = [st EXCEPT !.pendingTickets = st.pendingTickets \ {k},
                        !.currentTicket = ticket, !.eventsCursor = cursor]
  BY <1>a, <1>b, <1>c, <1>d, <1>e, <1>f DEF Read
<1>h. events = {<<k, i>> : i \in read}
  BY <1>a, <1>b DEF EventsRead
<1>1. /\ k # None /\ None \notin Tickets /\ k \in Taken(st) /\ TrackerOf[k] = st.currentTracker
      /\ k \notin Unlisted(st) /\ st.currentTracker # None /\ TrackerOf[k] \in Trackers
      /\ st.trackersCursor = NTrackers /\ st.currentTracker \notin st.trackerQueue
  BY Settings DEF CursorOK, Consistent, Taken, Trackers, None
<1>2. st.eventsCursor = None \/ st.eventsCursor \in 2..Len(history[k])
  BY DEF CursorOK, Consistent
<1>3. PICK newest : newest = IF st.eventsCursor = None THEN Len(history[k]) ELSE st.eventsCursor - 1
  OBVIOUS
<1>4. /\ newest \in 1..Len(history[k]) /\ oldest \in 1..newest /\ page = oldest..newest
      /\ Len(history[k]) \in Nat
  BY <1>2, <1>3, <1>a, <1>c, EventsPageFacts, HistoryFacts
<1>5. /\ page \subseteq 1..Len(history[k]) /\ read \subseteq page
      /\ 1 \notin page <=> oldest > 1
      /\ oldest > 1 => oldest \in 2..Len(history[k])
      /\ \A i \in 1..Len(history[k]) :
            /\ i > newest \/ i \in page \/ i < oldest
            /\ i < oldest => oldest > 1 /\ \A j \in page : i <= j
            /\ i \in page => ~(i < oldest)
  BY <1>4, <1>b, Cut DEF InPage
<1>6. /\ more => ticket = k /\ cursor = oldest /\ cursor \in 2..Len(history[k]) /\ cursor \in Nat
      /\ ~more => ticket = None /\ cursor = None
  <2>1. \A i \in 2..Len(history[k]) : i \in Nat
    BY <1>4
  <2> QED BY <2>1, <1>5, <1>d, <1>e, <1>f
<1>7. /\ next \in State
      /\ next.trackersCursor = st.trackersCursor /\ next.trackersLoaded = st.trackersLoaded
      /\ next.trackerQueue = st.trackerQueue /\ next.currentTracker = st.currentTracker
      /\ next.ticketsCursor = st.ticketsCursor
      /\ next.pendingTickets = st.pendingTickets \ {k}
      /\ next.currentTicket = ticket /\ next.eventsCursor = cursor
  <2>1. ticket \in Tickets \cup {None} /\ cursor \in Nat
    BY <1>6 DEF None
  <2>2. st.pendingTickets \ {k} \subseteq Tickets
    BY DEF State
  <2> QED BY <1>g, <2>1, <2>2 DEF State
<1>8. Consistent(next)
  <2>1. Taken(next) \subseteq Taken(st) /\ Unlisted(next) = Unlisted(st)
    BY <1>1, <1>6, <1>7 DEF Taken, Unlisted
  <2>2. ticket \notin st.pendingTickets \ {k}
    BY <1>1, <1>6 DEF State
  <2> QED BY <1>1, <1>6, <1>7, <2>1, <2>2 DEF CursorOK, Consistent
<1>9. events \subseteq AllEvents
  BY <1>4, <1>5, <1>h DEF AllEvents
<1>10. next.currentTicket # None => CursorOK(next)
  BY <1>6, <1>7, <1>8 DEF CursorOK, Taken
<1>11. ASSUME NEW m \in Tickets, NEW i \in Nat, m # k
       PROVE  Ahead(next, m, i) <=> Ahead(st, m, i)
  <2>1. m # st.currentTicket /\ m # ticket
    BY <1>1, <1>6, <1>11
  <2> QED BY <1>7, <1>11, <2>1 DEF Ahead
<1>12. ASSUME NEW i \in Nat
       PROVE  /\ Ahead(st, k, i) => k \in st.pendingTickets \/ (k = st.currentTicket /\ i < st.eventsCursor)
              /\ Ahead(next, k, i) <=> more /\ i < oldest
  <2>1. ~(TrackerOf[k] > NTrackers) /\ TrackerOf[k] \notin st.trackerQueue
    BY <1>1, Settings DEF Trackers
  <2>2. ~(st.ticketsCursor # NoPlace /\ k \in TicketsAfter(TrackerOf[k], st.ticketsCursor))
    BY <1>1 DEF Unlisted
  <2> QED BY <1>1, <1>6, <1>7, <2>1, <2>2 DEF Ahead
<1>13. ASSUME NEW i \in Nat, Owed(k, i), Ahead(st, k, i)
       PROVE  i \in read \/ Ahead(next, k, i)
  <2>1. i \in 1..Len(history[k]) /\ InWindow(history[k][i])
    BY <1>13, HistoryFacts DEF Owed
  <2>2. ~(i > newest)
    <3>1. \/ st.eventsCursor = None /\ newest = Len(history[k])
          \/ i < st.eventsCursor /\ newest = st.eventsCursor - 1 /\ st.eventsCursor \in Nat
      BY <1>2, <1>3, <1>12, <1>13 DEF CursorOK, Consistent
    <3> QED BY <1>4, <2>1, <3>1
  <2>3. CASE i \in page
    BY <1>b, <2>1, <2>3 DEF InPage
  <2>4. CASE i < oldest
    <3>1. ASSUME NEW j \in page
          PROVE  InWindow(history[k][j])
      <4>1. i <= j /\ j \in 1..Len(history[k])
        BY <1>5, <2>1, <2>4
      <4>2. history[k][i] <= history[k][j]
        BY <2>1, <4>1, HistoryFacts DEF Types, HistoryOK
      <4>3. history[k][i] \in Nat /\ history[k][j] \in Nat /\ since \in Nat
        BY <2>1, <4>1, HistoryFacts
      <4> QED BY <2>1, <4>2, <4>3 DEF InWindow
    <3>2. more
      BY <1>5, <1>b, <1>d, <2>1, <2>4, <3>1 DEF InPage
    <3> QED BY <1>12, <2>4, <3>2
  <2> QED BY <1>5, <2>1, <2>2, <2>3, <2>4
<1>14. ASSUME NEW i \in Nat, <<k, i>> \in E \cup events
       PROVE  ~Ahead(next, k, i)
  <2>1. CASE <<k, i>> \in events
    BY <1>5, <1>12, <1>h, <2>1
  <2>2. CASE <<k, i>> \in E
    <3>1. ~Ahead(st, k, i)
      BY <2>2 DEF NotBehind
    <3>2. k \notin st.pendingTickets /\ k = st.currentTicket /\ ~(i < st.eventsCursor)
      BY <1>1, <3>1 DEF Ahead, Taken, CursorOK, Consistent
    <3>3. st.eventsCursor \in Nat /\ newest = st.eventsCursor - 1
      BY <1>1, <1>3, <3>2 DEF CursorOK, Consistent, None
    <3>4. ~(i < oldest)
      BY <1>4, <3>2, <3>3
    <3> QED BY <1>12, <3>4
  <2> QED BY <1>14, <2>1, <2>2
<1>15. Covers(next, E \cup events)
  BY <1>11, <1>13, <1>h DEF Covers
<1>16. NotBehind(next, E \cup events)
  <2>1. \A m \in Tickets, i \in Nat : <<m, i>> \in events => m = k
    BY <1>h
  <2> QED BY <1>11, <1>14, <2>1 DEF NotBehind
<1> QED BY <1>7, <1>8, <1>9, <1>10, <1>15, <1>16

-----------------------------------------------------------------------------
(* What moves while a pass is under way, and between passes. *)
LEMMA PromisedOwed ==
    ASSUME NEW E
    PROVE  Promised \subseteq E <=> \A k \in Tickets : \A i : Owed(k, i) => <<k, i>> \in E
BY DEF Promised, Owed

\* The cursor st, with E stored, is as good after a step as before it.
Stays(st, E) ==
    /\ CursorOK(st)'
    /\ Covers(st, E) => Covers(st, E)'
    /\ NotBehind(st, E) => NotBehind(st, E)'

LEMMA SinceMoves ==
    ASSUME Types, Types', UNCHANGED service, since' >= since
    PROVE  /\ \A E : \A st \in State : CursorOK(st) => Stays(st, E)
           /\ Promised' \subseteq Promised
<1>1. \A t, p : TicketsAfter(t, p)' = TicketsAfter(t, p)
  BY DEF service, TicketsAfter, Place, Updated
<1>2. \A st \in State : CursorOK(st) => CursorOK(st)'
  BY <1>1 DEF service, CursorOK, Consistent, Unlisted
<1>3. \A st : \A k \in Tickets, i \in Nat : Ahead(st, k, i)' <=> Ahead(st, k, i)
  BY <1>1 DEF Ahead
<1>4. ASSUME NEW k \in Tickets, NEW i, Owed(k, i)'
      PROVE  Owed(k, i)
  <2>1. /\ since \in Nat /\ since' \in Nat /\ i \in 1..Len(history[k]) /\ history[k][i] \in Nat
        /\ Settled(k)
    <3>1. history' = history /\ i \in DOMAIN history[k] /\ Settled(k)
      BY <1>4 DEF service, Owed, Settled, Updated
    <3>2. since' \in Nat
      BY Settings DEF Types, TypeOK, PassTypeOK
    <3> QED BY <3>1, <3>2, HistoryFacts
  <2>2. history[k][i] >= since'
    BY <1>4 DEF service, Owed, InWindow
  <2> QED BY <2>1, <2>2, HistoryFacts DEF Owed, InWindow
<1>5. \A E : \A st \in State :
         (Covers(st, E) => Covers(st, E)') /\ (NotBehind(st, E) => NotBehind(st, E)')
  BY <1>3, <1>4 DEF Covers, NotBehind
<1>6. Promised' \subseteq Promised
  BY <1>4 DEF Promised, Owed
<1> QED BY <1>2, <1>5, <1>6 DEF Stays

\* A ticket that is touched moves before every page that is still to come.
LEMMA TouchMoves ==
    ASSUME Types, Types', Touch
    PROVE  /\ \A E : \A st \in State : CursorOK(st) => Stays(st, E)
           /\ Promised' \subseteq Promised
<1>1. PICK d \in Tickets : history' = [history EXCEPT ![d] = Append(@, now)]
  BY DEF Touch
<1>2. /\ now' = now + 1 /\ now \in Nat /\ Start \in Nat /\ now >= Start /\ since' = since
      /\ history \in [Tickets -> Seq(0..(Start + MaxTouches))]
  BY Settings DEF Touch, passVars, Types, TypeOK
<1>3. \A k \in Tickets : k # d => history'[k] = history[k]
  BY <1>1, <1>2
<1>4. Len(history'[d]) = Len(history[d]) + 1 /\ history'[d][Len(history'[d])] = now
  <2>1. now \in 0..(Start + MaxTouches)
    BY Settings DEF Touch, Types, TypeOK
  <2>2. history'[d] = Append(history[d], now)
    BY <1>1, <1>2
  <2> QED BY <1>2, <2>1, <2>2, AppendProperties
<1>5. \A k \in Tickets : /\ Place(k)' = IF k = d THEN [time |-> now, ticket |-> d] ELSE Place(k)
                         /\ Settled(k)' <=> k # d /\ Settled(k)
  BY <1>2, <1>3, <1>4 DEF Place, Updated, Settled
<1>6. ASSUME NEW t, NEW p \in Places, p # NoPlace, p.time < now
      PROVE  TicketsAfter(t, p)' = TicketsAfter(t, p) \ {d}
  <2>1. ~Before(p, [time |-> now, ticket |-> d])
    BY <1>2, <1>6 DEF Before, Places
  <2>2. ~Before(p, Place(d)')
    BY <1>5, <2>1
  <2>3. \A k \in Tickets : k # d => Place(k)' = Place(k)
    BY <1>5
  <2>4. TicketsAfter(t, p) = {k \in Tickets : TrackerOf[k] = t /\ Before(p, Place(k))}
    BY <1>6 DEF TicketsAfter
  <2>5. TicketsAfter(t, p)' = {k \in Tickets : TrackerOf[k] = t /\ Before(p, Place(k)')}
    BY <1>6 DEF TicketsAfter, Before
  <2> QED BY <2>2, <2>3, <2>4, <2>5
<1>7. ASSUME NEW st \in State, CursorOK(st)
      PROVE  /\ CursorOK(st)'
             /\ \A k \in Tickets, i \in Nat : k # d => (Ahead(st, k, i)' <=> Ahead(st, k, i))
             /\ \A i \in Nat : Ahead(st, d, i)' => Ahead(st, d, i)
  <2>1. /\ st.ticketsCursor \in Places /\ st.currentTicket \in Tickets \cup {None}
        /\ st.ticketsCursor # NoPlace => st.ticketsCursor.time < now /\ st.ticketsCursor.ticket # None
    BY <1>7 DEF State, CursorOK, Consistent
  <2>2. \A t : st.ticketsCursor # NoPlace =>
           TicketsAfter(t, st.ticketsCursor)' = TicketsAfter(t, st.ticketsCursor) \ {d}
    BY <1>6, <2>1
  <2>3. Unlisted(st)' \subseteq Unlisted(st)
    BY <2>2 DEF Unlisted
  <2>4. \A k \in Tickets : \A i \in 2..Len(history[k]) : i \in 2..Len(history'[k])
    <3> SUFFICES ASSUME NEW k \in Tickets
                 PROVE  Len(history[k]) \in Nat /\ Len(history'[k]) \in {Len(history[k]), Len(history[k]) + 1}
      OBVIOUS
    <3> QED BY <1>3, <1>4, HistoryFacts
  <2>5. st.ticketsCursor # NoPlace => st.ticketsCursor.time < now'
    BY <1>2, <2>1 DEF Places
  <2>6. Consistent(st)'
    BY <1>7, <2>1, <2>3, <2>4, <2>5 DEF CursorOK, Consistent
  <2>7. CursorOK(st)'
    BY <1>7, <2>6 DEF CursorOK
  <2> QED BY <2>2, <2>7 DEF Ahead
<1>8. ASSUME NEW k \in Tickets, NEW i, Owed(k, i)'
      PROVE  k # d /\ Owed(k, i)
  <2>1. k # d /\ Settled(k)
    BY <1>5, <1>8 DEF Owed
  <2> QED BY <1>2, <1>3, <1>8, <2>1 DEF Owed, InWindow
<1>9. \A E : \A st \in State : CursorOK(st) =>
         (Covers(st, E) => Covers(st, E)') /\ (NotBehind(st, E) => NotBehind(st, E)')
  BY <1>7, <1>8 DEF Covers, NotBehind
<1>10. Promised' \subseteq Promised
  BY <1>8 DEF Promised, Owed
<1> QED BY <1>7, <1>9, <1>10 DEF Stays

LEMMA TypesStay ==
    ASSUME Types, TypeOK', UNCHANGED service
    PROVE  Types'
BY DEF Types, HistoryOK, service

LEMMA NewStateOK ==
    ASSUME Types
    PROVE  NewState \in State /\ CursorOK(NewState)
<1>1. NewState \in State
  BY Settings DEF NewState, State, None, NoPlace, Places
<1>2. CursorOK(NewState)
  BY DEF NewState, CursorOK, Consistent, Taken
<1> QED BY <1>1, <1>2

-----------------------------------------------------------------------------
(* The steps of a pass. *)
LEMMA ReportStep ==
    ASSUME BackfillInv, UNCHANGED service, NEW next \in State, NEW events \in SUBSET AllEvents,
           NEW done \in BOOLEAN, Follows(next, stored \cup fetched \cup events),
           done => \A k \in Tickets, i \in Nat : ~Ahead(next, k, i),
           Report(events, next, done)
    PROVE  BackfillInv'
<1>1. /\ MayFetch /\ fetched' = fetched \cup events /\ complete' = done
      /\ state' \in {next, NewState} /\ (~done => state' = next) /\ tries' = tries - 1
      /\ since' = since /\ saved' = saved /\ stored' = stored /\ status' = status
      /\ running' = running /\ failures' = failures
  BY DEF Report, Return, committed
<1>2. NewState \in State /\ CursorOK(NewState)
  BY NewStateOK DEF BackfillInv
<1>3. Types'
  <2>1. tries - 1 \in 0..BatchesPerService
    BY <1>1, Settings DEF BackfillInv, Types, TypeOK, PassTypeOK, MayFetch
  <2>2. TypeOK'
    BY <1>1, <1>2, <2>1 DEF BackfillInv, Types, TypeOK, PassTypeOK, service
  <2> QED BY <2>2, TypesStay DEF BackfillInv
<1>4. saved \in State /\ since \in Nat
  BY Settings DEF BackfillInv, Types, TypeOK, PassTypeOK
<1>5. PICK E : E = stored
  OBVIOUS
<1>6. PICK F : F = stored \cup fetched \cup events
  OBVIOUS
<1>7. PICK st \in State : st = saved
  BY <1>4
<1>8. \A G : \A q \in State : CursorOK(q) => Stays(q, G)
  BY <1>1, <1>3, <1>4, SinceMoves DEF BackfillInv
<1>9. /\ CursorOK(st) /\ (status = "in_progress" => Follows(st, E))
      /\ Follows(next, F)
  BY <1>5, <1>6, <1>7 DEF BackfillInv
<1>10. /\ CursorOK(st)' /\ CursorOK(next)' /\ CursorOK(NewState)'
       /\ status = "in_progress" => Follows(st, E)'
       /\ Follows(next, F)'
  <2>1. Stays(st, E) /\ Stays(next, F) /\ Stays(NewState, F)
    BY <1>2, <1>8, <1>9 DEF Follows
  <2> QED BY <1>9, <2>1 DEF Stays, Follows
<1>11. /\ CursorOK(saved)' /\ CursorOK(state)'
       /\ status' = "in_progress" => Follows(saved, stored)'
  BY <1>1, <1>5, <1>7, <1>10 DEF CursorOK, Consistent, Follows, Covers, NotBehind
<1>12. ~complete' => Follows(state, stored \cup fetched)'
  <2>1. stored' \cup fetched' = F
    BY <1>1, <1>6
  <2> QED BY <1>1, <1>10, <2>1 DEF Follows, CursorOK, Consistent, Covers, NotBehind
<1>13. complete' => Promised' \subseteq stored' \cup fetched'
  <2> SUFFICES ASSUME done PROVE Promised' \subseteq stored' \cup fetched'
    BY <1>1
  <2>1. \A k \in Tickets, i \in Nat : Owed(k, i) => <<k, i>> \in F
    BY <1>9 DEF Follows, Covers
  <2>2. \A k \in Tickets : \A i : Owed(k, i) => i \in Nat
    BY HistoryFacts DEF Owed, BackfillInv
  <2>3. Promised \subseteq F
    BY <2>1, <2>2, PromisedOwed
  <2>4. Promised' \subseteq Promised
    BY <1>1, <1>3, <1>4, SinceMoves DEF BackfillInv
  <2> QED BY <1>1, <1>6, <2>3, <2>4
<1> QED BY <1>1, <1>3, <1>11, <1>12, <1>13 DEF BackfillInv, MayFetch

LEMMA PassTypes ==
    ASSUME BackfillInv, UNCHANGED service, Begin \/ Commit \/ Fail
    PROVE  Types' /\ since' >= since /\ since \in Nat
<1> USE DEF BackfillInv, Types, TypeOK, PassTypeOK, committed, Rest, service
<1>1. since \in Nat /\ 0 \in 0..BatchesPerService /\ BatchesPerService \in 0..BatchesPerService
  BY Settings
<1>2. CASE Begin
  <2>1. since' \in 0..Start /\ since' >= since
    BY <1>1, <1>2, Settings DEF Begin
  <2>2. TypeOK'
    BY <1>1, <1>2, <2>1 DEF Begin
  <2> QED BY <1>1, <2>1, <2>2, TypesStay
<1>3. CASE Commit
  <2>1. TypeOK' /\ since' = since
    BY <1>1, <1>3 DEF Commit
  <2> QED BY <1>1, <2>1, TypesStay
<1>4. CASE Fail
  <2>1. failures' \in 0..MaxFailures
    BY <1>4, Settings DEF Fail
  <2>2. TypeOK' /\ since' = since
    BY <1>1, <1>4, <2>1 DEF Fail
  <2> QED BY <1>1, <2>2, TypesStay
<1> QED BY <1>2, <1>3, <1>4

\* The steps that begin or end a pass: what they leave is a committed cursor.
LEMMA RestStep ==
    ASSUME BackfillInv, UNCHANGED service, Begin \/ Commit \/ Fail
    PROVE  BackfillInv'
<1>1. /\ Types' /\ since' >= since /\ since \in Nat
      /\ saved \in State /\ state \in State
  BY PassTypes DEF BackfillInv, Types, TypeOK, PassTypeOK
<1>2. PICK st \in State : st = saved
  BY <1>1
<1>3. PICK ru \in State : ru = state
  BY <1>1
<1>4. PICK E : E = stored
  OBVIOUS
<1>5. PICK F : F = stored \cup fetched
  OBVIOUS
<1>6. \A G : \A q \in State : CursorOK(q) => Stays(q, G)
  BY <1>1, SinceMoves DEF BackfillInv
<1>7. /\ CursorOK(st) /\ CursorOK(ru) /\ (status = "in_progress" => Follows(st, E))
      /\ running /\ ~complete => Follows(ru, F)
  BY <1>2, <1>3, <1>4, <1>5 DEF BackfillInv
<1>8. /\ CursorOK(st)' /\ CursorOK(ru)' /\ (status = "in_progress" => Follows(st, E)')
      /\ running /\ ~complete => Follows(ru, F)'
  <2>1. Stays(st, E) /\ Stays(ru, F)
    BY <1>6, <1>7
  <2> QED BY <1>7, <2>1 DEF Stays, Follows
<1>9. CASE Begin \/ Fail
  <2>1. /\ saved' = st /\ state' = st /\ stored' = E /\ status' = status /\ ~complete'
        /\ fetched' = {} /\ (running' => status = "in_progress")
    BY <1>2, <1>4, <1>9 DEF Begin, Fail, Rest, committed, BackfillInv
  <2>2. stored' \cup fetched' = E
    BY <2>1
  <2>3. CursorOK(saved)' /\ CursorOK(state)'
    BY <1>8, <2>1 DEF CursorOK, Consistent
  <2>4. status' = "in_progress" => Follows(saved, stored)' /\ Follows(state, stored \cup fetched)'
    BY <1>8, <2>1, <2>2, <2>3 DEF Follows, Covers, NotBehind
  <2> QED BY <1>1, <2>1, <2>3, <2>4 DEF BackfillInv
<1>10. CASE Commit
  <2>1. /\ saved' = ru /\ state' = ru /\ stored' = F /\ ~running' /\ ~complete' /\ fetched' = {}
        /\ running /\ (status' = "in_progress" => ~complete)
    BY <1>3, <1>5, <1>10 DEF Commit, Rest
  <2>2. CursorOK(saved)' /\ CursorOK(state)'
    BY <1>8, <2>1 DEF CursorOK, Consistent
  <2>3. status' = "in_progress" => Follows(saved, stored)'
    BY <1>8, <2>1, <2>2 DEF Follows, Covers, NotBehind
  <2> QED BY <1>1, <2>1, <2>2, <2>3 DEF BackfillInv
<1> QED BY <1>9, <1>10

LEMMA BatchStep ==
    ASSUME BackfillInv, Batch
    PROVE  BackfillInv'
<1>1. /\ Types /\ state \in State /\ UNCHANGED service
      /\ stored \cup fetched \in SUBSET AllEvents
      /\ MayFetch => Follows(state, stored \cup fetched)
  BY DEF BackfillInv, Types, TypeOK, PassTypeOK, MayFetch, Batch
<1>2. PICK st \in State : st = state
  BY <1>1
<1>3. PICK E : E = stored \cup fetched
  OBVIOUS
<1>4. CursorOK(st) /\ MayFetch /\ Covers(st, E) /\ NotBehind(st, E)
  BY <1>1, <1>2, <1>3
     DEF Batch, ListTrackers, NoTrackerLeft, ListTickets, FetchEvents, Report, Return, Follows
<1>5. CASE ListTrackers
  <2>1. PICK next : next = AfterTrackers(st)
    OBVIOUS
  <2>2. PICK done \in BOOLEAN : done = (next.trackersLoaded /\ next.trackerQueue = {})
    OBVIOUS
  <2>3. next \in State /\ Follows(next, E)
    BY <1>1, <1>2, <1>4, <1>5, <2>1, TrackersNext DEF ListTrackers
  <2>4. Report({}, next, done) /\ next.currentTracker = None
    <3>1. /\ next.trackersLoaded = ((IF st.trackersCursor + TrackerPage < NTrackers
                                     THEN st.trackersCursor + TrackerPage ELSE NTrackers) = NTrackers)
          /\ next.trackerQueue = st.trackerQueue \cup (st.trackersCursor + 1)..(
                  IF st.trackersCursor + TrackerPage < NTrackers
                  THEN st.trackersCursor + TrackerPage ELSE NTrackers)
          /\ next.currentTracker = st.currentTracker
      BY <2>1 DEF AfterTrackers, State
    <3>2. Report({}, next, done)
      BY <1>2, <1>5, <2>1, <2>2, <3>1 DEF ListTrackers, AfterTrackers
    <3> QED BY <1>2, <1>4, <1>5, <3>1, <3>2 DEF ListTrackers, CursorOK, Consistent
  <2>5. done => \A k \in Tickets, i \in Nat : ~Ahead(next, k, i)
    BY <1>1, <2>2, <2>3, <2>4, NothingAhead DEF Follows
  <2>6. Follows(next, stored \cup fetched \cup {})
    BY <1>3, <2>3
  <2> QED BY <1>1, <2>3, <2>4, <2>5, <2>6, ReportStep
<1>6. CASE NoTrackerLeft
  <2>1. /\ st.trackersLoaded /\ st.trackerQueue = {} /\ st.currentTracker = None
        /\ Report({}, st, TRUE)
    BY <1>2, <1>6 DEF NoTrackerLeft
  <2>2. \A k \in Tickets, i \in Nat : ~Ahead(st, k, i)
    BY <1>1, <1>4, <2>1, NothingAhead
  <2>3. Follows(st, stored \cup fetched \cup {})
    BY <1>3, <1>4 DEF Follows
  <2> QED BY <1>1, <2>1, <2>2, <2>3, ReportStep
<1>7. ASSUME NEW t \in Trackers, ListTickets(t)
      PROVE  BackfillInv'
  <2>1. PICK step : step = Listed(st, t)
    OBVIOUS
  <2>2. PICK next : next = Leave(step)
    OBVIOUS
  <2>3. /\ st.trackersLoaded /\ Report({}, next, FALSE)
        /\ st.currentTracker = None => t \in st.trackerQueue
        /\ st.currentTracker # None => t = st.currentTracker
        /\ st.currentTicket = None /\ st.pendingTickets = {}
    BY <1>2, <1>7, <2>1, <2>2 DEF ListTickets, Listed
  <2>4. /\ step \in State /\ Consistent(step) /\ Covers(step, E) /\ NotBehind(step, E)
        /\ step.trackersLoaded /\ step.currentTicket = None
    BY <1>1, <1>4, <2>1, <2>3, TicketsNext
  <2>5. /\ next \in State /\ CursorOK(next)
        /\ \A k \in Tickets, i \in Nat : Ahead(next, k, i) <=> Ahead(step, k, i)
    BY <1>1, <2>2, <2>4, LeaveFacts
  <2>6. Follows(next, stored \cup fetched \cup {})
    BY <1>3, <2>4, <2>5 DEF Follows, Covers, NotBehind
  <2> QED BY <1>1, <2>3, <2>5, <2>6, ReportStep
<1>8. ASSUME NEW k \in Tickets, FetchEvents(k)
      PROVE  BackfillInv'
  <2>1. PICK step : step = Read(st, k)
    OBVIOUS
  <2>2. PICK events : events = EventsRead(st, k)
    OBVIOUS
  <2>3. PICK more : more = (/\ 1 \notin EventsPage(k, st.eventsCursor)
                            /\ InPage(k, EventsPage(k, st.eventsCursor)) = EventsPage(k, st.eventsCursor))
    OBVIOUS
  <2>4. PICK next : next = IF more THEN step ELSE Leave(step)
    OBVIOUS
  <2>5. PICK done \in BOOLEAN : done = (~more /\ NoTicketLeft(step) /\ step.trackerQueue = {})
    OBVIOUS
  <2>6. /\ st.trackersLoaded /\ Report(events, next, done)
        /\ st.currentTicket = None => k \in st.pendingTickets
        /\ st.currentTicket # None => k = st.currentTicket
    BY <1>2, <1>8, <2>1, <2>2, <2>3, <2>4, <2>5
       DEF FetchEvents, Read, EventsRead, InPage, Oldest
  <2>7. /\ step \in State /\ Consistent(step) /\ step.trackersLoaded
        /\ Covers(step, E \cup events) /\ NotBehind(step, E \cup events)
        /\ events \in SUBSET AllEvents
        /\ step.currentTicket # None => CursorOK(step)
    BY <1>1, <1>4, <2>1, <2>2, <2>6, EventsNext
  <2>8. step.currentTicket = (IF more THEN k ELSE None) /\ k # None
    BY <2>1, <2>3, Settings DEF Read, State
  <2>9. /\ next \in State /\ CursorOK(next)
        /\ \A m \in Tickets, i \in Nat : Ahead(next, m, i) <=> Ahead(step, m, i)
    BY <1>1, <2>4, <2>7, <2>8, LeaveFacts
  <2>10. Follows(next, stored \cup fetched \cup events)
    BY <1>3, <2>7, <2>9 DEF Follows, Covers, NotBehind
  <2>11. done => \A m \in Tickets, i \in Nat : ~Ahead(next, m, i)
    <3> SUFFICES ASSUME done PROVE \A m \in Tickets, i \in Nat : ~Ahead(next, m, i)
      OBVIOUS
    <3>1. ~more /\ NoTicketLeft(step) /\ step.trackerQueue = {}
      BY <2>5
    <3>2. next.trackersLoaded /\ next.trackerQueue = {} /\ next.currentTracker = None
      BY <2>4, <2>7, <3>1 DEF Leave, State
    <3> QED BY <1>1, <2>9, <3>2, NothingAhead
  <2> QED BY <1>1, <2>6, <2>7, <2>9, <2>10, <2>11, ReportStep
<1> QED BY <1>5, <1>6, <1>7, <1>8 DEF Batch

LEMMA BackfillInit == Init => BackfillInv
<1> SUFFICES ASSUME Init PROVE BackfillInv
  OBVIOUS
<1>1. \A k \in Tickets :
         /\ World[k] \in Seq(0..(Start - 1)) /\ World[k] # <<>>
         /\ \A i, j \in DOMAIN World[k] : i <= j => World[k][i] <= World[k][j]
  BY WorldAssumption
<1>2. \A k \in Tickets :
         /\ \A i \in DOMAIN World[k] : World[k][i] < Start
         /\ World[k] \in Seq(0..(Start + MaxTouches))
  <2> SUFFICES ASSUME NEW k \in Tickets
               PROVE  /\ \A i \in DOMAIN World[k] : World[k][i] < Start
                      /\ World[k] \in Seq(0..(Start + MaxTouches))
    OBVIOUS
  <2>1. DOMAIN World[k] = 1..Len(World[k]) /\ Len(World[k]) \in Nat
    BY <1>1, LenProperties
  <2>2. \A i \in 1..Len(World[k]) : World[k][i] \in 0..(Start - 1)
    BY <1>1, ElementOfSeq
  <2>3. \A i \in 1..Len(World[k]) : World[k][i] < Start
    BY <2>2, Settings
  <2>4. 0..(Start - 1) \subseteq 0..(Start + MaxTouches)
    BY Settings
  <2>5. World[k] \in Seq(0..(Start + MaxTouches))
    BY <1>1, <2>4, SeqMonotonic
  <2> QED BY <2>1, <2>3, <2>5
<1>3. Types
  <2>1. NewState \in State
    BY Settings DEF NewState, State, None, NoPlace, Places
  <2>2. 0 \in 0..BatchesPerService /\ 0 \in 0..MaxFailures /\ Start \in Start..(Start + MaxTouches)
    BY Settings
  <2>3. World \in [Tickets -> Seq(0..(Start + MaxTouches))]
    BY <1>2, WorldAssumption
  <2>4. TypeOK
    BY <2>1, <2>2, <2>3 DEF Init, PassInit, TypeOK, PassTypeOK
  <2>5. HistoryOK
    BY <1>1, <1>2 DEF Init, HistoryOK
  <2> QED BY <2>4, <2>5 DEF Types
<1>4. Follows(NewState, {})
  <2>1. CursorOK(NewState)
    BY <1>3, NewStateOK
  <2>2. \A k \in Tickets, i \in Nat : Ahead(NewState, k, i)
    BY Settings DEF Ahead, NewState, Trackers
  <2> QED BY <2>1, <2>2 DEF Follows, Covers, NotBehind
<1>5. /\ saved = NewState /\ state = NewState /\ stored = {} /\ fetched = {}
      /\ ~running /\ ~complete /\ status = "in_progress"
  BY DEF Init, PassInit
<1> QED BY <1>3, <1>4, <1>5 DEF BackfillInv, Follows

LEMMA TouchStep ==
    ASSUME BackfillInv, Touch
    PROVE  BackfillInv'
<1>1. PICK d \in Tickets : history' = [history EXCEPT ![d] = Append(@, now)]
  BY DEF Touch
<1>2. /\ UNCHANGED <<since, saved, stored, status, running, tries, state, fetched, complete, failures>>
      /\ now' = now + 1 /\ now < Start + MaxTouches
  BY DEF Touch, passVars, committed
<1>3. /\ Types /\ saved \in State /\ state \in State
      /\ history \in [Tickets -> Seq(0..(Start + MaxTouches))]
      /\ now \in Start..(Start + MaxTouches) /\ now \in Nat
  BY Settings DEF BackfillInv, Types, TypeOK, PassTypeOK
<1>4. Types'
  <2>1. now \in 0..(Start + MaxTouches) /\ now' \in Start..(Start + MaxTouches)
    BY <1>2, <1>3, Settings
  <2>2. history' \in [Tickets -> Seq(0..(Start + MaxTouches))]
    BY <1>1, <1>3, <2>1, AppendProperties
  <2>3. TypeOK'
    BY <1>2, <1>3, <2>1, <2>2 DEF Types, TypeOK, PassTypeOK
  <2>4. ASSUME NEW k \in Tickets
        PROVE  /\ history'[k] # <<>>
               /\ \A i \in DOMAIN history'[k] : history'[k][i] < now'
               /\ \A i, j \in DOMAIN history'[k] : i <= j => history'[k][i] <= history'[k][j]
    <3>1. /\ Len(history[k]) \in Nat \ {0} /\ DOMAIN history[k] = 1..Len(history[k])
          /\ history[k] # <<>>
          /\ \A i \in 1..Len(history[k]) : history[k][i] \in Nat /\ history[k][i] < now
          /\ \A i, j \in 1..Len(history[k]) : i <= j => history[k][i] <= history[k][j]
      BY <1>3, HistoryFacts DEF Types, HistoryOK
    <3>2. CASE k # d
      <4>1. history'[k] = history[k]
        BY <1>1, <1>3, <3>2
      <4>2. \A i \in 1..Len(history[k]) : history[k][i] < now'
        BY <1>2, <1>3, <3>1
      <4> QED BY <3>1, <4>1, <4>2
    <3>3. CASE k = d
      <4>1. history'[k] = Append(history[k], now) /\ history[k] \in Seq(0..(Start + MaxTouches))
        BY <1>1, <1>3, <3>3
      <4>2. /\ DOMAIN history'[k] = 1..(Len(history[k]) + 1)
            /\ history'[k][Len(history[k]) + 1] = now
            /\ \A i \in 1..Len(history[k]) : history'[k][i] = history[k][i]
            /\ history'[k] # <<>>
        BY <2>1, <4>1, AppendProperties, LenProperties
      <4>3. \A i \in 1..(Len(history[k]) + 1) :
               i \in 1..Len(history[k]) \/ i = Len(history[k]) + 1
        BY <3>1
      <4>4. /\ \A i \in 1..(Len(history[k]) + 1) : history'[k][i] \in Nat /\ history'[k][i] <= now
            /\ \A i \in 1..Len(history[k]) : history'[k][i] < now
        BY <1>3, <3>1, <4>2, <4>3
      <4>5. \A i, j \in 1..(Len(history[k]) + 1) : i <= j => history'[k][i] <= history'[k][j]
        <5> SUFFICES ASSUME NEW i \in 1..(Len(history[k]) + 1), NEW j \in 1..(Len(history[k]) + 1),
                            i <= j
                     PROVE  history'[k][i] <= history'[k][j]
          OBVIOUS
        <5>1. CASE j = Len(history[k]) + 1
          BY <4>2, <4>4, <5>1
        <5>2. CASE j \in 1..Len(history[k])
          <6>1. i \in 1..Len(history[k])
            BY <3>1, <5>2
          <6> QED BY <3>1, <4>2, <5>2, <6>1
        <5> QED BY <4>3, <5>1, <5>2
      <4>6. \A i \in 1..(Len(history[k]) + 1) : history'[k][i] < now'
        BY <1>2, <1>3, <4>4
      <4> QED BY <4>2, <4>5, <4>6
    <3> QED BY <3>2, <3>3
  <2> QED BY <2>3, <2>4 DEF Types, HistoryOK
<1>5. /\ \A G : \A q \in State : CursorOK(q) => Stays(q, G)
      /\ Promised' \subseteq Promised
  BY <1>3, <1>4, TouchMoves
<1>6. PICK st \in State : st = saved
  BY <1>3
<1>7. PICK ru \in State : ru = state
  BY <1>3
<1>8. PICK E : E = stored
  OBVIOUS
<1>9. PICK F : F = stored \cup fetched
  OBVIOUS
<1>10. /\ CursorOK(st) /\ CursorOK(ru) /\ (status = "in_progress" => Follows(st, E))
       /\ running /\ ~complete => Follows(ru, F)
  BY <1>6, <1>7, <1>8, <1>9 DEF BackfillInv
<1>11. /\ CursorOK(st)' /\ CursorOK(ru)' /\ (status = "in_progress" => Follows(st, E)')
       /\ running /\ ~complete => Follows(ru, F)'
  <2>1. Stays(st, E) /\ Stays(ru, F)
    BY <1>5, <1>10
  <2> QED BY <1>10, <2>1 DEF Stays, Follows
<1>12. saved' = st /\ state' = ru /\ stored' = E /\ stored' \cup fetched' = F
  BY <1>2, <1>6, <1>7, <1>8, <1>9
<1>13. CursorOK(saved)' /\ CursorOK(state)'
  BY <1>11, <1>12 DEF CursorOK, Consistent
<1>14. /\ status' = "in_progress" => Follows(saved, stored)'
       /\ running' /\ ~complete' => Follows(state, stored \cup fetched)'
  BY <1>2, <1>11, <1>12, <1>13 DEF Follows, Covers, NotBehind
<1>15. /\ complete' => Promised' \subseteq stored' \cup fetched'
       /\ running' => status' = "in_progress"
       /\ ~running' => ~complete' /\ fetched' = {}
  BY <1>2, <1>5 DEF BackfillInv
<1> QED BY <1>4, <1>13, <1>14, <1>15 DEF BackfillInv

LEMMA BackfillStep == BackfillInv /\ [Next]_vars => BackfillInv'
<1> SUFFICES ASSUME BackfillInv, [Next]_vars PROVE BackfillInv'
  OBVIOUS
<1>1. CASE Batch
  BY <1>1, BatchStep
<1>2. CASE (Begin \/ Commit \/ Fail) /\ UNCHANGED service
  BY <1>2, RestStep
<1>3. CASE Touch
  BY <1>3, TouchStep
<1>4. CASE UNCHANGED vars
  BY <1>4 DEF vars, service, passVars, committed, BackfillInv, Types, TypeOK, PassTypeOK,
     HistoryOK, CursorOK, Consistent, Unlisted, Follows, Covers, NotBehind, Owed, Settled,
     InWindow, Updated, Ahead, TicketsAfter, Place, Promised, Taken
<1> QED BY <1>1, <1>2, <1>3, <1>4 DEF Next, Work

LEMMA BackfillInvariant == Spec => []BackfillInv
BY BackfillInit, BackfillStep, PTL DEF Spec

\* Cursors name a tracker, a ticket and an event that there are, and a pass keeps
\* to the batches that RECENT_BACKFILL_BATCHES_PER_SERVICE allows it.
THEOREM BackfillTypes == Spec => []TypeOK
<1>1. BackfillInv => TypeOK
  BY DEF BackfillInv, Types
<1> QED BY <1>1, BackfillInvariant, PTL

\* Whether fetch_recent_backfill_batch is cut off by a failure, by the limit of
\* batches or by the death of the process, and however tickets move in the listing
\* meanwhile, the cursor has every event still to read before it.
THEOREM NothingIsLost == Spec => []NothingLost
<1>1. ASSUME BackfillInv
      PROVE  NothingLost
  <2> SUFFICES ASSUME NEW e \in Promised
               PROVE  /\ status = "in_progress" => e \in stored \/ Ahead(saved, e[1], e[2])
                      /\ running /\ ~complete =>
                            e \in stored \cup fetched \/ Ahead(state, e[1], e[2])
    BY DEF NothingLost
  <2>1. PICK k, i : k \in Tickets /\ e = <<k, i>> /\ Owed(k, i)
    BY DEF Promised, Owed
  <2>2. i \in Nat
    BY <1>1, <2>1, HistoryFacts DEF BackfillInv, Owed
  <2> QED BY <1>1, <2>1, <2>2 DEF BackfillInv, Follows, Covers
<1> QED BY <1>1, BackfillInvariant, PTL

\* A pass that goes on where another one stopped never asks for an event again
\* that is stored, or that it has fetched itself.
THEOREM NothingIsReadTwice == Spec => []NothingTwice
<1>1. ASSUME BackfillInv
      PROVE  NothingTwice
  <2>1. stored \cup fetched \subseteq Tickets \X Nat
    BY <1>1 DEF BackfillInv, Types, TypeOK, PassTypeOK, AllEvents
  <2> QED BY <1>1, <2>1 DEF BackfillInv, Follows, NotBehind, NothingTwice
<1> QED BY <1>1, BackfillInvariant, PTL

-----------------------------------------------------------------------------
(* The backfill is a scan. *)
LEMMA ScanInit == Init => Scan!ScanInit
<1> SUFFICES ASSUME Init PROVE Scan!ScanInit
  OBVIOUS
<1>1. Types
  BY BackfillInit DEF BackfillInv
<1>2. Promised \subseteq AllEvents
  BY <1>1, HistoryFacts DEF Promised, AllEvents
<1> QED BY <1>2 DEF Scan!ScanInit, Init, PassInit

LEMMA ScanStep ==
    ASSUME BackfillInv, BackfillInv', [Next]_vars
    PROVE  [Scan!ScanNext]_(Scan!scanVars)
<1>1. ASSUME UNCHANGED <<stored, status>>, Promised' \subseteq Promised
      PROVE  [Scan!ScanNext]_(Scan!scanVars)
  BY <1>1 DEF Scan!ScanNext, Scan!Shrink
<1>2. since \in Nat
  BY Settings DEF BackfillInv, Types, TypeOK, PassTypeOK
<1>3. CASE Batch \/ ((Begin \/ Fail) /\ UNCHANGED service)
  <2>1. UNCHANGED <<stored, status, service>>
    BY <1>3 DEF Batch, ListTrackers, NoTrackerLeft, ListTickets, FetchEvents, Report, Return,
       Begin, Fail, committed
  <2>2. since' >= since
    <3>1. since' = since \/ since' \in since..Start
      BY <1>3 DEF Batch, ListTrackers, NoTrackerLeft, ListTickets, FetchEvents, Report, Return,
         Begin, Fail
    <3> QED BY <1>2, <3>1, Settings
  <2> QED BY <1>1, <2>1, <2>2, SinceMoves DEF BackfillInv
<1>4. CASE Commit /\ UNCHANGED service
  <2>1. /\ stored' = stored \cup fetched /\ since' = since /\ running
        /\ status' = IF complete THEN "completed" ELSE "in_progress"
    BY <1>4 DEF Commit
  <2>2. /\ status = "in_progress" /\ stored \cup fetched \subseteq AllEvents
        /\ complete => Promised \subseteq stored \cup fetched
    BY <2>1 DEF BackfillInv, Types, TypeOK, PassTypeOK
  <2>3. Promised' = Promised
    BY <1>4, <2>1 DEF service, Promised, Settled, Updated, InWindow
  <2>4. Scan!CommitPass
    BY <2>1, <2>2, <2>3 DEF Scan!CommitPass
  <2> QED BY <2>4 DEF Scan!ScanNext
<1>5. CASE Touch
  <2>1. UNCHANGED <<stored, status>>
    BY <1>5 DEF Touch, passVars, committed
  <2>2. Promised' \subseteq Promised
    BY <1>5, TouchMoves DEF BackfillInv
  <2> QED BY <1>1, <2>1, <2>2
<1>6. CASE UNCHANGED vars
  BY <1>1, <1>6 DEF vars, service, passVars, committed, Promised, Settled, Updated, InWindow
<1> QED BY <1>3, <1>4, <1>5, <1>6 DEF Next, Work

\* The poller may rely on the backfill of todo.sr.ht as it does on any: passes
\* only ever add events to what is stored, and "completed" is reported when the
\* events of all tickets that nobody touched meanwhile are.
THEOREM BackfillIsScan == Spec => IsScan
<1>1. BackfillInv /\ BackfillInv' /\ [Next]_vars => [Scan!ScanNext]_(Scan!scanVars)
  BY ScanStep
<1> QED BY <1>1, ScanInit, BackfillInvariant, PTL DEF Spec, IsScan, Scan!ScanSpec
=============================================================================
