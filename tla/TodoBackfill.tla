---------------------------- MODULE TodoBackfill ----------------------------
(***************************************************************************)
(* The resumable backfill of todo.sr.ht: trackers, their tickets, and the  *)
(* events of each ticket, a page per batch, several batches per pass.      *)
(*                                                                         *)
(* todo.sr.ht is external.  It lists trackers in a fixed order, tickets by *)
(* the time of their last event and events by time, the newest first: the  *)
(* order the code counts on when it stops paging at the first one outside  *)
(* the window.  A cursor names the last item of a page, so what moves to   *)
(* the front meanwhile is not on any later page.                           *)
(***************************************************************************)
EXTENDS BackfillPass, FiniteSets, Sequences

CONSTANTS
    NTrackers,           \* trackers, in the order they are listed
    Tickets,             \* ticket ids
    TrackerOf,           \* the tracker of each ticket
    World,               \* the times of each ticket's events before Start, the oldest first
    TrackerPage, TicketPage, EventPage,      \* page sizes of todo.sr.ht
    MaxTouches           \* bound: new events during the backfill

Trackers == 1..NTrackers
None == 0                \* no tracker, no ticket, no page yet

ASSUME WorldAssumption ==
    /\ NTrackers \in Nat
    /\ Tickets \subseteq Nat \ {None} /\ IsFiniteSet(Tickets)
    /\ TrackerOf \in [Tickets -> Trackers]
    /\ World \in [Tickets -> Seq(0..(Start - 1))]
    /\ \A k \in Tickets :
          /\ World[k] # <<>>
          /\ \A i, j \in DOMAIN World[k] : i <= j => World[k][i] <= World[k][j]

ASSUME PagesAssumption ==
    /\ TrackerPage \in Nat \ {0}
    /\ TicketPage \in Nat \ {0}
    /\ EventPage \in Nat \ {0}
    /\ MaxTouches \in Nat

VARIABLES
    history,    \* on todo.sr.ht: the times of each ticket's events
    now         \* the time of the next event there

\* The position of a ticket in the listing, and of the last one of a page.
Places == [time : Nat, ticket : Nat]
NoPlace == [time |-> 0, ticket |-> None]         \* no cursor

\* cursor_state; lists whose order decides nothing are sets.
State == [trackersCursor : 0..NTrackers,         \* the last tracker listed
          trackersLoaded : BOOLEAN,
          trackerQueue   : SUBSET Trackers,
          currentTracker : Trackers \cup {None},
          ticketsCursor  : Places,
          pendingTickets : SUBSET Tickets,
          currentTicket  : Tickets \cup {None},
          eventsCursor   : Nat]                  \* the last event read, or None

NewState == [trackersCursor |-> 0, trackersLoaded |-> FALSE, trackerQueue |-> {},
             currentTracker |-> None, ticketsCursor |-> NoPlace, pendingTickets |-> {},
             currentTicket |-> None, eventsCursor |-> None]

\* Events by ticket and number, which a new event does not change.
AllEvents == Tickets \X Nat

service == <<history, now>>
vars == <<service, passVars>>

Init ==
    /\ history = World /\ now = Start
    /\ PassInit(NewState)

-----------------------------------------------------------------------------
(***************************************************************************)
(* The pages of todo.sr.ht.                                                *)
(***************************************************************************)
Updated(k) == history[k][Len(history[k])]
Place(k) == [time |-> Updated(k), ticket |-> k]

\* Place p comes before place q in the listing.
Before(p, q) == p.time > q.time \/ (p.time = q.time /\ p.ticket < q.ticket)

TicketsAfter(t, p) ==
    {k \in Tickets : TrackerOf[k] = t /\ (p = NoPlace \/ Before(p, Place(k)))}

\* The first of a set of tickets, as many as fit on a page.
TicketsPage(tickets) ==
    {k \in tickets : Cardinality({m \in tickets : Before(Place(m), Place(k))}) < TicketPage}

LastPlace(page) ==
    CHOOSE p \in {Place(k) : k \in page} : \A k \in page : ~Before(p, Place(k))

\* The events of ticket k on the page before event number c.
EventsPage(k, c) ==
    LET newest == IF c = None THEN Len(history[k]) ELSE c - 1
    IN  {i \in 1..newest : i > newest - EventPage}

InWindow(time) == time >= since

-----------------------------------------------------------------------------
(***************************************************************************)
(* One batch: _fetch_backfill_batch, which makes one query and returns     *)
(* the events, the next cursor, and whether the backfill is complete.      *)
(***************************************************************************)
\* The cursor of a complete backfill is None, which stands for the first one.
Report(events, next, done) == Return(events, IF done THEN NewState ELSE next, done)

ListTrackers ==
    /\ ~state.trackersLoaded
    /\ LET last == IF state.trackersCursor + TrackerPage < NTrackers
                   THEN state.trackersCursor + TrackerPage ELSE NTrackers
           queue == state.trackerQueue \cup (state.trackersCursor + 1)..last
           loaded == last = NTrackers
       IN  Report({},
                  [state EXCEPT !.trackersCursor = last, !.trackersLoaded = loaded,
                                !.trackerQueue = queue],
                  loaded /\ queue = {})

\* Mutant: the tracker in progress is overlooked.
NoTrackerLeft_Early ==
    /\ state.trackersLoaded
    /\ state.trackerQueue = {}
    /\ Report({}, state, TRUE)

\* Mutant: the end is not reported when it is noticed by an empty queue.
NoTrackerLeft_Unreported ==
    /\ state.trackersLoaded
    /\ state.currentTracker = None
    /\ state.trackerQueue = {}
    /\ Report({}, state, FALSE)

NoTrackerLeft ==
    /\ state.trackersLoaded
    /\ state.currentTracker = None
    /\ state.trackerQueue = {}
    /\ Report({}, state, TRUE)

\* Mutant: the pages of tickets after this one are forgotten.
NoTicketLeft_Page(st) == st.pendingTickets = {}

NoTicketLeft(st) == st.pendingTickets = {} /\ st.ticketsCursor = NoPlace

\* The tracker is left when no ticket of it is.
Leave(st) ==
    IF NoTicketLeft(st) THEN [st EXCEPT !.currentTracker = None, !.ticketsCursor = NoPlace]
                        ELSE st

\* Tickets that are not in the window are left out, and end the paging.
ListTickets(t) ==
    /\ state.trackersLoaded
    /\ IF state.currentTracker = None THEN t \in state.trackerQueue
                                      ELSE t = state.currentTracker
    /\ state.currentTicket = None /\ state.pendingTickets = {}
    /\ LET rest == TicketsAfter(t, state.ticketsCursor)
           page == TicketsPage(rest)
           pending == {k \in page : InWindow(Updated(k))}
           more == page # rest /\ pending = page
           next == [state EXCEPT !.trackerQueue = @ \ {t}, !.currentTracker = t,
                                 !.pendingTickets = pending,
                                 !.ticketsCursor = IF more THEN LastPlace(page) ELSE NoPlace]
       IN  Report({}, Leave(next), FALSE)

\* Events that are not in the window are left out, and end the ticket.
FetchEvents(k) ==
    /\ state.trackersLoaded
    /\ IF state.currentTicket = None THEN k \in state.pendingTickets
                                     ELSE k = state.currentTicket
    /\ LET page == EventsPage(k, state.eventsCursor)
           events == {i \in page : InWindow(history[k][i])}
           more == 1 \notin page /\ events = page
           oldest == CHOOSE i \in page : \A j \in page : i <= j
           next == [state EXCEPT !.pendingTickets = @ \ {k},
                                 !.currentTicket = IF more THEN k ELSE None,
                                 !.eventsCursor = IF more THEN oldest ELSE None]
       IN  Report({<<k, i>> : i \in events},
                  IF more THEN next ELSE Leave(next),
                  ~more /\ NoTicketLeft(next) /\ next.trackerQueue = {})

Batch ==
    /\ \/ ListTrackers
       \/ NoTrackerLeft
       \/ \E t \in Trackers : ListTickets(t)
       \/ \E k \in Tickets : FetchEvents(k)
    /\ UNCHANGED service

-----------------------------------------------------------------------------
\* Meanwhile somebody adds an event to a ticket, which moves to the front.
Touch ==
    /\ now < Start + MaxTouches
    /\ now' = now + 1
    /\ \E k \in Tickets : history' = [history EXCEPT ![k] = Append(@, now)]
    /\ UNCHANGED passVars

Work == Batch \/ (Begin /\ UNCHANGED service) \/ (Commit /\ UNCHANGED service)

Next == Work \/ (Fail /\ UNCHANGED service) \/ Touch

Spec == Init /\ [][Next]_vars

\* A pass is begun as long as the backfill is not complete, and goes on.
FairSpec == Spec /\ WF_vars(Work)

-----------------------------------------------------------------------------
\* Every variable stays in its domain: cursors name a page that there is, and a
\* pass fetches at most BatchesPerService batches.
TypeOK ==
    /\ history \in [Tickets -> Seq(0..(Start + MaxTouches))]
    /\ now \in Start..(Start + MaxTouches)
    /\ PassTypeOK(State, AllEvents)

\* The tickets nobody has touched since the backfill started.
Settled(k) == Updated(k) < Start

\* What a complete backfill has to have: the events in the window, of tickets
\* that have not moved in the listing while it was walked.
Promised ==
    UNION {{<<k, i>> : i \in {j \in DOMAIN history[k] : InWindow(history[k][j])}} :
              k \in {k \in Tickets : Settled(k)}}

\* The events a cursor has still before it.
Ahead(st, k, i) ==
    LET t == TrackerOf[k]
    IN  \/ t > st.trackersCursor
        \/ t \in st.trackerQueue
        \/ k \in st.pendingTickets /\ k # st.currentTicket
        \/ k = st.currentTicket /\ i < st.eventsCursor
        \/ t = st.currentTracker /\ st.ticketsCursor # NoPlace /\ k \in TicketsAfter(t, st.ticketsCursor)

\* Wherever a pass is cut off, what is promised is either stored or before the
\* cursor: the committed one, and the one of the pass under way.
NothingLost ==
    \A e \in Promised :
        /\ status = "in_progress" => e \in stored \/ Ahead(saved, e[1], e[2])
        /\ running /\ ~complete => e \in stored \cup fetched \/ Ahead(state, e[1], e[2])

\* No event is fetched twice, but for passes that failed: the cursor never
\* stands before an event that is stored.
NothingTwice ==
    running /\ ~complete => \A e \in stored \cup fetched : ~Ahead(state, e[1], e[2])

\* The backfill is a scan as the poller expects it.
Scan == INSTANCE BackfillScan WITH Events <- AllEvents, window <- Promised
IsScan == Scan!ScanSpec

\* It comes to an end once passes no longer fail, whatever is touched.
Completes == <>(status = "completed")
=============================================================================
