------------------------------ MODULE TodoSync ------------------------------
(***************************************************************************)
(* The incremental poll of todo.sr.ht: the activity feed of the token's    *)
(* owner, a page per query, and a crawl of the owner's trackers when the   *)
(* feed has nothing of the actor.  Polls of several sessions overlap: they *)
(* read without SQLite's write lock, events are committed one by one as    *)
(* they are inserted until one of them is there already, and what follows  *)
(* it, and the cursor, are held until the git part of the poll has ended,  *)
(* one way or the other.                                                   *)
(*                                                                         *)
(* todo.sr.ht is external.  Its feed lists events the newest first and a   *)
(* cursor names the last one of a page.  Time 0 is thirty days before the  *)
(* first poll; the crawled trackers have less than 50 pages of anything.   *)
(***************************************************************************)
EXTENDS GraphQLClient, Sequences, FiniteSets

CONSTANTS
    Actors,              \* those polled
    Owner,               \* the owner of the token
    NoSession,
    FeedPage,            \* page size of todo.sr.ht
    FeedPages,           \* pages of the feed that a poll reads at most
    Overlap,             \* sync_overlap_hours
    MaxEvents, MaxClock  \* bounds

ASSUME TodoAssumption ==
    /\ Owner \in Actors /\ NoSession \notin Clients
    /\ {FeedPage, FeedPages} \subseteq Nat \ {0}
    /\ {Overlap, MaxEvents, MaxClock} \subseteq Nat

VARIABLES
    now,
    feed,       \* on todo.sr.ht: time and author of the events, the oldest first
    cursor,     \* sync_states.cursor_value of each actor, or None
    stored,     \* contribution_events, by number in the feed
    owed,       \* events of polled actors that no poll has stored, or left out
                \* because the feed was too long
    lock,       \* the session that holds SQLite's write lock
    session     \* the polls

todoVars == <<now, feed, cursor, stored, owed, lock, session>>
vars == <<todoVars, clientVars>>

None == -1
Times == 0..MaxClock
Numbers == 1..MaxEvents
Idle == [phase |-> "idle", actor |-> Owner, since |-> 0, began |-> 0, page |-> 0, next |-> 0,
         found |-> {}, beyond |-> {}]

Init ==
    /\ now = 0 /\ feed = <<>> /\ cursor = [a \in Actors |-> None]
    /\ stored = {} /\ owed = {} /\ lock = NoSession
    /\ session = [s \in Clients |-> Idle]
    /\ ClientInit

-----------------------------------------------------------------------------
\* Where a poll of actor a starts.
Since(a) == IF cursor[a] > Overlap THEN cursor[a] - Overlap ELSE 0

\* The cursor is the time before the first query.
Begin(s, a) ==
    /\ session[s].phase = "idle"
    /\ session' = [session EXCEPT ![s] = [Idle EXCEPT
            !.phase = "feed", !.actor = a, !.since = Since(a), !.began = now]]
    /\ UNCHANGED <<now, feed, cursor, stored, owed, lock, clientVars>>

\* The events of a page of the feed, by number, that ends before event n.
PageBefore(n) == {i \in 1..(n - 1) : i >= n - FeedPage}

By(a, numbers, since) == {i \in numbers : feed[i].by = a /\ feed[i].time >= since}

\* The first event that is too old ends the paging; so does the page limit.
LastPage(s, page) ==
    \/ \E i \in page : feed[i].time < session[s].since
    \/ page = {} \/ 1 \in page
    \/ session[s].page + 1 = FeedPages

\* What the page limit leaves unread.
Unread(s, page) ==
    IF session[s].page + 1 = FeedPages
    THEN {i \in DOMAIN feed : page # {} /\ \A j \in page : i < j} ELSE {}

\* A query of _fetch_from_activity_feed is answered.
ReadFeed(s) ==
    /\ session[s].phase = "feed"
    /\ LET page == PageBefore(IF session[s].page = 0 THEN Len(feed) + 1 ELSE session[s].next)
           found == session[s].found \cup By(session[s].actor, page, session[s].since)
           ended == [session[s] EXCEPT
                        !.phase = IF found = {} THEN "crawl" ELSE "insert",
                        !.page = 0, !.next = 0, !.found = found, !.beyond = Unread(s, page)]
           going == [session[s] EXCEPT
                        !.page = session[s].page + 1, !.found = found,
                        !.next = CHOOSE i \in page : \A j \in page : i <= j]
       IN  session' = [session EXCEPT ![s] = IF LastPage(s, page) THEN ended ELSE going]
    /\ Answered(s)
    /\ UNCHANGED <<now, feed, cursor, stored, owed, lock>>

\* _fetch_from_trackers: the owner's events, whoever is polled, as far as they
\* are in a tracker on the first page of the owner's.
Crawl(s) ==
    /\ session[s].phase = "crawl"
    /\ \E reached \in SUBSET DOMAIN feed :
          session' = [session EXCEPT ![s].phase = "insert",
                                     ![s].found = By(Owner, reached, session[s].since)]
    /\ Answered(s)
    /\ UNCHANGED <<now, feed, cursor, stored, owed, lock>>

\* _insert_events, where every savepoint is a transaction of its own until one is
\* rolled back for a duplicate: that one is not released, and what is inserted
\* after it waits for the commit.  Then _upsert_sync_state, whose flush begins a
\* transaction if there is none.
Insert(s) ==
    /\ session[s].phase = "insert" /\ lock = NoSession
    /\ lock' = s
    /\ \E first \in SUBSET (session[s].found \ stored) :
          /\ session[s].found \cap stored = {} => first = session[s].found
          /\ stored' = stored \cup first
          /\ owed' = owed \ first
          /\ session' = [session EXCEPT ![s].phase = "held", ![s].since = 0,
                                         ![s].found = @ \ stored']
    /\ UNCHANGED <<now, feed, cursor, clientVars>>

\* Mutant: the cursor is the time of the commit.
NewCursor_AtEnd(s) == now

NewCursor(s) == session[s].began

Commit(s) ==
    /\ session[s].phase = "held"
    /\ cursor' = [cursor EXCEPT ![session[s].actor] = NewCursor(s)]
    /\ stored' = stored \cup session[s].found
    /\ owed' = owed \ (session[s].found \cup session[s].beyond)
    /\ lock' = NoSession
    /\ session' = [session EXCEPT ![s] = Idle]
    /\ UNCHANGED <<now, feed, clientVars>>

\* Mutant: the session is put back into the pool with its transaction.
Abandon_KeepsLock(s) ==
    /\ session' = [session EXCEPT ![s] = Idle]
    /\ UNCHANGED <<now, feed, cursor, stored, owed, lock>>

\* Rolled back: what was not committed by then is forgotten.
Abandon(s) ==
    /\ session' = [session EXCEPT ![s] = Idle]
    /\ lock' = IF lock = s THEN NoSession ELSE lock
    /\ UNCHANGED <<now, feed, cursor, stored, owed>>

\* An error that is not tried again, a failing git poll, a lock that does not
\* come free, a state that another session has inserted in between, or a crash.
Fail(s) ==
    /\ session[s].phase # "idle"
    /\ Abandon(s) /\ Answered(s)

\* The same between two savepoints: what was inserted by then stays, as far as it
\* came before a duplicate.
FailInserting(s) ==
    /\ session[s].phase = "insert" /\ lock = NoSession
    /\ \E inserted \in SUBSET session[s].found :
          stored' = stored \cup inserted /\ owed' = owed \ inserted
    /\ session' = [session EXCEPT ![s] = Idle]
    /\ UNCHANGED <<now, feed, cursor, lock, clientVars>>

\* The attempts of a query.
Query(s) ==
    /\ session[s].phase \in {"feed", "crawl"}
    /\ \/ Retry(s) /\ UNCHANGED todoVars
       \/ Raise(s) /\ Abandon(s)

-----------------------------------------------------------------------------
Happen(a) ==
    /\ Len(feed) < MaxEvents
    /\ feed' = Append(feed, [time |-> now, by |-> a])
    /\ owed' = owed \cup {Len(feed) + 1}
    /\ UNCHANGED <<now, cursor, stored, lock, session, clientVars>>

Tick ==
    /\ now < MaxClock
    /\ now' = now + 1
    /\ UNCHANGED <<feed, cursor, stored, owed, lock, session, clientVars>>

Next ==
    \/ \E s \in Clients :
          \/ \E a \in Actors : Begin(s, a)
          \/ ReadFeed(s) \/ Crawl(s) \/ Insert(s) \/ Commit(s)
          \/ Fail(s) \/ FailInserting(s) \/ Query(s)
    \/ \E a \in Actors : Happen(a)
    \/ Tick

Spec == Init /\ [][Next]_vars

-----------------------------------------------------------------------------
\* Every variable stays in its domain; a session that holds the write lock is
\* the only one.
TypeOK ==
    /\ ClientTypeOK
    /\ now \in Times
    /\ feed \in Seq([time : 0..now, by : Actors])
    /\ cursor \in [Actors -> {None} \cup 0..now]
    /\ stored \subseteq DOMAIN feed /\ owed \subseteq DOMAIN feed
    /\ \A s \in Clients :
          /\ session[s].phase \in {"idle", "feed", "crawl", "insert", "held"}
          /\ session[s].phase = "held" <=> lock = s
          /\ session[s].page \in 0..FeedPages
          /\ session[s].found \subseteq DOMAIN feed

\* There is no gap between two polls: an event of the feed that no poll has
\* stored is read by the next one of its author, unless the feed was too long;
\* whatever happens while the pages are read, however polls of the actor overlap
\* and fail, and without any help of the overlap.
NothingLost == \A i \in owed : feed[i].time >= Since(feed[i].by)
=============================================================================
