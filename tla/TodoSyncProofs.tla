--------------------------- MODULE TodoSyncProofs ---------------------------
(***************************************************************************)
(* No event falls between two incremental polls of todo.sr.ht, for any     *)
(* actors, sessions and page sizes and any overlap, and a query is given   *)
(* up only after the faults that it may see.                               *)
(*                                                                         *)
(* A poll is proved right on its own (PollOK), and what the others and the *)
(* rest of the world do meanwhile enters by one fact: they only add events *)
(* that are not older than the present (Grows).                            *)
(***************************************************************************)
EXTENDS TodoSync, FiniteSetTheorems, SequenceTheorems, WellFoundedInduction, TLAPS

Phases == {"idle", "feed", "crawl", "insert", "held"}

Poll == [phase : Phases, actor : Actors, since : Nat, began : Nat, page : 0..(FeedPages - 1),
         next : Nat, found : SUBSET Nat, beyond : SUBSET Nat]

FeedOK ==
    /\ feed \in Seq([time : 0..now, by : Actors])
    /\ \A i, j \in DOMAIN feed : i <= j => feed[i].time <= feed[j].time

Types ==
    /\ now \in Times
    /\ FeedOK
    /\ cursor \in [Actors -> {None} \cup 0..now]
    /\ stored \subseteq DOMAIN feed /\ owed \subseteq DOMAIN feed /\ owed \cap stored = {}
    /\ session \in [Clients -> Poll]
    /\ \A s \in Clients : session[s].phase = "held" <=> lock = s

\* The events that a poll is to store: those from where it started to when.
Sought(p) ==
    {i \in DOMAIN feed : feed[i].by = p.actor /\ feed[i].time >= p.since /\ feed[i].time < p.began}

\* The pages of the feed that were read go down to number `next`.
ReadOK(p) ==
    IF p.page = 0 THEN p.found = {}
    ELSE /\ p.next \in DOMAIN feed /\ p.next > 1
         /\ \A i \in Sought(p) : i >= p.next => i \in p.found

\* What no poll has stored is not older than where this one started; what this
\* one seeks it has found, unless the feed is too long; and what it has stored
\* is not owed any more, except for what its commit will store.
PollOK(p) ==
    /\ p.found \subseteq DOMAIN feed
    /\ p.phase # "idle" => p.since <= p.began /\ p.began <= now
    /\ p.phase # "idle" => \A i \in owed : feed[i].by = p.actor => feed[i].time >= p.since
    /\ p.phase = "feed" => ReadOK(p)
    /\ p.phase = "crawl" => p.found = {}
    /\ p.phase \in {"crawl", "insert"} => Sought(p) \subseteq p.found \cup p.beyond
    /\ p.phase = "held" =>
          \A i \in owed : feed[i].by = p.actor /\ feed[i].time < p.began => i \in p.found \cup p.beyond

SyncInv == Types /\ NothingLost /\ \A s \in Clients : PollOK(session[s])

-----------------------------------------------------------------------------
\* Each fault is charged to the query that saw it, until that is answered; the
\* faults of queries given up stay paid for.
Charged ==
    \E charge \in [Clients -> SUBSET (1..faults)], paid \in SUBSET (1..faults) :
        /\ \A c \in Clients : Cardinality(charge[c]) = attempt[c] /\ charge[c] \cap paid = {}
        /\ \A c, d \in Clients : c # d => charge[c] \cap charge[d] = {}
        /\ Cardinality(paid) = raised * (MaxRetries + 1)

\* Before attempt n a query has paused for 1 + 2 + ... = 2 ** n - 1 seconds.
Paused == \A c \in Clients : slept[c] = Pause[attempt[c]] - 1

ClientInv == ClientTypeOK /\ Charged /\ Paused

-----------------------------------------------------------------------------
(* What the rest of the world does. *)
Grows ==
    /\ now' \in Times /\ now <= now'
    /\ FeedOK'
    /\ DOMAIN feed \subseteq DOMAIN feed'
    /\ \A i \in DOMAIN feed : feed'[i] = feed[i]
    /\ \A i \in DOMAIN feed' \ DOMAIN feed : feed'[i].time >= now
    /\ owed' \subseteq owed \cup (DOMAIN feed' \ DOMAIN feed)

LEMMA Settings == MaxClock \in Nat /\ FeedPage \in Nat \ {0} /\ FeedPages \in Nat \ {0}
                 /\ Overlap \in Nat /\ Owner \in Actors
<1>1. /\ FeedPage \in {FeedPage, FeedPages} /\ FeedPages \in {FeedPage, FeedPages}
      /\ MaxClock \in {Overlap, MaxEvents, MaxClock} /\ Overlap \in {Overlap, MaxEvents, MaxClock}
  OBVIOUS
<1> QED BY <1>1, TodoAssumption

LEMMA FeedFacts ==
    ASSUME NEW t \in Times, NEW f \in Seq([time : 0..t, by : Actors])
    PROVE  /\ t \in Nat /\ Len(f) \in Nat /\ DOMAIN f = 1..Len(f)
           /\ \A i \in DOMAIN f :
                 i \in Nat /\ f[i].time \in Nat /\ f[i].time <= t /\ f[i].by \in Actors
<1>1. t \in Nat
  BY Settings DEF Times
<1>2. Len(f) \in Nat /\ DOMAIN f = 1..Len(f)
      /\ \A i \in 1..Len(f) : f[i] \in [time : 0..t, by : Actors]
  BY LenProperties, ElementOfSeq
<1> QED BY <1>1, <1>2

LEMMA TypeFacts ==
    ASSUME Types
    PROVE  /\ now \in Nat /\ Len(feed) \in Nat /\ DOMAIN feed = 1..Len(feed)
           /\ \A i \in DOMAIN feed :
                 /\ i \in Nat /\ feed[i].time \in Nat
                 /\ feed[i].time <= now /\ feed[i].by \in Actors
BY FeedFacts DEF Types, FeedOK

LEMMA GrowsFacts ==
    ASSUME Types, Grows
    PROVE  /\ now \in Nat /\ now' \in Nat
           /\ \A i \in DOMAIN feed : feed[i].time \in Nat /\ feed[i].by \in Actors
           /\ \A i \in DOMAIN feed' : feed'[i].time \in Nat /\ feed'[i].by \in Actors
<1>1. now' \in Times /\ feed' \in Seq([time : 0..now', by : Actors])
  BY DEF Grows, FeedOK
<1> QED BY <1>1, TypeFacts, FeedFacts

LEMMA StandsStill ==
    ASSUME Types, UNCHANGED <<now, feed>>, owed' \subseteq owed
    PROVE  Grows
BY TypeFacts DEF Types, FeedOK, Grows

LEMMA OthersOK ==
    ASSUME Types, NEW s \in Clients, PollOK(session[s]), Grows, session'[s] = session[s]
    PROVE  PollOK(session[s])'
<1> DEFINE p == session[s]
<1>1. p \in Poll /\ session'[s] = p
  BY DEF Types
<1>2. p.phase # "idle" => p.since \in Nat /\ p.began \in Nat /\ p.since <= p.began /\ p.began <= now
  BY <1>1 DEF PollOK, Poll
<1>2a. \A i \in DOMAIN feed' : feed'[i].time < p.began /\ p.phase # "idle" => i \in DOMAIN feed
  BY <1>2, GrowsFacts DEF Grows
<1>3. Sought(p) \subseteq DOMAIN feed
  BY DEF Sought
<1>4. p.phase # "idle" => Sought(session[s])' \subseteq Sought(p)
  BY <1>1, <1>2a DEF Sought, Grows
<1>5. p.phase = "feed" => ReadOK(session[s])'
  BY <1>1, <1>4 DEF PollOK, ReadOK, Grows
<1>6. p.phase # "idle" => p.began <= now'
  BY <1>2, GrowsFacts DEF Grows
<1>7. p.phase # "idle" => \A i \in owed' : feed'[i].by = p.actor => feed'[i].time >= p.since
  BY <1>1, <1>2, GrowsFacts DEF PollOK, Grows, Types
<1>8. p.phase = "held" =>
        \A i \in owed' : feed'[i].by = p.actor /\ feed'[i].time < p.began => i \in p.found \cup p.beyond
  BY <1>1, <1>2a DEF PollOK, Grows, Types
<1>9. p.found \subseteq DOMAIN feed'
  BY <1>1 DEF PollOK, Grows
<1> QED BY <1>1, <1>2, <1>4, <1>5, <1>6, <1>7, <1>8, <1>9 DEF PollOK

LEMMA NewsOK ==
    ASSUME Types, NothingLost, Grows, cursor' = cursor
    PROVE  NothingLost'
<1> SUFFICES ASSUME NEW i \in owed' PROVE (feed[i].time >= Since(feed[i].by))'
  BY DEF NothingLost
<1>1. CASE i \in owed
  <2>1. i \in DOMAIN feed /\ feed'[i] = feed[i] /\ feed[i].time >= Since(feed[i].by)
    BY <1>1 DEF Types, NothingLost, Grows
  <2> QED BY <2>1 DEF Since
<1>2. CASE i \in DOMAIN feed' \ DOMAIN feed
  <2> DEFINE c == cursor[feed'[i].by]
  <2>1. feed'[i].time >= now /\ feed'[i].time \in Nat /\ feed'[i].by \in Actors /\ now \in Nat
    BY <1>2, GrowsFacts DEF Grows
  <2>2. c \in Int /\ c <= now
    BY <2>1 DEF Types, None
  <2>3. (IF c > Overlap THEN c - Overlap ELSE 0) <= now
    BY <2>1, <2>2, Settings
  <2> QED BY <2>1, <2>2, <2>3, Settings DEF Since
<1> QED BY <1>1, <1>2 DEF Grows

-----------------------------------------------------------------------------
(* The steps of a poll. *)
Others(s) == \A r \in Clients \ {s} : session'[r] = session[r]

LEMMA IdleIsPoll == Idle \in Poll
BY Settings DEF Idle, Poll, Phases

LEMMA BeginOK ==
    ASSUME SyncInv, NEW s \in Clients, NEW a \in Actors, Begin(s, a)
    PROVE  Types' /\ PollOK(session[s])' /\ Others(s)
<1> DEFINE p == [Idle EXCEPT !.phase = "feed", !.actor = a, !.since = Since(a), !.began = now]
<1>1. UNCHANGED <<now, feed, cursor, stored, owed, lock>> /\ session' = [session EXCEPT ![s] = p]
  BY DEF Begin
<1>2. now \in Nat /\ cursor[a] \in Int /\ cursor[a] <= now
  BY TypeFacts DEF SyncInv, Types, None
<1>3. Since(a) \in Nat /\ Since(a) <= now
  BY <1>2, Settings DEF Since
<1>4. /\ p \in Poll /\ p.phase = "feed" /\ p.actor = a /\ p.since = Since(a) /\ p.began = now
      /\ p.page = 0 /\ p.found = {}
  <2>1. Idle \in Poll /\ Idle.page = 0 /\ Idle.found = {}
    BY IdleIsPoll DEF Idle
  <2>2. p \in Poll
    BY <1>2, <1>3, <2>1 DEF Poll, Phases
  <2> QED BY <2>1, <2>2 DEF Poll
<1>5. \A i \in owed : feed[i].by = a => feed[i].time >= Since(a)
  BY DEF SyncInv, NothingLost
<1> HIDE DEF p
<1>6. session'[s] = p
  BY <1>1 DEF SyncInv, Types
<1>7. PollOK(session[s])'
  <2>1. \A i \in owed' : feed'[i].by = p.actor => feed'[i].time >= p.since
    BY <1>1, <1>4, <1>5
  <2> QED BY <1>1, <1>2, <1>3, <1>4, <1>6, <2>1 DEF PollOK, ReadOK
<1>8. Types'
  <2>1. lock # s /\ session[s].phase = "idle"
    BY DEF SyncInv, Types, Begin
  <2> QED BY <1>1, <1>4, <2>1 DEF SyncInv, Types, FeedOK, Times
<1> QED BY <1>1, <1>7, <1>8 DEF Others, SyncInv, Types

\* A page goes on where the last one ended, and is not empty but at the end.
LEMMA PageFacts ==
    ASSUME Types, NEW n \in 1..(Len(feed) + 1)
    PROVE  /\ PageBefore(n) \subseteq DOMAIN feed
           /\ \A i \in PageBefore(n), j \in 1..(n - 1) : i <= j => j \in PageBefore(n)
           /\ n > 1 => n - 1 \in PageBefore(n)
           /\ \A i \in PageBefore(n) : i < n /\ i \in Nat
BY TypeFacts, Settings DEF PageBefore

LEMMA PageStart ==
    ASSUME Types, NEW n \in 2..(Len(feed) + 1)
    PROVE  \E i \in PageBefore(n) : \A j \in PageBefore(n) : i <= j
<1> DEFINE first == IF n - FeedPage > 1 THEN n - FeedPage ELSE 1
<1>1. first \in PageBefore(n) /\ \A j \in PageBefore(n) : first <= j
  BY TypeFacts, Settings DEF PageBefore
<1> QED BY <1>1

LEMMA ReadFeedOK ==
    ASSUME SyncInv, NEW s \in Clients, ReadFeed(s)
    PROVE  Types' /\ PollOK(session[s])' /\ Others(s)
<1> DEFINE p == session[s]
           n == IF p.page = 0 THEN Len(feed) + 1 ELSE p.next
           page == PageBefore(n)
           found == p.found \cup By(p.actor, page, p.since)
           beyond == Unread(s, page)
           next == CHOOSE i \in page : \A j \in page : i <= j
           ended == [p EXCEPT !.phase = IF found = {} THEN "crawl" ELSE "insert",
                              !.page = 0, !.next = 0, !.found = found, !.beyond = beyond]
           going == [p EXCEPT !.page = p.page + 1, !.found = found, !.next = next]
<1>1. /\ UNCHANGED <<now, feed, cursor, stored, owed, lock>> /\ p.phase = "feed"
      /\ session' = [session EXCEPT ![s] = IF LastPage(s, page) THEN ended ELSE going]
  BY Zenon DEF ReadFeed
<1>2. /\ p \in Poll /\ ReadOK(p) /\ p.found \subseteq DOMAIN feed
      /\ p.since <= p.began /\ p.began <= now
      /\ \A i \in owed : feed[i].by = p.actor => feed[i].time >= p.since
  BY <1>1 DEF SyncInv, Types, PollOK
<1>3. n \in 1..(Len(feed) + 1) /\ \A i \in Sought(p) : i >= n => i \in p.found
  BY <1>2, TypeFacts DEF SyncInv, ReadOK, Sought
<1>4. /\ page \subseteq DOMAIN feed
      /\ \A i \in page, j \in 1..(n - 1) : i <= j => j \in page
      /\ n > 1 => n - 1 \in page
      /\ \A i \in page : i < n /\ i \in Nat
  BY <1>3, PageFacts DEF SyncInv
<1>5. found \subseteq DOMAIN feed /\ \A i \in Sought(p) : i \in page => i \in found
  BY <1>2, <1>4 DEF By, Sought
<1>6. Sought(p) \subseteq DOMAIN feed /\ \A i \in DOMAIN feed : i \in Nat /\ i >= 1
  BY TypeFacts DEF Sought, SyncInv
<1>7. beyond \subseteq DOMAIN feed
  BY DEF Unread
<1> HIDE DEF n, page, found, beyond, next
<1>8. CASE LastPage(s, page)
  <2>1. Sought(p) \subseteq found \cup beyond
    <3> SUFFICES ASSUME NEW i \in Sought(p), i \notin found PROVE i \in beyond
      OBVIOUS
    <3>1. i \in Nat /\ i >= 1 /\ i < n /\ i \notin page /\ n \in Nat
      BY <1>3, <1>5, <1>6, TypeFacts DEF found, SyncInv
    <3>2. page # {} /\ \A j \in page : i < j
      BY <1>3, <1>4, <3>1
    <3>3. \A j \in page : feed[j].time >= p.since
      <4> SUFFICES ASSUME NEW j \in page PROVE feed[j].time >= p.since
        OBVIOUS
      <4>1. feed[i].time <= feed[j].time /\ feed[i].time >= p.since
        BY <1>4, <1>6, <3>2 DEF SyncInv, Types, FeedOK, Sought
      <4> QED BY <1>2, <1>4, <1>6, <4>1, TypeFacts DEF SyncInv, Poll
    <3>4. p.page + 1 = FeedPages
      BY <1>2, <1>4, <1>8, <3>1, <3>2, <3>3, TypeFacts DEF LastPage, SyncInv, Poll
    <3> QED BY <1>6, <3>2, <3>4 DEF beyond, Unread
  <2>2. ended \in Poll
    <3>1. found \in SUBSET Nat /\ beyond \in SUBSET Nat /\ 0 \in 0..(FeedPages - 1)
      BY <1>5, <1>6, <1>7, Settings
    <3>2. (IF found = {} THEN "crawl" ELSE "insert") \in Phases
      BY DEF Phases
    <3> QED BY <1>2, <3>1, <3>2 DEF Poll
  <2>3. /\ ended.actor = p.actor /\ ended.since = p.since /\ ended.began = p.began
        /\ ended.phase \in {"crawl", "insert"} /\ (ended.phase = "crawl" => found = {})
        /\ ended.found = found /\ ended.beyond = beyond
    BY <1>2 DEF Poll
  <2>4. session'[s] = ended /\ Others(s)
    BY <1>1, <1>8 DEF SyncInv, Types, Others
  <2> HIDE DEF ended
  <2>5. Sought(session[s])' = Sought(p)
    BY <1>1, <2>3, <2>4 DEF Sought
  <2>6. PollOK(session[s])'
    BY <1>1, <1>2, <1>5, <2>1, <2>3, <2>4, <2>5 DEF PollOK
  <2>7. Types'
    BY <1>1, <1>8, <2>2, <2>3, <2>4 DEF SyncInv, Types, FeedOK, Times, Others
  <2> QED BY <2>4, <2>6, <2>7
<1>9. CASE ~LastPage(s, page)
  <2>1. page # {} /\ 1 \notin page /\ p.page + 1 # FeedPages
    BY <1>9 DEF LastPage
  <2>2. next \in page /\ \A j \in page : next <= j
    <3>1. n \in 2..(Len(feed) + 1)
      BY <1>3, <1>4, <1>6, <2>1, TypeFacts DEF SyncInv
    <3> QED BY <3>1, PageStart DEF next, page, SyncInv
  <2>3. next > 1 /\ next \in DOMAIN feed /\ next \in Nat
    BY <1>4, <1>6, <2>1, <2>2
  <2>4. \A i \in Sought(p) : i >= next => i \in found
    <3> SUFFICES ASSUME NEW i \in Sought(p), i >= next, i < n PROVE i \in found
      BY <1>3, <1>6, TypeFacts DEF found, SyncInv
    <3>1. i \in page
      BY <1>3, <1>4, <1>6, <2>2
    <3> QED BY <1>5, <3>1
  <2>5. going \in Poll
    <3>1. found \in SUBSET Nat /\ next \in Nat
      BY <1>5, <1>6, <2>3
    <3>2. p.page + 1 \in 0..(FeedPages - 1)
      BY <1>2, <2>1, Settings DEF Poll
    <3> QED BY <1>2, <3>1, <3>2 DEF Poll
  <2>6. /\ going.actor = p.actor /\ going.since = p.since /\ going.began = p.began
        /\ going.phase = "feed" /\ going.found = found
        /\ going.next = next /\ going.page = p.page + 1
    BY <1>1, <1>2 DEF Poll
  <2>7. session'[s] = going /\ Others(s)
    BY <1>1, <1>9 DEF SyncInv, Types, Others
  <2> HIDE DEF going
  <2>8. Sought(session[s])' = Sought(p)
    BY <1>1, <2>6, <2>7 DEF Sought
  <2>9. ReadOK(session[s])'
    <3>1. p.page + 1 # 0
      BY <1>2, Settings DEF Poll
    <3> QED BY <1>1, <2>3, <2>4, <2>6, <2>7, <2>8, <3>1 DEF ReadOK
  <2>10. PollOK(session[s])'
    BY <1>1, <1>2, <1>5, <2>6, <2>7, <2>9 DEF PollOK
  <2>11. Types'
    BY <1>1, <2>5, <2>6, <2>7 DEF SyncInv, Types, FeedOK, Times, Others
  <2> QED BY <2>7, <2>10, <2>11
<1> QED BY <1>8, <1>9

LEMMA CrawlOK ==
    ASSUME SyncInv, NEW s \in Clients, Crawl(s)
    PROVE  Types' /\ PollOK(session[s])' /\ Others(s)
<1> DEFINE p == session[s]
<1>1. PICK reached \in SUBSET DOMAIN feed :
        session' = [session EXCEPT ![s].phase = "insert",
                                   ![s].found = By(Owner, reached, session[s].since)]
  BY DEF Crawl
<1> DEFINE found == By(Owner, reached, p.since)
           q == [p EXCEPT !.phase = "insert", !.found = found]
<1>2. UNCHANGED <<now, feed, cursor, stored, owed, lock>> /\ p.phase = "crawl" /\ p \in Poll
  BY DEF Crawl, SyncInv, Types
<1>3. session' = [session EXCEPT ![s] = q]
  BY <1>1 DEF SyncInv, Types
<1>4. found \subseteq DOMAIN feed /\ found \in SUBSET Nat
  BY TypeFacts DEF By, SyncInv
<1> HIDE DEF found
<1>5. /\ q \in Poll /\ q.phase = "insert" /\ q.found = found /\ q.beyond = p.beyond
      /\ q.actor = p.actor /\ q.since = p.since /\ q.began = p.began
  BY <1>2, <1>4 DEF Poll, Phases
<1> HIDE DEF q
<1>6. session'[s] = q /\ Others(s)
  BY <1>3 DEF SyncInv, Types, Others
<1>7. Sought(session[s])' = Sought(p)
  BY <1>2, <1>5, <1>6 DEF Sought
<1>8. PollOK(p)
  BY DEF SyncInv
<1>9. PollOK(session[s])'
  BY <1>2, <1>4, <1>5, <1>6, <1>7, <1>8 DEF PollOK
<1>10. Types'
  BY <1>2, <1>5, <1>6, <1>3 DEF SyncInv, Types, FeedOK, Times, Others
<1> QED BY <1>6, <1>9, <1>10

LEMMA InsertOK ==
    ASSUME SyncInv, NEW s \in Clients, Insert(s)
    PROVE  Types' /\ PollOK(session[s])' /\ Others(s) /\ owed' \subseteq owed
<1>0. PICK first \in SUBSET (session[s].found \ stored) :
          /\ stored' = stored \cup first /\ owed' = owed \ first
          /\ session' = [session EXCEPT ![s].phase = "held", ![s].since = 0,
                                         ![s].found = session[s].found \ stored']
  BY DEF Insert
<1> DEFINE p == session[s]
           rest == p.found \ (stored \cup first)
           q == [p EXCEPT !.phase = "held", !.since = 0, !.found = rest]
<1>1. /\ UNCHANGED <<now, feed, cursor>> /\ p.phase = "insert" /\ p \in Poll
      /\ lock = NoSession /\ lock' = s /\ first \subseteq p.found
      /\ stored' = stored \cup first /\ owed' = owed \ first
  BY <1>0 DEF Insert, SyncInv, Types
<1>2. session' = [session EXCEPT ![s] = q]
  BY <1>0 DEF SyncInv, Types
<1>3. /\ q \in Poll /\ q.phase = "held" /\ q.found = rest /\ q.beyond = p.beyond
      /\ q.actor = p.actor /\ q.since = 0 /\ q.began = p.began
  BY <1>1 DEF Poll, Phases
<1> HIDE DEF q
<1>4. session'[s] = q /\ Others(s)
  BY <1>2 DEF SyncInv, Types, Others
<1>5. PollOK(p)
  BY DEF SyncInv
<1>6. ASSUME NEW i \in owed', feed[i].by = p.actor, feed[i].time < p.began
      PROVE  i \in rest \cup p.beyond
  <2>1. i \in owed /\ i \notin first /\ i \notin stored /\ i \in DOMAIN feed
    BY <1>1 DEF SyncInv, Types
  <2>2. i \in Sought(p)
    BY <1>1, <1>5, <1>6, <2>1 DEF PollOK, Sought
  <2> QED BY <1>1, <1>5, <2>1, <2>2 DEF PollOK
<1>7. \A i \in owed' : feed'[i].time >= 0
  BY <1>1, TypeFacts DEF SyncInv, Types
<1>8. PollOK(session[s])'
  <2>1. 0 <= p.began /\ rest \subseteq DOMAIN feed
    BY <1>1, <1>5 DEF Poll, PollOK
  <2> HIDE DEF rest
  <2> QED BY <1>1, <1>3, <1>4, <1>5, <1>6, <1>7, <2>1 DEF PollOK
<1>9. Types'
  <2>1. p.found \subseteq DOMAIN feed
    BY <1>5 DEF PollOK
  <2>3. stored' \subseteq DOMAIN feed /\ owed' \subseteq DOMAIN feed /\ owed' \cap stored' = {}
    BY <1>1, <2>1 DEF SyncInv, Types
  <2>2. \A r \in Clients : session'[r].phase = "held" <=> lock' = r
    BY <1>1, <1>3, <1>4, TodoAssumption DEF SyncInv, Types, Others
  <2> QED BY <1>1, <1>2, <1>3, <2>2, <2>3 DEF SyncInv, Types, FeedOK, Times
<1> QED BY <1>1, <1>4, <1>8, <1>9

\* However a poll ends, nothing is left of it.
LEMMA RestOK ==
    ASSUME Types, NEW s \in Clients, session' = [session EXCEPT ![s] = Idle],
           lock' = (IF lock = s THEN NoSession ELSE lock), UNCHANGED <<now, feed>>,
           cursor' \in [Actors -> {None} \cup 0..now],
           stored' \subseteq DOMAIN feed, owed' \subseteq DOMAIN feed, owed' \cap stored' = {}
    PROVE  Types' /\ PollOK(session[s])' /\ Others(s)
<1>1. session'[s] = Idle /\ Idle.phase = "idle" /\ Idle.found = {} /\ Others(s)
  BY DEF Types, Others, Idle
<1>2. \A r \in Clients : session'[r].phase = "held" <=> lock' = r
  BY <1>1, TodoAssumption DEF Types, Others
<1>3. Types'
  BY <1>2, IdleIsPoll DEF Types, FeedOK, Times
<1> QED BY <1>1, <1>3 DEF PollOK

LEMMA CommitOK ==
    ASSUME SyncInv, NEW s \in Clients, Commit(s)
    PROVE  Types' /\ PollOK(session[s])' /\ Others(s) /\ owed' \subseteq owed /\ NothingLost'
<1> DEFINE p == session[s]
<1>1. /\ UNCHANGED <<now, feed>> /\ p.phase = "held" /\ p \in Poll /\ lock = s
      /\ stored' = stored \cup p.found /\ owed' = owed \ (p.found \cup p.beyond)
      /\ cursor' = [cursor EXCEPT ![p.actor] = p.began]
      /\ session' = [session EXCEPT ![s] = Idle] /\ lock' = NoSession
  BY DEF Commit, NewCursor, SyncInv, Types
<1>2. PollOK(p)
  BY DEF SyncInv
<1>3. p.actor \in Actors /\ p.began \in 0..now
  BY <1>1, <1>2, TypeFacts DEF Poll, PollOK, SyncInv
<1>4. Types' /\ PollOK(session[s])' /\ Others(s)
  <2>1. stored' \subseteq DOMAIN feed /\ owed' \subseteq DOMAIN feed /\ owed' \cap stored' = {}
    BY <1>1, <1>2 DEF PollOK, SyncInv, Types
  <2> QED BY <1>1, <1>3, <2>1, RestOK DEF SyncInv, Types
<1>5. NothingLost'
  <2> SUFFICES ASSUME NEW i \in owed' PROVE (feed[i].time >= Since(feed[i].by))'
    BY DEF NothingLost
  <2>1. i \in owed /\ i \notin p.found \cup p.beyond /\ feed[i].time \in Nat /\ feed[i].by \in Actors
    BY <1>1, TypeFacts DEF SyncInv, Types
  <2>2. CASE feed[i].by = p.actor
    <3>1. feed[i].time >= p.began
      BY <1>1, <1>2, <1>3, <2>1, <2>2, TypeFacts DEF PollOK, SyncInv
    <3>2. cursor'[p.actor] = p.began
      BY <1>1, <1>3 DEF SyncInv, Types
    <3> QED BY <1>1, <1>3, <2>1, <2>2, <3>1, <3>2, Settings DEF Since
  <2>3. CASE feed[i].by # p.actor
    BY <1>1, <2>1, <2>3 DEF SyncInv, NothingLost, Since, Types
  <2> QED BY <2>2, <2>3
<1> QED BY <1>1, <1>4, <1>5

LEMMA AbandonOK ==
    ASSUME SyncInv, NEW s \in Clients, Abandon(s)
    PROVE  Types' /\ PollOK(session[s])' /\ Others(s)
BY RestOK DEF Abandon, SyncInv, Types

LEMMA FailInsertingOK ==
    ASSUME SyncInv, NEW s \in Clients, FailInserting(s)
    PROVE  Types' /\ PollOK(session[s])' /\ Others(s) /\ owed' \subseteq owed
<1>1. session[s].found \subseteq DOMAIN feed
  BY DEF SyncInv, PollOK
<1>2. /\ UNCHANGED <<now, feed, cursor, lock>> /\ lock # s
      /\ stored' \subseteq DOMAIN feed /\ owed' \subseteq owed /\ owed' \cap stored' = {}
      /\ session' = [session EXCEPT ![s] = Idle]
  BY <1>1, TodoAssumption DEF FailInserting, SyncInv, Types
<1> QED BY <1>2, RestOK DEF SyncInv, Types

LEMMA HappenGrows ==
    ASSUME Types, NEW a \in Actors, Happen(a)
    PROVE  Grows /\ Types' /\ UNCHANGED <<session, cursor>>
<1> DEFINE e == [time |-> now, by |-> a]
           S == [time : 0..now, by : Actors]
<1>1. /\ UNCHANGED <<now, cursor, stored, lock, session>>
      /\ feed' = Append(feed, e) /\ owed' = owed \cup {Len(feed) + 1}
  BY DEF Happen
<1>2. now \in Nat /\ Len(feed) \in Nat /\ DOMAIN feed = 1..Len(feed)
  BY TypeFacts
<1>3. feed \in Seq(S) /\ e \in S
  BY <1>2 DEF Types, FeedOK
<1>4. /\ feed' \in Seq(S) /\ DOMAIN feed' = 1..(Len(feed) + 1)
      /\ \A i \in 1..Len(feed) : feed'[i] = feed[i]
      /\ feed'[Len(feed) + 1] = e
  BY <1>1, <1>2, <1>3, AppendProperties
<1>5. e.time = now
  OBVIOUS
<1> HIDE DEF e
<1>6. FeedOK'
  BY <1>1, <1>2, <1>4, <1>5, TypeFacts DEF Types, FeedOK
<1>7. Types'
  BY <1>1, <1>2, <1>4, <1>6 DEF Types, Times
<1>8. Grows
  BY <1>1, <1>2, <1>4, <1>5, <1>6 DEF Grows, Types
<1> QED BY <1>1, <1>7, <1>8

LEMMA TickGrows ==
    ASSUME Types, Tick
    PROVE  Grows /\ Types' /\ UNCHANGED <<session, cursor>>
<1>1. /\ now \in Nat /\ now' = now + 1 /\ now' \in Times
      /\ UNCHANGED <<feed, cursor, stored, owed, lock, session>>
  BY TypeFacts, Settings DEF Tick, Times
<1>2. FeedOK'
  <2>1. 0..now \subseteq 0..now'
    BY <1>1
  <2>2. [time : 0..now, by : Actors] \subseteq [time : 0..now', by : Actors]
    BY <2>1
  <2>3. feed \in Seq([time : 0..now', by : Actors])
    BY <2>2, SeqMonotonic DEF Types, FeedOK
  <2> QED BY <1>1, <2>3 DEF Types, FeedOK
<1>3. cursor' \in [Actors -> {None} \cup 0..now']
  BY <1>1 DEF Types
<1> QED BY <1>1, <1>2, <1>3 DEF Types, Grows

-----------------------------------------------------------------------------
LEMMA SyncInit == Init => SyncInv
<1> SUFFICES ASSUME Init PROVE SyncInv
  OBVIOUS
<1>1. feed = <<>> /\ now = 0 /\ owed = {} /\ stored = {} /\ now \in Times /\ DOMAIN feed = {}
  BY Settings DEF Init, Times
<1>2. feed \in Seq([time : 0..now, by : Actors])
  BY <1>1
<1>3. Idle.phase = "idle" /\ Idle.found = {}
  BY DEF Idle
<1>4. session \in [Clients -> Poll] /\ \A s \in Clients : session[s] = Idle /\ lock # s
  BY IdleIsPoll, TodoAssumption DEF Init
<1>5. Types
  BY <1>1, <1>2, <1>3, <1>4 DEF Init, Types, FeedOK
<1> QED BY <1>1, <1>3, <1>4, <1>5 DEF SyncInv, NothingLost, PollOK

LEMMA SyncStep == SyncInv /\ [Next]_vars => SyncInv'
<1> SUFFICES ASSUME SyncInv, [Next]_vars PROVE SyncInv'
  OBVIOUS
<1>1. ASSUME NEW s \in Clients, Types', PollOK(session[s])', Others(s), Grows, NothingLost'
      PROVE  SyncInv'
  BY <1>1, OthersOK DEF SyncInv, Others
<1>2. ASSUME Types', Grows, UNCHANGED <<session, cursor>>
      PROVE  SyncInv'
  BY <1>2, OthersOK, NewsOK DEF SyncInv
<1>3. ASSUME NEW s \in Clients, NEW a \in Actors, Begin(s, a)
      PROVE  SyncInv'
  BY <1>1, <1>3, BeginOK, StandsStill, NewsOK DEF Begin, SyncInv
<1>4. ASSUME NEW s \in Clients, ReadFeed(s) \/ Crawl(s)
      PROVE  SyncInv'
  BY <1>1, <1>4, ReadFeedOK, CrawlOK, StandsStill, NewsOK DEF ReadFeed, Crawl, SyncInv
<1>5. ASSUME NEW s \in Clients, Insert(s)
      PROVE  SyncInv'
  BY <1>1, <1>5, InsertOK, StandsStill, NewsOK DEF Insert, SyncInv
<1>6. ASSUME NEW s \in Clients, Commit(s)
      PROVE  SyncInv'
  BY <1>1, <1>6, CommitOK, StandsStill DEF Commit, SyncInv
<1>7. ASSUME NEW s \in Clients, Abandon(s)
      PROVE  SyncInv'
  BY <1>1, <1>7, AbandonOK, StandsStill, NewsOK DEF Abandon, SyncInv
<1>8. ASSUME NEW s \in Clients, FailInserting(s)
      PROVE  SyncInv'
  BY <1>1, <1>8, FailInsertingOK, StandsStill, NewsOK DEF FailInserting, SyncInv
<1>9. ASSUME NEW s \in Clients, Fail(s) \/ Query(s)
      PROVE  SyncInv'
  <2>1. CASE Fail(s) \/ (Raise(s) /\ Abandon(s))
    BY <1>7, <2>1 DEF Fail
  <2>2. CASE UNCHANGED todoVars
    <3>1. Types'
      BY <2>2 DEF todoVars, SyncInv, Types, FeedOK, Times
    <3> QED BY <1>2, <2>2, <3>1, StandsStill DEF todoVars, SyncInv
  <2> QED BY <1>9, <2>1, <2>2 DEF Query
<1>10. ASSUME NEW a \in Actors, Happen(a)
       PROVE  SyncInv'
  BY <1>2, <1>10, HappenGrows DEF SyncInv
<1>11. CASE Tick
  BY <1>2, <1>11, TickGrows DEF SyncInv
<1>12. CASE UNCHANGED vars
  <2>1. Types'
    BY <1>12 DEF vars, todoVars, SyncInv, Types, FeedOK, Times
  <2> QED BY <1>2, <1>12, <2>1, StandsStill DEF vars, todoVars, SyncInv
<1> QED BY <1>3, <1>4, <1>5, <1>6, <1>8, <1>9, <1>10, <1>11, <1>12 DEF Next

-----------------------------------------------------------------------------

\* What the polls of a Spec's behaviour rest on, in every state.
THEOREM SyncInvariant == Spec => []SyncInv
BY SyncInit, SyncStep, PTL DEF Spec

\* The cursor that a poll leaves behind is the time before its first query: no
\* event is lost between two polls of _fetch_from_activity_feed, whatever the
\* sessions, the page size, the number of pages and the overlap.
THEOREM NoGap == Spec => []NothingLost
<1>1. SyncInv => NothingLost
  BY DEF SyncInv
<1> QED BY <1>1, SyncInvariant, PTL

-----------------------------------------------------------------------------
(* The attempts of the queries. *)
ClientStep ==
    \/ \E c \in Clients : Answered(c) \/ Retry(c) \/ Raise(c)
    \/ UNCHANGED clientVars

LEMMA StepsOfClient == [Next]_vars => ClientStep
<1> SUFFICES ASSUME [Next]_vars PROVE ClientStep
  OBVIOUS
<1>1. ASSUME NEW s \in Clients, NEW a \in Actors, Begin(s, a)
      PROVE  ClientStep
  BY <1>1 DEF Begin, ClientStep, clientVars
<1>2. ASSUME NEW s \in Clients, ReadFeed(s) \/ Crawl(s) \/ Fail(s)
      PROVE  ClientStep
  BY <1>2 DEF ReadFeed, Crawl, Fail, ClientStep
<1>3. ASSUME NEW s \in Clients, Insert(s) \/ Commit(s) \/ FailInserting(s)
      PROVE  ClientStep
  BY <1>3 DEF Insert, Commit, FailInserting, ClientStep, clientVars
<1>4. ASSUME NEW s \in Clients, Query(s)
      PROVE  ClientStep
  BY <1>4 DEF Query, ClientStep
<1>5. ASSUME NEW a \in Actors, Happen(a)
      PROVE  ClientStep
  BY <1>5 DEF Happen, ClientStep, clientVars
<1>6. CASE Tick
  BY <1>6 DEF Tick, ClientStep, clientVars
<1>7. CASE UNCHANGED vars
  BY <1>7 DEF vars, ClientStep
<1> QED BY <1>1, <1>2, <1>3, <1>4, <1>5, <1>6, <1>7 DEF Next

LEMMA FaultsOf ==
    ASSUME NEW n \in Nat, NEW S \in SUBSET (1..n)
    PROVE  IsFiniteSet(S) /\ Cardinality(S) \in Nat /\ Cardinality(S) <= n
<1>1. IsFiniteSet(1..n) /\ Cardinality(1..n) = n
  BY FS_Interval
<1> QED BY <1>1, FS_Subset, FS_CardinalityType

\* One fault more, and whom it is charged to.
LEMMA AnotherFault ==
    ASSUME NEW n \in Nat, NEW S \in SUBSET (1..n)
    PROVE  /\ S \cup {n + 1} \subseteq 1..(n + 1)
           /\ Cardinality(S \cup {n + 1}) = Cardinality(S) + 1
BY FaultsOf, FS_AddElement

LEMMA InductionUpTo ==
    ASSUME NEW n \in Nat, NEW P, 0 \in P, \A k \in 0..(n - 1) : k \in P => k + 1 \in P
    PROVE  0..n \subseteq P
<1> SUFFICES ASSUME NEW T, T = (0..n) \ P, T # {}
             PROVE  FALSE
  OBVIOUS
<1>0. T \subseteq Nat
  OBVIOUS
<1>1. PICK k \in T : \A m \in T : ~(<<m, k>> \in OpToRel(<, Nat))
  BY <1>0, NatLessThanWellFounded, WFMin
<1>2. \A m \in T : ~(m < k)
  BY <1>0, <1>1 DEF OpToRel
<1>3. k # 0 /\ k - 1 \in 0..(n - 1) /\ k - 1 \notin T
  BY <1>2
<1> QED BY <1>3

\* The pauses are what their recursion says: there are such numbers.
LEMMA Pauses ==
    /\ Pause \in [0..MaxRetries -> Nat] /\ Pause[0] = 1
    /\ \A n \in 0..(MaxRetries - 1) : Pause[n + 1] = 2 * Pause[n]
<1>0. MaxRetries \in Nat
  BY ClientAssumption
<1> DEFINE Fix(h) == h = [n \in 0..MaxRetries |-> IF n = 0 THEN 1 ELSE 2 * h[n - 1]]
           Good == {k \in 0..MaxRetries :
                       \E g \in [0..k -> Nat] :
                           g[0] = 1 /\ \A n \in 1..k : g[n] = 2 * g[n - 1]}
<1>1. MaxRetries \in Good
  <2>1. 0 \in Good
    <3> DEFINE g == [n \in 0..0 |-> 1]
    <3>1. g \in [0..0 -> Nat] /\ g[0] = 1 /\ \A n \in 1..0 : g[n] = 2 * g[n - 1]
      OBVIOUS
    <3> HIDE DEF g
    <3> QED BY <1>0, <3>1
  <2>2. ASSUME NEW k \in 0..(MaxRetries - 1), k \in Good
        PROVE  k + 1 \in Good
    <3>1. PICK g \in [0..k -> Nat] : g[0] = 1 /\ \A n \in 1..k : g[n] = 2 * g[n - 1]
      BY <2>2
    <3>2. k \in Nat /\ k \in 0..k /\ g[k] \in Nat /\ k + 1 \in 0..MaxRetries
      BY <1>0
    <3> DEFINE h == [n \in 0..(k + 1) |-> IF n = k + 1 THEN 2 * g[k] ELSE g[n]]
    <3>3. \A n \in 0..k : h[n] = g[n]
      BY <3>2
    <3>4. h[k + 1] = 2 * h[k]
      BY <3>2
    <3>5. h \in [0..(k + 1) -> Nat]
      BY <3>2
    <3> HIDE DEF h
    <3>6. h[0] = 1 /\ \A n \in 1..(k + 1) : h[n] = 2 * h[n - 1]
      <4>1. \A n \in 1..k : n \in 0..k /\ n - 1 \in 0..k
        BY <3>2
      <4>2. \A n \in 1..k : h[n] = 2 * h[n - 1]
        BY <3>1, <3>3, <4>1
      <4>3. (k + 1) - 1 = k /\ 0 \in 0..k /\ \A n \in 1..(k + 1) : n = k + 1 \/ n \in 1..k
        BY <3>2
      <4> QED BY <3>1, <3>3, <3>4, <4>2, <4>3
    <3> QED BY <3>2, <3>5, <3>6
  <2>3. 0..MaxRetries \subseteq Good
    <3> HIDE DEF Good
    <3> QED BY <1>0, <2>1, <2>2, InductionUpTo
  <2>4. MaxRetries \in 0..MaxRetries
    BY <1>0
  <2> HIDE DEF Good
  <2> QED BY <2>3, <2>4
<1>2. PICK g \in [0..MaxRetries -> Nat] :
        g[0] = 1 /\ \A n \in 1..MaxRetries : g[n] = 2 * g[n - 1]
  BY <1>1
<1>3. Fix(g)
  BY <1>0, <1>2
<1>4. Fix(Pause)
  <2> HIDE DEF Fix
  <2>1. Fix(CHOOSE h : Fix(h))
    BY <1>3
  <2> USE DEF Fix
  <2> QED BY <2>1 DEF Pause
<1> HIDE DEF Good
<1> DEFINE Right == {n \in 0..MaxRetries : Pause[n] \in Nat}
<1>5. Pause[0] = 1 /\ \A n \in 0..(MaxRetries - 1) : Pause[n + 1] = 2 * Pause[n]
  BY <1>0, <1>4
<1>6. 0..MaxRetries \subseteq Right
  <2>1. 0 \in Right
    BY <1>0, <1>5
  <2>2. \A n \in 0..(MaxRetries - 1) : n \in Right => n + 1 \in Right
    BY <1>0, <1>5
  <2> HIDE DEF Right
  <2> QED BY <1>0, <2>1, <2>2, InductionUpTo
<1>7. Pause \in [0..MaxRetries -> Nat]
  BY <1>4, <1>6
<1> QED BY <1>5, <1>7

\* They grow.
LEMMA LastPauseIsLongest == \A n \in 0..MaxRetries : Pause[n] <= Pause[MaxRetries]
<1>0. MaxRetries \in Nat
  BY ClientAssumption
<1> DEFINE Right == {k \in 0..MaxRetries : \A n \in 0..k : Pause[n] <= Pause[k]}
<1>1. 0 \in Right
  BY <1>0, Pauses
<1>2. ASSUME NEW k \in 0..(MaxRetries - 1), k \in Right
      PROVE  k + 1 \in Right
  <2>1. k \in 0..MaxRetries /\ k + 1 \in 0..MaxRetries /\ k \in Nat
    BY <1>0
  <2>2. Pause[k] \in Nat /\ Pause[k + 1] = 2 * Pause[k] /\ Pause[k + 1] \in Nat
    BY <2>1, Pauses
  <2>3. ASSUME NEW n \in 0..(k + 1)
        PROVE  Pause[n] <= Pause[k + 1]
    <3>1. CASE n = k + 1
      BY <2>2, <3>1
    <3>2. CASE n # k + 1
      <4>1. n \in 0..k /\ n \in 0..MaxRetries
        BY <1>0, <2>1, <3>2
      <4>2. Pause[n] <= Pause[k]
        BY <1>2, <4>1
      <4>3. Pause[n] \in Nat
        BY <4>1, Pauses
      <4> QED BY <2>2, <4>2, <4>3
    <3> QED BY <3>1, <3>2
  <2> QED BY <2>1, <2>3
<1>3. 0..MaxRetries \subseteq Right
  <2> HIDE DEF Right
  <2> QED BY <1>0, <1>1, <1>2, InductionUpTo
<1> QED BY <1>0, <1>3

LEMMA ChargedInit == ClientInit => ClientInv
<1> SUFFICES ASSUME ClientInit PROVE ClientInv
  OBVIOUS
<1>1. MaxRetries \in Nat /\ MaxFaults \in Nat
  BY ClientAssumption
<1>2. ClientTypeOK
  BY <1>1 DEF ClientInit, ClientTypeOK
<1> DEFINE charge == [c \in Clients |-> {}]
<1>3. /\ charge \in [Clients -> SUBSET (1..faults)] /\ {} \in SUBSET (1..faults)
      /\ \A c \in Clients : Cardinality(charge[c]) = attempt[c] /\ charge[c] = {}
      /\ Cardinality({}) = raised * (MaxRetries + 1)
  BY <1>1, FS_EmptySet DEF ClientInit
<1>4. Charged
  BY <1>3 DEF Charged
<1>5. Paused
  <2>1. \A c \in Clients : attempt[c] = 0 /\ slept[c] = 0
    BY DEF ClientInit
  <2>2. Pause[0] - 1 = 0
    BY Pauses
  <2> QED BY <2>1, <2>2 DEF Paused
<1> QED BY <1>2, <1>4, <1>5 DEF ClientInv

LEMMA ChargedStep == ClientInv /\ ClientStep => ClientInv'
<1> SUFFICES ASSUME ClientInv, ClientStep PROVE ClientInv'
  OBVIOUS
<1>1. MaxRetries \in Nat /\ MaxFaults \in Nat
  BY ClientAssumption
<1>2. /\ attempt \in [Clients -> 0..MaxRetries] /\ slept \in [Clients -> Nat] /\ Paused
      /\ faults \in Nat /\ faults <= MaxFaults /\ raised \in Nat
  BY <1>1 DEF ClientInv, ClientTypeOK
<1>3. PICK charge \in [Clients -> SUBSET (1..faults)], paid \in SUBSET (1..faults) :
        /\ \A c \in Clients : Cardinality(charge[c]) = attempt[c] /\ charge[c] \cap paid = {}
        /\ \A c, d \in Clients : c # d => charge[c] \cap charge[d] = {}
        /\ Cardinality(paid) = raised * (MaxRetries + 1)
  BY DEF ClientInv, Charged
<1>4. ASSUME NEW c \in Clients, Answered(c)
      PROVE  ClientInv'
  <2> DEFINE other == [charge EXCEPT ![c] = {}]
  <2>1. ClientTypeOK'
    BY <1>1, <1>2, <1>4 DEF Answered, Reset, ClientTypeOK
  <2>2. /\ faults' = faults /\ raised' = raised
        /\ other \in [Clients -> SUBSET (1..faults)]
        /\ \A d \in Clients : Cardinality(other[d]) = attempt'[d] /\ other[d] \cap paid = {}
        /\ \A d, e \in Clients : d # e => other[d] \cap other[e] = {}
    BY <1>2, <1>3, <1>4, FS_EmptySet DEF Answered, Reset
  <2>3. Charged'
    BY <1>3, <2>2 DEF Charged
  <2>4. Paused'
    BY <1>2, <1>4, Pauses DEF Answered, Reset, Paused
  <2> QED BY <2>1, <2>3, <2>4 DEF ClientInv
<1>5. ASSUME NEW c \in Clients, Retry(c)
      PROVE  ClientInv'
  <2> DEFINE n == faults + 1
             other == [charge EXCEPT ![c] = charge[c] \cup {n}]
  <2>1. /\ faults < MaxFaults /\ attempt[c] < MaxRetries
        /\ attempt' = [attempt EXCEPT ![c] = attempt[c] + 1]
        /\ slept' = [slept EXCEPT ![c] = slept[c] + Pause[attempt[c]]]
        /\ faults' = n /\ raised' = raised
    BY <1>2, <1>5 DEF Retry
  <2>2. /\ attempt[c] \in Nat /\ Pause[attempt[c]] \in Nat
        /\ Pause[attempt[c] + 1] = 2 * Pause[attempt[c]]
    BY <1>1, <1>2, <2>1, Pauses
  <2>3. ClientTypeOK'
    BY <1>1, <1>2, <2>1, <2>2 DEF ClientTypeOK
  <2>4. 1..faults \subseteq 1..n /\ n \notin 1..faults
    BY <1>2
  <2>5. charge[c] \cup {n} \subseteq 1..n /\ Cardinality(charge[c] \cup {n}) = attempt[c] + 1
    BY <1>2, <1>3, AnotherFault
  <2>6. other \in [Clients -> SUBSET (1..n)] /\ paid \in SUBSET (1..n)
    BY <2>4, <2>5
  <2>7. \A d \in Clients : Cardinality(other[d]) = attempt'[d] /\ other[d] \cap paid = {}
    BY <1>2, <1>3, <2>1, <2>4, <2>5
  <2>8. \A d, e \in Clients : d # e => other[d] \cap other[e] = {}
    BY <1>3, <2>4
  <2> HIDE DEF other
  <2>9. Charged'
    BY <1>3, <2>1, <2>6, <2>7, <2>8 DEF Charged
  <2>10. Paused'
    <3> SUFFICES ASSUME NEW d \in Clients PROVE slept'[d] = Pause[attempt'[d]] - 1
      BY DEF Paused
    <3>1. slept[d] = Pause[attempt[d]] - 1
      BY <1>2 DEF Paused
    <3>2. CASE d = c
      <4>1. slept'[c] = slept[c] + Pause[attempt[c]] /\ attempt'[c] = attempt[c] + 1
        BY <1>2, <2>1
      <4> QED BY <2>2, <3>1, <3>2, <4>1
    <3>3. CASE d # c
      BY <1>2, <2>1, <3>1, <3>3
    <3> QED BY <3>2, <3>3
  <2> QED BY <2>3, <2>9, <2>10 DEF ClientInv
<1>6. ASSUME NEW c \in Clients, Raise(c)
      PROVE  ClientInv'
  <2> DEFINE n == faults + 1
             bill == charge[c] \cup {n}
             other == [charge EXCEPT ![c] = {}]
             all == paid \cup bill
  <2>1. /\ faults < MaxFaults /\ attempt[c] = MaxRetries
        /\ attempt' = [attempt EXCEPT ![c] = 0] /\ slept' = [slept EXCEPT ![c] = 0]
        /\ faults' = n /\ raised' = raised + 1
    BY <1>6 DEF Raise, Reset
  <2>2. ClientTypeOK'
    BY <1>1, <1>2, <2>1 DEF ClientTypeOK
  <2>3. 1..faults \subseteq 1..n /\ n \notin 1..faults /\ n \in Nat
    BY <1>2
  <2>4. bill \subseteq 1..n /\ Cardinality(bill) = MaxRetries + 1
    BY <1>2, <1>3, <2>1, AnotherFault
  <2>5. Cardinality(all) = (raised + 1) * (MaxRetries + 1)
    <3>1. paid \cap bill = {} /\ paid \subseteq 1..n
      BY <1>3, <2>3
    <3>2. Cardinality(all) = Cardinality(paid) + Cardinality(bill) - Cardinality({})
      BY <2>3, <2>4, <3>1, FaultsOf, FS_Union
    <3>3. Cardinality(all) = raised * (MaxRetries + 1) + (MaxRetries + 1)
      BY <1>1, <1>2, <1>3, <2>4, <3>2, FS_EmptySet
    <3> QED BY <1>1, <1>2, <3>3
  <2>6. other \in [Clients -> SUBSET (1..n)] /\ all \in SUBSET (1..n)
    BY <2>3, <2>4
  <2>7. \A d \in Clients : Cardinality(other[d]) = attempt'[d] /\ other[d] \cap all = {}
    BY <1>2, <1>3, <2>1, <2>3, FS_EmptySet
  <2>8. \A d, e \in Clients : d # e => other[d] \cap other[e] = {}
    BY <1>3
  <2> HIDE DEF other, all
  <2>9. Charged'
    BY <2>1, <2>5, <2>6, <2>7, <2>8 DEF Charged
  <2>10. Paused'
    BY <1>2, <2>1, Pauses DEF Paused
  <2> QED BY <2>2, <2>9, <2>10 DEF ClientInv
<1>7. CASE UNCHANGED clientVars
  BY <1>7 DEF clientVars, ClientInv, ClientTypeOK, Charged, Paused
<1> QED BY <1>4, <1>5, <1>6, <1>7 DEF ClientStep

LEMMA ChargedAlways == Spec => []ClientInv
<1>1. Init => ClientInv
  BY ChargedInit DEF Init
<1>2. ClientInv /\ [Next]_vars => ClientInv'
  BY ChargedStep, StepsOfClient
<1> QED BY <1>1, <1>2, PTL DEF Spec

\* SourceHutGraphQLClient gives a query up only after max_retries + 1 failed
\* attempts of that very query, for any number of them and of clients that run
\* at a time: every fault of Clients is charged to one query.
THEOREM GivesUpLate == Spec => []FaultsAreRidden
<1>1. ClientInv => FaultsAreRidden
  <2> SUFFICES ASSUME ClientInv PROVE FaultsAreRidden
    OBVIOUS
  <2>1. faults \in Nat
    BY ClientAssumption DEF ClientInv, ClientTypeOK
  <2>2. PICK paid \in SUBSET (1..faults) : Cardinality(paid) = raised * (MaxRetries + 1)
    BY DEF ClientInv, Charged
  <2> QED BY <2>1, <2>2, FaultsOf DEF FaultsAreRidden
<1> QED BY <1>1, ChargedAlways, PTL

\* The pauses between the attempts of SourceHutGraphQLClient.execute add up to
\* less than 2 ** max_retries seconds, for any number of retries: that long the
\* client keeps SQLite's write lock beyond the requests themselves.
THEOREM PausesShort == Spec => []PausesAreShort
<1>1. ClientInv => PausesAreShort
  <2> SUFFICES ASSUME ClientInv, NEW c \in Clients
               PROVE  slept[c] < Pause[MaxRetries]
    BY DEF PausesAreShort
  <2>1. attempt[c] \in 0..MaxRetries /\ slept[c] = Pause[attempt[c]] - 1
    BY DEF ClientInv, ClientTypeOK, Paused
  <2>2. /\ Pause[attempt[c]] \in Nat /\ Pause[MaxRetries] \in Nat
        /\ Pause[attempt[c]] <= Pause[MaxRetries]
    BY <2>1, Pauses, LastPauseIsLongest, ClientAssumption
  <2> QED BY <2>1, <2>2
<1> QED BY <1>1, ChargedAlways, PTL

\* The types of the todo poll, the lock that one session at most holds, and no
\* event of the feed read that is not in it.
THEOREM SyncTypes == Spec => []TypeOK
<1>1. SyncInv /\ ClientInv => TypeOK
  <2> SUFFICES ASSUME SyncInv, ClientInv PROVE TypeOK
    OBVIOUS
  <2>1. ASSUME NEW s \in Clients
        PROVE  /\ session[s].phase \in Phases /\ session[s].page \in 0..FeedPages
               /\ session[s].found \subseteq DOMAIN feed
    BY Settings DEF SyncInv, Types, Poll, PollOK
  <2> QED BY <2>1 DEF SyncInv, Types, FeedOK, ClientInv, TypeOK, Phases
<1> QED BY <1>1, SyncInvariant, ChargedAlways, PTL
=============================================================================
