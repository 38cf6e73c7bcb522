---------------------------- MODULE GitSyncProofs ----------------------------
(***************************************************************************)
(* No commit falls between two incremental polls of git.sr.ht, for any     *)
(* repositories, branches, page sizes, life of the cache and overlap, but  *)
(* for those that the overlap is too short for (TooLate).                  *)
(*                                                                         *)
(* A repository that a poll knows is on its list: either it is tracked, or *)
(* it was public before the discovery of the cache (KnowsPublished).  What *)
(* the poll has not read of it was pushed after the poll began, and the    *)
(* overlap takes the next one back to there (Fetched).                     *)
(***************************************************************************)
EXTENDS GitSync, SequenceTheorems, TLAPS

Phases == {"idle", "discover", "listed", "fetch"}

LogEntries(t) == [written : 0..t, pushed : 0..t]

CacheEntries == [at : 0..now, repositories : SUBSET Public]

Polls == [phase : Phases, begun : 0..now, cache : CacheEntries,
          queue : SUBSET Repositories, fetched : SUBSET Pushed, passed : SUBSET Pushed]

Types ==
    /\ now \in Times /\ cursor \in 0..now
    /\ log \in [Branches -> Seq(LogEntries(now))]
    /\ published \in [Owned -> {Never} \cup 0..now] /\ tracked \subseteq Repositories
    /\ stored \subseteq Pushed /\ owed \subseteq Pushed
    /\ cache \in CacheEntries
    /\ poll \in Polls

\* What follows on a branch was pushed later.
InOrder(l) == \A b \in Branches : \A i, j \in DOMAIN l[b] : i <= j => l[b][i].pushed <= l[b][j].pushed

\* A cache has what was public before it was made.
KnowsPublished(e) == \A r \in Public : published[r] < e.at => r \in e.repositories

\* What the steps of a poll find.
PollOK ==
    /\ KnowsPublished(cache) /\ KnowsPublished(poll.cache)
    /\ poll.phase = "listed" => poll.queue \subseteq Public
    /\ poll.phase \in {"discover", "listed"} => poll.fetched = {} /\ poll.passed = {}

Listed ==
    poll.phase = "listed" => \A r \in Public : published[r] < poll.begun => r \in poll.queue

\* In log l, commit c of its branch and all that follow it were written at t or later.
Clean(l, c, t) == \A j \in c[2]..Len(l[c[1]]) : l[c[1]][j].written >= t

RepoOf(c) == RepositoryOf[c[1]]

\* The next poll will read all that is owed, if it is of a repository that is polled.
InReach == \A c \in owed : Clean(log, c, Since)

\* What a poll leaves behind in the repositories it knows was pushed after it began.
Fetched ==
    poll.phase = "fetch" =>
        \A c \in owed : Known(RepoOf(c)) =>
            \/ RepoOf(c) \in poll.queue \/ c \in poll.fetched \cup poll.passed
            \/ log[c[1]][c[2]].pushed >= poll.begun

SyncInv == Types /\ InOrder(log) /\ PollOK /\ Listed /\ InReach /\ Fetched

-----------------------------------------------------------------------------
LEMMA Settings ==
    /\ {LogPage, LogPages} \subseteq Nat \ {0}
    /\ TTL \in Nat /\ Overlap \in Nat /\ MaxCommits \in Nat /\ MaxClock \in Nat
    /\ Owned \subseteq Repositories /\ Configured \subseteq Repositories
BY WorldAssumption

LEMMA LogFacts ==
    ASSUME NEW n \in Times, NEW l \in [Branches -> Seq(LogEntries(n))], NEW b \in Branches
    PROVE  /\ n \in Nat /\ Len(l[b]) \in Nat /\ DOMAIN l[b] = 1..Len(l[b])
           /\ \A j \in 1..Len(l[b]) :
                 /\ l[b][j].written \in Nat /\ l[b][j].written <= n
                 /\ l[b][j].pushed \in Nat /\ l[b][j].pushed <= n
<1>1. n \in Nat /\ l[b] \in Seq(LogEntries(n))
  BY Settings DEF Times
<1>2. \A j \in 1..Len(l[b]) : l[b][j] \in LogEntries(n)
  BY <1>1, ElementOfSeq
<1>3. \A e \in LogEntries(n) :
        e.written \in Nat /\ e.written <= n /\ e.pushed \in Nat /\ e.pushed <= n
  BY <1>1 DEF LogEntries
<1> QED BY <1>1, <1>2, <1>3, LenProperties

LEMMA TypeFacts ==
    ASSUME Types
    PROVE  /\ now \in Nat /\ cursor \in Nat /\ cursor <= now
           /\ Since \in Int /\ (Since <= 0 \/ Since <= now - Overlap)
           /\ cache.at \in Nat /\ cache.at <= now /\ cache.repositories \subseteq Public
           /\ poll.begun \in Nat /\ poll.begun <= now
           /\ \A r \in Owned : published[r] \in Int /\ published[r] <= now
           /\ Public \subseteq Owned /\ \A r \in Public : published[r] \in Nat
           /\ \A c \in owed : c \in Commits /\ c[1] \in Branches /\ c[2] \in DOMAIN log[c[1]]
<1>1. now \in Nat /\ cursor \in Nat /\ cursor <= now
  BY Settings DEF Types, Times
<1>2. Since \in Int /\ (Since <= 0 \/ Since <= now - Overlap)
  BY <1>1, Settings DEF Since
<1>3. \A e \in CacheEntries : e.at \in Nat /\ e.at <= now /\ e.repositories \subseteq Public
  BY <1>1 DEF CacheEntries
<1>4. cache \in CacheEntries /\ poll.begun \in 0..now
  BY DEF Types, Polls
<1>5. \A c \in owed : c \in Commits /\ c[2] \in DOMAIN log[c[1]]
  BY DEF Types, Pushed
<1>6. \A c \in Commits : c[1] \in Branches
  BY DEF Commits
<1>7. \A r \in Owned : published[r] \in {Never} \cup 0..now
  BY DEF Types
<1>8. \A r \in Owned : published[r] \in Int /\ published[r] <= now
  BY <1>1, <1>7 DEF Never
<1>9. Public \subseteq Owned /\ \A r \in Public : published[r] \in Nat
  BY <1>1, <1>7 DEF Public
<1> QED BY <1>1, <1>2, <1>3, <1>4, <1>5, <1>6, <1>8, <1>9

\* Whatever a poll is bound to read is on its list, whether that is from a cache
\* young enough or from a discovery of its own.
LEMMA KnownIsSelected ==
    ASSUME Types, NEW D, NEW t \in Int, t >= poll.begun - TTL,
           \A r \in Public : published[r] < t => r \in D
    PROVE  \A r : Known(r) => r \in Selected(D)
<1>1. \A r \in Public : published[r] \in Int
  BY TypeFacts
<1>2. TTL \in Nat /\ poll.begun \in Int
  BY TypeFacts, Settings
<1> QED BY <1>1, <1>2 DEF Known, Selected

-----------------------------------------------------------------------------
(* The steps of a poll but the last: only the poll changes. *)
LEMMA OnlyPoll ==
    ASSUME SyncInv, poll' \in Polls, KnowsPublished(poll'.cache),
           UNCHANGED <<now, log, published, tracked, cache, cursor, stored, owed>>
    PROVE  Types' /\ InOrder(log)' /\ InReach' /\ KnowsPublished(cache)' /\ KnowsPublished(poll.cache)'
<1>1. Pushed' = Pushed /\ CacheEntries' = CacheEntries /\ Polls' = Polls /\ Public' = Public
  BY DEF Pushed, CacheEntries, Polls, Public
<1>2. Types'
  BY <1>1 DEF SyncInv, Types
<1> QED BY <1>1, <1>2 DEF SyncInv, PollOK, InOrder, InReach, Since, KnowsPublished

LEMMA EmptyCache ==
    ASSUME Types
    PROVE  NoCache \in CacheEntries /\ KnowsPublished(NoCache)
<1>1. NoCache \in CacheEntries
  BY TypeFacts DEF NoCache, CacheEntries
<1>2. NoCache.at = 0
  BY DEF NoCache
<1> QED BY <1>1, <1>2, TypeFacts DEF KnowsPublished

LEMMA IdleIsPoll ==
    ASSUME Types
    PROVE  Idle \in Polls
BY TypeFacts, EmptyCache DEF Idle, Polls, Phases

LEMMA SelectedFacts ==
    ASSUME Types, NEW D \in SUBSET Public
    PROVE  Selected(D) \in SUBSET Repositories
BY Settings, TypeFacts DEF Types, Selected

LEMMA BeginOK ==
    ASSUME SyncInv, Begin
    PROVE  SyncInv'
<1> DEFINE fetch == [Idle EXCEPT !.phase = "fetch", !.begun = now, !.cache = cache,
                                 !.queue = Selected(cache.repositories)]
           discover == [Idle EXCEPT !.phase = "discover", !.begun = now]
<1>1. /\ UNCHANGED <<now, log, published, tracked, cache, cursor, stored, owed>>
      /\ poll' = IF Fresh THEN fetch ELSE discover
  BY DEF Begin
<1>2. Types /\ now \in Nat /\ cache \in CacheEntries /\ KnowsPublished(cache)
  BY TypeFacts DEF SyncInv, Types, PollOK
<1>3. CASE Fresh
  <2>1. cache.repositories \in SUBSET Public /\ cache.at \in Nat /\ cache.at > now - TTL
    BY <1>2, <1>3, TypeFacts DEF Fresh
  <2>2. fetch \in Polls
    <3>1. Selected(cache.repositories) \in SUBSET Repositories
      BY <1>2, <2>1, SelectedFacts
    <3>2. Idle \in Polls /\ now \in 0..now
      BY <1>2, IdleIsPoll
    <3> QED BY <1>2, <3>1, <3>2 DEF Polls, Phases
  <2>3. /\ fetch.phase = "fetch" /\ fetch.begun = now /\ fetch.cache = cache
        /\ fetch.queue = Selected(cache.repositories)
    BY DEF Idle
  <2> HIDE DEF fetch
  <2>4. poll' = fetch
    BY <1>1, <1>3
  <2>5. Types' /\ InOrder(log)' /\ InReach' /\ KnowsPublished(cache)' /\ KnowsPublished(poll.cache)'
    BY <1>1, <1>2, <2>2, <2>3, <2>4, OnlyPoll
  <2>6. PollOK' /\ Listed'
    BY <2>3, <2>4, <2>5 DEF PollOK, Listed
  <2>7. Fetched'
    <3> SUFFICES ASSUME NEW r, Known(r)' PROVE r \in poll'.queue
      BY DEF Fetched
    <3>1. CASE r \in Configured \cup tracked
      BY <2>3, <2>4, <3>1 DEF Selected
    <3>2. CASE r \in Public /\ published[r] < now - TTL
      <4>1. published[r] < cache.at
        BY <1>2, <2>1, <3>2, TypeFacts, Settings
      <4> QED BY <1>2, <2>3, <2>4, <3>2, <4>1 DEF KnowsPublished, Selected
    <3> QED BY <1>1, <2>3, <2>4, <3>1, <3>2 DEF Known, Public
  <2> QED BY <2>5, <2>6, <2>7 DEF SyncInv
<1>4. CASE ~Fresh
  <2>1. discover \in Polls
    <3>1. Idle \in Polls /\ now \in 0..now
      BY <1>2, IdleIsPoll
    <3> QED BY <3>1 DEF Polls, Phases
  <2>2. /\ discover.phase = "discover" /\ discover.cache = NoCache
        /\ discover.fetched = {} /\ discover.passed = {}
    BY DEF Idle
  <2> HIDE DEF discover
  <2>3. poll' = discover
    BY <1>1, <1>4
  <2>4. Types' /\ InOrder(log)' /\ InReach' /\ KnowsPublished(cache)' /\ KnowsPublished(poll.cache)'
    BY <1>1, <1>2, <2>1, <2>2, <2>3, OnlyPoll, EmptyCache
  <2>5. PollOK' /\ Listed' /\ Fetched'
    BY <2>2, <2>3, <2>4 DEF PollOK, Listed, Fetched
  <2> QED BY <2>4, <2>5 DEF SyncInv
<1> QED BY <1>3, <1>4

LEMMA DiscoverOK ==
    ASSUME SyncInv, Discover
    PROVE  SyncInv'
<1> DEFINE q == [poll EXCEPT !.phase = "listed", !.queue = Public]
<1>1. /\ UNCHANGED <<now, log, published, tracked, cache, cursor, stored, owed>>
      /\ poll.phase = "discover" /\ poll' = q /\ poll \in Polls /\ Types /\ Public' = Public
  BY DEF Discover, SyncInv, Types, Public
<1>2. Public \in SUBSET Repositories
  BY <1>1, Settings, TypeFacts
<1>3. /\ q \in Polls /\ q.phase = "listed" /\ q.queue = Public
      /\ q.cache = poll.cache /\ q.fetched = poll.fetched /\ q.passed = poll.passed
  BY <1>1, <1>2 DEF Polls, Phases
<1> HIDE DEF q
<1>4. Types' /\ InOrder(log)' /\ InReach' /\ KnowsPublished(cache)' /\ KnowsPublished(poll.cache)'
  BY <1>1, <1>3, OnlyPoll DEF SyncInv, PollOK
<1>5. PollOK' /\ Listed' /\ Fetched'
  BY <1>1, <1>3, <1>4 DEF SyncInv, PollOK, Listed, Fetched
<1> QED BY <1>4, <1>5 DEF SyncInv

LEMMA RefreshOK ==
    ASSUME SyncInv, Refresh
    PROVE  SyncInv'
<1> DEFINE q == [poll EXCEPT !.phase = "fetch", !.cache = CacheEntry,
                             !.queue = Selected(poll.queue)]
<1>1. /\ UNCHANGED <<now, log, published, tracked, cache, cursor, stored, owed>>
      /\ poll.phase = "listed" /\ poll' = q /\ poll \in Polls /\ Types
      /\ poll.queue \in SUBSET Public
      /\ \A r \in Public : published[r] < poll.begun => r \in poll.queue
  BY DEF Refresh, SyncInv, Types, PollOK, Listed
<1>2. Selected(poll.queue) \in SUBSET Repositories
  BY <1>1, SelectedFacts
<1>3. CacheEntry \in CacheEntries /\ KnowsPublished(CacheEntry)
  <2>1. CASE poll.queue = {}
    BY <1>1, <2>1, EmptyCache DEF CacheEntry
  <2>2. CASE poll.queue # {}
    BY <1>1, <2>2, TypeFacts DEF CacheEntry, CacheEntries, KnowsPublished
  <2> QED BY <2>1, <2>2
<1>4. /\ q \in Polls /\ q.phase = "fetch" /\ q.queue = Selected(poll.queue)
      /\ q.begun = poll.begun /\ q.cache = CacheEntry
  BY <1>1, <1>2, <1>3 DEF Polls, Phases
<1> HIDE DEF q
<1>5. Types' /\ InOrder(log)' /\ InReach' /\ KnowsPublished(cache)' /\ KnowsPublished(poll.cache)'
  BY <1>1, <1>3, <1>4, OnlyPoll
<1>6. PollOK' /\ Listed'
  BY <1>1, <1>4, <1>5 DEF PollOK, Listed
<1>7. Fetched'
  <2>1. \A r : Known(r) => r \in Selected(poll.queue)
    <3>1. poll.begun \in Int /\ poll.begun >= poll.begun - TTL
      BY <1>1, TypeFacts, Settings
    <3> QED BY <1>1, <3>1, KnownIsSelected
  <2>2. \A r : Known(r)' => Known(r)
    BY <1>1, <1>4 DEF Known, Public
  <2> QED BY <1>1, <1>4, <2>1, <2>2 DEF Fetched
<1> QED BY <1>5, <1>6, <1>7 DEF SyncInv

\* Fetched or passed over, a repository that comes off the queue is done with.
LEMMA TakenOK ==
    ASSUME SyncInv, poll.phase = "fetch", NEW r \in poll.queue,
           UNCHANGED <<now, log, published, tracked, cache, cursor, stored, owed>>,
           NEW F \in SUBSET Pushed, NEW P \in SUBSET Pushed,
           poll' = [poll EXCEPT !.queue = poll.queue \ {r}, !.fetched = poll.fetched \cup F,
                                !.passed = poll.passed \cup P],
           \A c \in owed : RepoOf(c) = r => c \in F \cup P
    PROVE  SyncInv'
<1> DEFINE q == [poll EXCEPT !.queue = poll.queue \ {r}, !.fetched = poll.fetched \cup F,
                             !.passed = poll.passed \cup P]
<1>1. poll' = q /\ poll \in Polls
  BY DEF SyncInv, Types
<1>2. /\ q \in Polls /\ q.phase = "fetch" /\ q.queue = poll.queue \ {r} /\ q.begun = poll.begun
      /\ q.cache = poll.cache /\ q.fetched = poll.fetched \cup F /\ q.passed = poll.passed \cup P
  BY <1>1 DEF Polls
<1> HIDE DEF q
<1>3. Types' /\ InOrder(log)' /\ InReach' /\ KnowsPublished(cache)' /\ KnowsPublished(poll.cache)'
  BY <1>1, <1>2, OnlyPoll DEF SyncInv, PollOK
<1>4. PollOK' /\ Listed'
  BY <1>1, <1>2, <1>3 DEF PollOK, Listed
<1>5. Fetched'
  <2> SUFFICES ASSUME NEW c \in owed', Known(RepoOf(c))', RepoOf(c) \notin poll'.queue,
                      c \notin poll'.fetched \cup poll'.passed
               PROVE  log'[c[1]][c[2]].pushed >= poll'.begun
    BY DEF Fetched, RepoOf
  <2>1. RepoOf(c) \notin poll.queue /\ c \notin poll.fetched \cup poll.passed /\ c \in owed
    BY <1>1, <1>2
  <2>2. Known(RepoOf(c))
    BY <1>1, <1>2 DEF Known, Public
  <2> QED BY <1>1, <1>2, <2>1, <2>2 DEF SyncInv, Fetched
<1> QED BY <1>3, <1>4, <1>5 DEF SyncInv

\* Older commits are on later pages.
LEMMA PagesAreOrdered ==
    ASSUME NEW p \in Nat \ {0}, NEW a \in Int, NEW b \in Int, a <= b
    PROVE  a \div p \in Int /\ a \div p <= b \div p
<1> DEFINE q == a \div p
           r == b \div p
<1>1. q \in Int /\ r \in Int /\ p * q <= a /\ b < p * r + p
  OBVIOUS
<1> HIDE DEF q, r
<1>2. ASSUME q > r PROVE FALSE
  <2>1. q >= r + 1
    BY <1>1, <1>2
  <2>2. p * q >= p * (r + 1)
    BY <1>1, <2>1
  <2>3. p * (r + 1) = p * r + p
    BY <1>1
  <2>4. p * q \in Int /\ p * r \in Int
    BY <1>1
  <2> QED BY <1>1, <2>2, <2>3, <2>4
<1>3. q <= r
  BY <1>1, <1>2
<1> QED BY <1>1, <1>3 DEF q, r

LEMMA CleanIsReached ==
    ASSUME Types, NEW c \in Commits, c[2] \in DOMAIN log[c[1]], Clean(log, c, Since)
    PROVE  /\ log[c[1]][c[2]].written >= Since /\ Reaches(c[1], c[2])
           /\ PageOf(c[1], c[2]) \in Int
<1>1. /\ c[1] \in Branches /\ Len(log[c[1]]) \in Nat
      /\ DOMAIN log[c[1]] = 1..Len(log[c[1]])
  BY LogFacts DEF Types, Commits
<1>2. LogPage \in Nat \ {0} /\ Since \in Int
  BY Settings, TypeFacts
<1>3. PageOf(c[1], c[2]) \in Int
  BY <1>1, <1>2, PagesAreOrdered DEF PageOf
<1>4. ASSUME NEW j \in DOMAIN log[c[1]], PageOf(c[1], j) < PageOf(c[1], c[2])
      PROVE  log[c[1]][j].written >= Since
  <2>1. CASE j < c[2]
    <3> DEFINE a == Len(log[c[1]]) - c[2]
               b == Len(log[c[1]]) - j
    <3>1. a \in Int /\ b \in Int /\ a <= b
      BY <1>1, <2>1
    <3>2. PageOf(c[1], c[2]) = a \div LogPage /\ PageOf(c[1], j) = b \div LogPage
      BY DEF PageOf
    <3> HIDE DEF a, b
    <3>3. a \div LogPage <= b \div LogPage /\ b \div LogPage \in Int
      BY <1>2, <3>1, PagesAreOrdered
    <3>4. PageOf(c[1], c[2]) <= PageOf(c[1], j) /\ PageOf(c[1], j) \in Int
      BY <3>2, <3>3, <1>2, <3>1
    <3> QED BY <1>3, <1>4, <3>4
  <2>2. CASE j >= c[2]
    BY <1>1, <2>2 DEF Clean
  <2> QED BY <1>1, <2>1, <2>2
<1>5. log[c[1]][c[2]].written >= Since
  BY <1>1 DEF Clean
<1> QED BY <1>3, <1>4, <1>5 DEF Reaches

LEMMA FetchOK ==
    ASSUME SyncInv, NEW r \in Repositories, Fetch(r)
    PROVE  SyncInv'
<1>1. Read(r) \in SUBSET Pushed /\ OutOfReach(r) \in SUBSET Pushed
  BY DEF Read, OutOfReach, Pushed
<1>2. ASSUME NEW c \in owed, RepoOf(c) = r
      PROVE  c \in Read(r) \cup OutOfReach(r)
  <2>1. c \in Commits /\ c[2] \in DOMAIN log[c[1]] /\ Clean(log, c, Since) /\ Types
    BY TypeFacts DEF SyncInv, InReach
  <2>2. /\ log[c[1]][c[2]].written >= Since /\ Reaches(c[1], c[2])
        /\ PageOf(c[1], c[2]) \in Int /\ LogPages \in Int
    BY <2>1, CleanIsReached, Settings
  <2>3. PageOf(c[1], c[2]) < LogPages \/ PageOf(c[1], c[2]) >= LogPages
    BY <2>2
  <2> QED BY <1>2, <2>1, <2>2, <2>3 DEF Read, OutOfReach, RepoOf
<1> QED BY <1>1, <1>2, TakenOK DEF Fetch

LEMMA SkipOK ==
    ASSUME SyncInv, NEW r \in Repositories, Skip(r)
    PROVE  SyncInv'
<1>1. CommitsIn(r) \in SUBSET Pushed /\ {} \in SUBSET Pushed
  BY DEF CommitsIn, Pushed
<1>2. \A c \in owed : RepoOf(c) = r => c \in {} \cup CommitsIn(r)
  BY TypeFacts DEF CommitsIn, RepoOf, SyncInv
<1>3. poll' = [poll EXCEPT !.queue = poll.queue \ {r}, !.fetched = poll.fetched \cup {},
                           !.passed = poll.passed \cup CommitsIn(r)]
  BY DEF Skip, SyncInv, Types, Polls
<1> QED BY <1>1, <1>2, <1>3, TakenOK DEF Skip

LEMMA FailOK ==
    ASSUME SyncInv, Fail
    PROVE  SyncInv'
<1>1. /\ Idle \in Polls /\ poll' = Idle /\ KnowsPublished(NoCache)
      /\ UNCHANGED <<now, log, published, tracked, cache, cursor, stored, owed>>
  BY IdleIsPoll, EmptyCache DEF SyncInv, Fail
<1>2. Idle.phase = "idle" /\ Idle.cache = NoCache
  BY DEF Idle
<1>3. Types' /\ InOrder(log)' /\ InReach' /\ KnowsPublished(cache)' /\ KnowsPublished(poll.cache)'
  BY <1>1, <1>2, OnlyPoll
<1>4. PollOK' /\ Listed' /\ Fetched'
  BY <1>1, <1>2, <1>3 DEF PollOK, Listed, Fetched
<1> QED BY <1>3, <1>4 DEF SyncInv

-----------------------------------------------------------------------------
\* The cursor moves to the end of the poll, and the overlap takes it back to
\* where the poll began and beyond.
LEMMA FinishOK ==
    ASSUME SyncInv, Finish
    PROVE  SyncInv'
<1>1. /\ UNCHANGED <<now, log, published>> /\ poll.phase = "fetch" /\ poll.queue = {}
      /\ stored' = stored \cup poll.fetched
      /\ owed' = {c \in owed \ (poll.fetched \cup poll.passed) : ~TooLate(c)}
      /\ cache' = poll.cache /\ tracked' = tracked \cup Configured /\ cursor' = now
      /\ poll' = Idle
  BY DEF Finish
<1>2. Types /\ Idle \in Polls /\ poll \in Polls /\ KnowsPublished(poll.cache) /\ KnowsPublished(NoCache)
  BY IdleIsPoll, EmptyCache DEF SyncInv, Types, PollOK
<1>3. Idle.phase = "idle" /\ Idle.cache = NoCache
  BY DEF Idle
<1>4. PollOK' /\ Listed' /\ Fetched'
  <2>1. Public' = Public
    BY <1>1 DEF Public
  <2> QED BY <1>1, <1>2, <1>3, <2>1 DEF PollOK, Listed, Fetched, KnowsPublished
<1>5. Types' /\ InOrder(log)'
  <2>1. Pushed' = Pushed /\ CacheEntries' = CacheEntries /\ Polls' = Polls
    BY <1>1 DEF Pushed, CacheEntries, Polls, Public
  <2>2. poll.fetched \subseteq Pushed /\ poll.cache \in CacheEntries
    BY <1>2 DEF Polls
  <2>3. cursor' \in 0..now'
    BY <1>1, <1>2, TypeFacts
  <2>4. owed' \subseteq owed
    BY <1>1
  <2> QED BY <1>1, <1>2, <2>1, <2>2, <2>3, <2>4, Settings DEF SyncInv, Types, InOrder
<1>6. ASSUME NEW c \in owed'
      PROVE  Clean(log, c, IF now > Overlap THEN now - Overlap ELSE 0)
  <2> SUFFICES ASSUME NEW j \in c[2]..Len(log[c[1]])
               PROVE  log[c[1]][j].written >= IF now > Overlap THEN now - Overlap ELSE 0
    BY DEF Clean
  <2>1. c \in owed /\ c \notin poll.fetched \cup poll.passed /\ ~TooLate(c)
    BY <1>1
  <2>2. /\ c[1] \in Branches /\ c[2] \in DOMAIN log[c[1]] /\ now \in Times /\ now \in Nat
        /\ poll.begun \in Nat /\ log \in [Branches -> Seq(LogEntries(now))]
    BY <1>2, <2>1, TypeFacts DEF Types
  <2>3. Len(log[c[1]]) \in Nat /\ DOMAIN log[c[1]] = 1..Len(log[c[1]])
    BY <2>2, LogFacts
  <2>4. c[2] \in Nat /\ j \in DOMAIN log[c[1]] /\ j >= c[2] /\ c[2] <= j
    BY <2>2, <2>3
  <2>5. PICK e : e = log[c[1]][j]
    OBVIOUS
  <2>6. e.written \in Nat /\ e.pushed \in Nat /\ Overlap \in Nat
    BY <2>2, <2>3, <2>4, <2>5, LogFacts, Settings
  <2>7. CASE Known(RepoOf(c))
    <3>1. log[c[1]][c[2]].pushed >= poll.begun
      BY <1>1, <2>1, <2>7 DEF SyncInv, Fetched
    <3>2. log[c[1]][c[2]].pushed <= e.pushed /\ log[c[1]][c[2]].pushed \in Nat
      BY <2>2, <2>3, <2>4, <2>5, LogFacts DEF SyncInv, InOrder
    <3>3. ~((now - poll.begun) + (e.pushed - e.written) > Overlap)
      BY <2>1, <2>4, <2>5, <2>7 DEF TooLate, RepoOf
    <3>4. e.pushed >= poll.begun
      BY <2>2, <2>6, <3>1, <3>2
    <3>5. e.written >= now - Overlap
      BY <2>2, <2>6, <3>3, <3>4
    <3> QED BY <2>2, <2>5, <2>6, <3>5
  <2>8. CASE ~Known(RepoOf(c))
    <3>1. ~(now - e.written > Overlap)
      BY <2>1, <2>4, <2>5, <2>8 DEF TooLate, RepoOf
    <3> QED BY <2>2, <2>5, <2>6, <3>1
  <2> QED BY <2>7, <2>8
<1>7. InReach'
  BY <1>1, <1>6 DEF InReach, Since
<1> QED BY <1>4, <1>5, <1>7 DEF SyncInv

-----------------------------------------------------------------------------
(* The API and the world. *)
LEMMA RetrackOK ==
    ASSUME SyncInv, NEW T \in SUBSET Repositories, Retrack(T)
    PROVE  SyncInv'
<1>1. /\ UNCHANGED <<now, log, published, cache, cursor, stored, owed, poll>> /\ poll.phase = "idle"
      /\ tracked' = T
  BY DEF Retrack
<1>2. Types' /\ InOrder(log)'
  <2>1. Pushed' = Pushed /\ CacheEntries' = CacheEntries /\ Polls' = Polls
    BY <1>1 DEF Pushed, CacheEntries, Polls, Public
  <2> QED BY <1>1, <2>1 DEF SyncInv, Types, InOrder
<1>3. PollOK' /\ Listed' /\ Fetched' /\ InReach'
  <2>1. Public' = Public
    BY <1>1 DEF Public
  <2> QED BY <1>1, <2>1 DEF SyncInv, PollOK, KnowsPublished, Listed, Fetched, InReach, Since
<1> QED BY <1>2, <1>3 DEF SyncInv

\* Where the variables live when the world goes on.
LEMMA Wider ==
    ASSUME Types, now' \in Times, now <= now', Public \subseteq Public', Pushed \subseteq Pushed'
    PROVE  CacheEntries \subseteq CacheEntries' /\ Polls \subseteq Polls'
<1>1. 0..now \subseteq 0..now'
  BY TypeFacts, Settings DEF Times
<1>2. CacheEntries \subseteq CacheEntries'
  BY <1>1 DEF CacheEntries
<1> QED BY <1>1, <1>2 DEF Polls

LEMMA PushOK ==
    ASSUME SyncInv, NEW b \in Branches, NEW w \in Times, Push(b, w)
    PROVE  SyncInv'
<1> DEFINE new == <<b, Len(log[b]) + 1>>
           e == [written |-> w, pushed |-> now]
<1>1. /\ Types /\ Len(log[b]) < MaxCommits /\ w <= now
      /\ log' = [log EXCEPT ![b] = Append(log[b], e)]
      /\ UNCHANGED <<now, published, tracked, cache, cursor, stored, poll>>
      /\ owed' = IF now - w > Overlap THEN {c \in owed : c[1] # b} ELSE owed \cup {new}
  BY DEF Push, SyncInv
<1>2. /\ now \in Nat /\ now \in Times /\ log \in [Branches -> Seq(LogEntries(now))] /\ w \in 0..now
      /\ Overlap \in Nat /\ e.written = w /\ e.pushed = now /\ e \in LogEntries(now)
  <2>1. now \in Nat /\ now \in Times /\ log \in [Branches -> Seq(LogEntries(now))] /\ w \in 0..now
    BY <1>1, Settings, TypeFacts DEF Types, Times
  <2>2. e \in LogEntries(now)
    BY <2>1 DEF LogEntries
  <2> QED BY <2>1, <2>2, Settings
<1>3. /\ log' \in [Branches -> Seq(LogEntries(now))] /\ InOrder(log')
      /\ \A d \in Branches : Len(log[d]) <= Len(log'[d])
      /\ Len(log'[b]) = Len(log[b]) + 1 /\ log'[b][Len(log[b]) + 1] = e
      /\ \A d \in Branches : \A j \in 1..Len(log[d]) : log'[d][j] = log[d][j]
      /\ \A d \in Branches \ {b} : log'[d] = log[d]
  <2>1. InOrder(log)
    BY DEF SyncInv
  <2> HIDE DEF new, e
  <2>2. PICK m : m = [log EXCEPT ![b] = Append(log[b], e)]
    OBVIOUS
  <2>3. /\ m \in [Branches -> Seq(LogEntries(now))] /\ InOrder(m)
        /\ \A d \in Branches : Len(log[d]) <= Len(m[d])
        /\ Len(m[b]) = Len(log[b]) + 1 /\ m[b][Len(log[b]) + 1] = e
        /\ \A d \in Branches : \A j \in 1..Len(log[d]) : m[d][j] = log[d][j]
        /\ \A d \in Branches \ {b} : m[d] = log[d]
    <3>0. now \in Nat /\ e.pushed = now
      BY <1>2
    <3>1. /\ Append(log[b], e) \in Seq(LogEntries(now)) /\ Len(Append(log[b], e)) = Len(log[b]) + 1
          /\ \A j \in 1..Len(log[b]) : Append(log[b], e)[j] = log[b][j]
          /\ Append(log[b], e)[Len(log[b]) + 1] = e
      BY <1>2, AppendProperties
    <3>2. /\ m \in [Branches -> Seq(LogEntries(now))] /\ m[b] = Append(log[b], e)
          /\ \A d \in Branches \ {b} : m[d] = log[d]
      BY <1>2, <2>2, <3>1
    <3>3. \A d \in Branches : Len(log[d]) \in Nat
      BY <1>2, LogFacts
    <3>4. \A d \in Branches : Len(log[d]) <= Len(m[d])
      BY <3>1, <3>2, <3>3
    <3>5. Len(m[b]) = Len(log[b]) + 1 /\ m[b][Len(log[b]) + 1] = e
      BY <3>1, <3>2
    <3>6. \A d \in Branches : \A j \in 1..Len(log[d]) : m[d][j] = log[d][j]
      BY <3>1, <3>2
    <3>7. InOrder(m)
      <4> SUFFICES ASSUME NEW d \in Branches, NEW i \in DOMAIN m[d], NEW j \in DOMAIN m[d], i <= j
                   PROVE  m[d][i].pushed <= m[d][j].pushed
        BY DEF InOrder
      <4>1. /\ DOMAIN m[d] = 1..Len(m[d]) /\ DOMAIN log[d] = 1..Len(log[d]) /\ Len(log[d]) \in Nat
            /\ m[d][i].pushed \in Nat /\ m[d][i].pushed <= now
        BY <1>2, <3>2, LogFacts
      <4>2. CASE j \in 1..Len(log[d])
        <5>1. i \in 1..Len(log[d])
          BY <4>1, <4>2
        <5> QED BY <2>1, <3>6, <4>1, <4>2, <5>1 DEF InOrder
      <4>3. CASE j \notin 1..Len(log[d])
        <5>1. d = b
          BY <3>2, <4>1, <4>3
        <5>2. j = Len(log[b]) + 1
          BY <3>5, <4>1, <4>3, <5>1
        <5> QED BY <3>0, <3>5, <4>1, <5>1, <5>2
      <4> QED BY <4>2, <4>3
    <3> QED BY <3>2, <3>4, <3>5, <3>6, <3>7
  <2> QED BY <1>1, <2>2, <2>3
<1>4. \A d \in Branches :
        /\ Len(log[d]) \in Nat /\ DOMAIN log[d] = 1..Len(log[d])
        /\ Len(log'[d]) \in Nat /\ DOMAIN log'[d] = 1..Len(log'[d])
  BY <1>2, <1>3, LogFacts
<1>5. new \in Pushed' /\ new[1] = b /\ new[2] = Len(log[b]) + 1 /\ Pushed \subseteq Pushed'
  <2>1. Len(log[b]) + 1 \in 1..MaxCommits /\ Len(log[b]) + 1 \in DOMAIN log'[b]
    BY <1>1, <1>3, <1>4, Settings
  <2>2. \A c \in Commits : c[1] \in Branches
    BY DEF Commits
  <2>3. \A c \in Pushed : c[2] \in DOMAIN log'[c[1]]
    BY <1>3, <1>4, <2>2 DEF Pushed
  <2> QED BY <2>1, <2>3 DEF Pushed, Commits
<1>6. owed' \subseteq owed \cup {new} /\ owed \subseteq Pushed
  BY <1>1 DEF Types
<1> HIDE DEF new, e
<1>7. Types'
  <2>1. CacheEntries \subseteq CacheEntries' /\ Polls \subseteq Polls'
    BY <1>1, <1>2, <1>5, Wider DEF Public
  <2> QED BY <1>1, <1>2, <1>3, <1>5, <1>6, <2>1 DEF Types
<1>8. PollOK' /\ Listed'
  <2>1. Public' = Public
    BY <1>1 DEF Public
  <2> QED BY <1>1, <2>1 DEF SyncInv, PollOK, KnowsPublished, Listed
<1>9. InReach'
  <2> SUFFICES ASSUME NEW c \in owed' PROVE Clean(log', c, Since)
    BY <1>1 DEF InReach, Since
  <2> SUFFICES ASSUME NEW j \in c[2]..Len(log'[c[1]]) PROVE log'[c[1]][j].written >= Since
    BY DEF Clean
  <2>1. c = new \/ c \in owed
    BY <1>6
  <2>2. c[1] \in Branches /\ c[2] \in Nat /\ c[2] >= 1
    BY <1>1, <1>4, <1>5, <2>1, TypeFacts
  <2>3. CASE c[1] = b /\ j = Len(log[b]) + 1
    <3>1. ~(now - w > Overlap)
      BY <1>1, <2>3
    <3> QED BY <1>1, <1>2, <1>3, <2>3, <3>1, TypeFacts
  <2>4. CASE ~(c[1] = b /\ j = Len(log[b]) + 1)
    <3>1. j \in c[2]..Len(log[c[1]]) /\ j \in 1..Len(log[c[1]])
      BY <1>3, <1>4, <2>2, <2>4
    <3>2. c # new
      BY <1>4, <1>5, <2>2, <3>1
    <3>3. Clean(log, c, Since)
      BY <2>1, <3>2 DEF SyncInv, InReach
    <3> QED BY <1>3, <2>2, <3>1, <3>3 DEF Clean
  <2> QED BY <2>3, <2>4
<1>10. Fetched'
  <2> SUFFICES ASSUME poll.phase = "fetch", NEW c \in owed', Known(RepoOf(c)),
                      RepoOf(c) \notin poll.queue, c \notin poll.fetched \cup poll.passed
               PROVE  log'[c[1]][c[2]].pushed >= poll.begun
    BY <1>1 DEF Fetched, RepoOf, Known, Public
  <2>1. CASE c = new
    BY <1>1, <1>2, <1>3, <1>5, <2>1, TypeFacts
  <2>2. CASE c # new
    <3>1. c \in owed
      BY <1>6, <2>2
    <3>2. c[1] \in Branches /\ c[2] \in 1..Len(log[c[1]])
      BY <1>1, <1>4, <3>1, TypeFacts
    <3>3. log'[c[1]][c[2]] = log[c[1]][c[2]]
      BY <1>3, <3>2
    <3> QED BY <3>1, <3>3 DEF SyncInv, Fetched
  <2> QED BY <2>1, <2>2
<1> QED BY <1>3, <1>7, <1>8, <1>9, <1>10 DEF SyncInv

LEMMA PublishOK ==
    ASSUME SyncInv, NEW r \in Repositories, Publish(r)
    PROVE  SyncInv'
<1>1. /\ UNCHANGED <<now, log, tracked, cache, cursor, stored, owed, poll>>
      /\ published' = [published EXCEPT ![r] = now] /\ r \in Owned /\ r \notin Public /\ Types
  BY DEF Publish, SyncInv
<1>2. now \in Nat /\ published'[r] = now /\ \A q \in Owned \ {r} : published'[q] = published[q]
  BY <1>1, TypeFacts DEF Types
<1>3. Public' = Public \cup {r}
  BY <1>1, <1>2 DEF Public, Never
<1>4. Types'
  <2>1. Pushed' = Pushed
    BY <1>1 DEF Pushed
  <2>2. now' \in Times /\ now <= now'
    BY <1>1, <1>2 DEF Types
  <2>3. CacheEntries \subseteq CacheEntries' /\ Polls \subseteq Polls'
    BY <1>1, <1>3, <2>1, <2>2, Wider
  <2> QED BY <1>1, <1>2, <2>1, <2>3 DEF Types
<1>5. \A q \in Public' : published'[q] < now => q \in Public /\ published'[q] = published[q]
  BY <1>1, <1>2, <1>3, TypeFacts
<1>6. /\ cache.at \in Int /\ cache.at <= now /\ poll.begun \in Int /\ poll.begun <= now
      /\ poll.cache.at \in Int /\ poll.cache.at <= now
  BY <1>1, <1>2, TypeFacts DEF Types, Polls, CacheEntries
<1>7. \A q \in Public' : published'[q] \in Int
  BY <1>1, <1>2, <1>3, TypeFacts
<1>8. PollOK'
  <2>1. \A e : e.at \in Int /\ e.at <= now /\ KnowsPublished(e) => KnowsPublished(e)'
    BY <1>2, <1>5, <1>7 DEF KnowsPublished
  <2>2. KnowsPublished(cache) /\ KnowsPublished(poll.cache) /\ cache' = cache /\ poll' = poll
    BY <1>1 DEF SyncInv, PollOK
  <2>3. KnowsPublished(cache)' /\ KnowsPublished(poll.cache)'
    BY <1>6, <2>1, <2>2 DEF KnowsPublished
  <2> QED BY <1>1, <1>3, <2>3 DEF SyncInv, PollOK
<1>9. Listed'
  BY <1>1, <1>2, <1>5, <1>6, <1>7 DEF SyncInv, Listed
<1>10. Fetched'
  <2>1. \A q : Known(q)' => Known(q)
    <3>1. \A q \in Public' : published'[q] < poll.begun - TTL => published'[q] < now
      BY <1>2, <1>6, <1>7, Settings
    <3> QED BY <1>1, <1>5, <3>1 DEF Known
  <2> QED BY <1>1, <2>1 DEF SyncInv, Fetched
<1>11. InReach' /\ InOrder(log)'
  BY <1>1 DEF SyncInv, InReach, Since, InOrder
<1> QED BY <1>4, <1>8, <1>9, <1>10, <1>11 DEF SyncInv

LEMMA TickOK ==
    ASSUME SyncInv, Tick
    PROVE  SyncInv'
<1>1. /\ now < MaxClock /\ now' = now + 1 /\ Types
      /\ UNCHANGED <<log, published, tracked, cache, cursor, stored, owed, poll>>
  BY DEF Tick, SyncInv
<1>2. now \in Nat /\ now' \in Times /\ now <= now' /\ cursor \in 0..now'
  BY <1>1, TypeFacts, Settings DEF Times
<1>3. 0..now \subseteq 0..now' /\ Public' = Public /\ Pushed' = Pushed
  BY <1>1, <1>2 DEF Public, Pushed
<1>4. Types'
  <2>1. CacheEntries \subseteq CacheEntries' /\ Polls \subseteq Polls'
    BY <1>1, <1>2, <1>3, Wider
  <2>2. log' \in [Branches -> Seq(LogEntries(now'))]
    <3>1. LogEntries(now) \subseteq LogEntries(now') /\ log \in [Branches -> Seq(LogEntries(now))]
      BY <1>1, <1>3 DEF Types, LogEntries
    <3>2. \A b \in Branches : log[b] \in Seq(LogEntries(now'))
      BY <3>1, SeqMonotonic
    <3> QED BY <1>1, <3>1, <3>2
  <2>3. published' \in [Owned -> {Never} \cup 0..now']
    BY <1>1, <1>3 DEF Types
  <2> QED BY <1>1, <1>2, <1>3, <2>1, <2>2, <2>3 DEF Types
<1>5. PollOK' /\ Listed' /\ Fetched' /\ InReach' /\ InOrder(log)'
  BY <1>1, <1>3 DEF SyncInv, PollOK, KnowsPublished, Listed, Fetched, Known, InReach, Since, InOrder
<1> QED BY <1>4, <1>5 DEF SyncInv

-----------------------------------------------------------------------------
LEMMA SyncInit == Init => SyncInv
<1> SUFFICES ASSUME Init PROVE SyncInv
  OBVIOUS
<1>1. /\ now = 0 /\ log = [b \in Branches |-> <<>>] /\ published \in [Owned -> {Never, 0}]
      /\ tracked = {} /\ cache = NoCache /\ cursor = 0 /\ stored = {} /\ owed = {} /\ poll = Idle
  BY DEF Init
<1>2. now \in Times /\ now \in 0..now
  BY <1>1, Settings DEF Times
<1>3. NoCache \in CacheEntries /\ Idle \in Polls
  <2>1. NoCache \in CacheEntries
    BY <1>1, <1>2 DEF NoCache, CacheEntries
  <2> QED BY <1>1, <1>2, <2>1 DEF Idle, Polls, Phases
<1>4. Types
  BY <1>1, <1>2, <1>3 DEF Types
<1>5. PollOK /\ Listed /\ Fetched
  <2>1. Idle.phase = "idle" /\ Idle.cache = NoCache
    BY DEF Idle
  <2> QED BY <1>1, <1>4, <2>1, EmptyCache DEF PollOK, Listed, Fetched
<1>6. InReach /\ InOrder(log)
  BY <1>1 DEF InReach, InOrder
<1> QED BY <1>4, <1>5, <1>6 DEF SyncInv

LEMMA SyncStep == SyncInv /\ [Next]_vars => SyncInv'
<1> SUFFICES ASSUME SyncInv, [Next]_vars PROVE SyncInv'
  OBVIOUS
<1>1. CASE Begin
  BY <1>1, BeginOK
<1>2. CASE Discover
  BY <1>2, DiscoverOK
<1>3. CASE Refresh
  BY <1>3, RefreshOK
<1>4. CASE Finish
  BY <1>4, FinishOK
<1>5. CASE Fail
  BY <1>5, FailOK
<1>6. CASE Tick
  BY <1>6, TickOK
<1>7. ASSUME NEW r \in Repositories, Fetch(r) \/ Skip(r) \/ Publish(r)
      PROVE  SyncInv'
  BY <1>7, FetchOK, SkipOK, PublishOK
<1>8. ASSUME NEW r \in Repositories, Track(r) \/ Untrack(r)
      PROVE  SyncInv'
  <2>1. tracked \cup {r} \in SUBSET Repositories /\ tracked \ {r} \in SUBSET Repositories
    BY DEF SyncInv, Types
  <2> QED BY <1>8, <2>1, RetrackOK DEF Track, Untrack
<1>9. ASSUME NEW q \in Repositories, NEW r \in Repositories, Rename(q, r)
      PROVE  SyncInv'
  <2>1. (tracked \ {q}) \cup {r} \in SUBSET Repositories
    BY DEF SyncInv, Types
  <2> QED BY <1>9, <2>1, RetrackOK DEF Rename
<1>10. ASSUME NEW b \in Branches, NEW w \in Times, Push(b, w)
       PROVE  SyncInv'
  BY <1>10, PushOK
<1>11. CASE UNCHANGED vars
  <2>1. Public' = Public /\ Pushed' = Pushed /\ CacheEntries' = CacheEntries /\ Polls' = Polls
    BY <1>11 DEF vars, Public, Pushed, CacheEntries, Polls
  <2> QED BY <1>11, <2>1 DEF vars, SyncInv, Types, PollOK, KnowsPublished, InReach, Since,
         InOrder, Listed, Fetched, Known
<1> QED BY <1>1, <1>2, <1>3, <1>4, <1>5, <1>6, <1>7, <1>8, <1>9, <1>10, <1>11 DEF Next

\* What the polls of a Spec's behaviour rest on, in every state.
THEOREM SyncInvariant == Spec => []SyncInv
BY SyncInit, SyncStep, PTL DEF Spec

\* However old the discovered repositories of a poll of git.sr.ht are, however
\* long it takes and whenever it sets the cursor (git.py, fetch_recent_events),
\* the next poll reads every commit that this one has not, but for those the
\* overlap is too short for.  In a repository that the poll knows those are none, if
\* the delay of the pushes and the duration of the poll add up to no more than it.
THEOREM NoGap == Spec => []NothingLost
<1>1. SyncInv => NothingLost
  BY CleanIsReached, TypeFacts DEF SyncInv, InReach, NothingLost
<1> QED BY <1>1, SyncInvariant, PTL

\* The types of the git poll: no time is in the future, the cache holds only
\* what was public, and only what was pushed is stored.
THEOREM SyncTypes == Spec => []TypeOK
<1>1. SyncInv => TypeOK
  <2> SUFFICES ASSUME SyncInv PROVE TypeOK
    OBVIOUS
  <2>1. /\ poll.fetched \subseteq Pushed /\ poll.passed \subseteq Pushed
        /\ poll.phase \in Phases /\ poll.begun \in 0..now /\ poll.queue \subseteq Repositories
        /\ cache \in CacheEntries /\ poll.cache \in CacheEntries
    BY DEF SyncInv, Types, Polls
  <2>2. \A e \in {cache, poll.cache} : e.repositories \subseteq Public /\ e.at \in 0..now
    BY <2>1 DEF CacheEntries
  <2> QED BY <2>1, <2>2 DEF SyncInv, Types, TypeOK, Phases
<1> QED BY <1>1, SyncInvariant, PTL
=============================================================================
