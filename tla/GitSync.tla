------------------------------- MODULE GitSync -------------------------------
(***************************************************************************)
(* The incremental poll of git.sr.ht for one actor: which repositories are *)
(* polled (configured, tracked through the API, discovered and cached for  *)
(* a time), what is read of their logs, and the cursor from which the next *)
(* poll reads, less an overlap.                                            *)
(*                                                                         *)
(* The poll has stored the todo cursor before and so holds SQLite's write  *)
(* lock (poller.py:202): no other poll and no write of the API comes       *)
(* between its steps.  git.sr.ht is external: commits are pushed, some     *)
(* time after they were written, and repositories are published.  They are *)
(* not withdrawn or rewritten here, and an actor has less than 50 pages of *)
(* them.  Time 0 is thirty days before the first poll.                     *)
(***************************************************************************)
EXTENDS Integers, Sequences

CONSTANTS
    Repositories,
    Owned,               \* those of the actor
    Configured,          \* settings.git_tracked_repositories
    Branches, RepositoryOf,
    LogPage,             \* page size of git.sr.ht
    LogPages,            \* pages of a log that a poll reads at most
    TTL,                 \* git_repo_discovery_ttl_seconds
    Overlap,             \* sync_overlap_hours
    MaxCommits, MaxClock \* bounds

ASSUME WorldAssumption ==
    /\ Owned \subseteq Repositories /\ Configured \subseteq Repositories
    /\ RepositoryOf \in [Branches -> Repositories]
    /\ {LogPage, LogPages} \subseteq Nat \ {0}
    /\ {TTL, Overlap, MaxCommits, MaxClock} \subseteq Nat

VARIABLES
    now,
    log,        \* on git.sr.ht: when each commit of a branch was written and pushed,
                \* the first one pushed first
    published,  \* on git.sr.ht: since when anyone may see a repository of the actor
    tracked,    \* tracked_repositories
    cache,      \* discovered_repositories
    cursor,     \* sync_states.cursor_value
    stored,     \* contribution_events, by branch and number
    owed,       \* of the commits that the overlap is long enough for, those that no
                \* poll has stored or knowingly passed over
    poll        \* the session that polls

vars == <<now, log, published, tracked, cache, cursor, stored, owed, poll>>

Times == 0..MaxClock
Never == -1
Commits == Branches \X (1..MaxCommits)
NoCache == [at |-> 0, repositories |-> {}]
Idle == [phase |-> "idle", begun |-> 0, cache |-> NoCache, queue |-> {},
         fetched |-> {}, passed |-> {}]

Init ==
    /\ now = 0
    /\ log = [b \in Branches |-> <<>>]
    /\ published \in [Owned -> {Never, 0}]
    /\ tracked = {} /\ cache = NoCache /\ cursor = 0
    /\ stored = {} /\ owed = {}
    /\ poll = Idle

-----------------------------------------------------------------------------
\* Where a poll starts.
Since == IF cursor > Overlap THEN cursor - Overlap ELSE 0

\* The page of the log of b that has its commit number i.
PageOf(b, i) == (Len(log[b]) - i) \div LogPage

\* No commit on an earlier page ends the paging.
Reaches(b, i) ==
    \A j \in DOMAIN log[b] : PageOf(b, j) < PageOf(b, i) => log[b][j].written >= Since

\* What a poll reads of a repository.
Read(r) ==
    {c \in Commits :
        /\ RepositoryOf[c[1]] = r /\ c[2] \in DOMAIN log[c[1]]
        /\ log[c[1]][c[2]].written >= Since
        /\ Reaches(c[1], c[2]) /\ PageOf(c[1], c[2]) < LogPages}

\* What it leaves out because there are too many pages.
OutOfReach(r) ==
    {c \in Commits :
        /\ RepositoryOf[c[1]] = r /\ c[2] \in DOMAIN log[c[1]]
        /\ PageOf(c[1], c[2]) >= LogPages}

CommitsIn(r) == {c \in Commits : RepositoryOf[c[1]] = r /\ c[2] \in DOMAIN log[c[1]]}

-----------------------------------------------------------------------------
Public == {r \in Owned : published[r] # Never}

Selected(discovered) == Configured \cup tracked \cup discovered

\* Mutant: an entry of the cache does not age.
Fresh_Always == cache.repositories # {}

Fresh == cache.repositories # {} /\ cache.at > now - TTL

\* _repositories_for_actor when the cache will do, or before it asks git.sr.ht.
Begin ==
    /\ poll.phase = "idle"
    /\ poll' = IF Fresh
               THEN [Idle EXCEPT !.phase = "fetch", !.begun = now, !.cache = cache,
                                 !.queue = Selected(cache.repositories)]
               ELSE [Idle EXCEPT !.phase = "discover", !.begun = now]
    /\ UNCHANGED <<now, log, published, tracked, cache, cursor, stored, owed>>

\* _discover_owned_repositories: by the time it has read all pages, there may be
\* more repositories.
Discover ==
    /\ poll.phase = "discover"
    /\ poll' = [poll EXCEPT !.phase = "listed", !.queue = Public]
    /\ UNCHANGED <<now, log, published, tracked, cache, cursor, stored, owed>>

\* Mutant: the entry carries the time at which it expires.
CacheEntry_Expiry == [at |-> now + TTL, repositories |-> poll.queue]

\* An empty discovery leaves no rows, and so no entry.
CacheEntry ==
    IF poll.queue = {} THEN NoCache ELSE [at |-> poll.begun, repositories |-> poll.queue]

\* _refresh_discovered_repositories.
Refresh ==
    /\ poll.phase = "listed"
    /\ poll' = [poll EXCEPT !.phase = "fetch", !.cache = CacheEntry,
                            !.queue = Selected(poll.queue)]
    /\ UNCHANGED <<now, log, published, tracked, cache, cursor, stored, owed>>

Fetch(r) ==
    /\ poll.phase = "fetch" /\ r \in poll.queue
    /\ poll' = [poll EXCEPT !.queue = @ \ {r}, !.fetched = @ \cup Read(r),
                            !.passed = @ \cup OutOfReach(r)]
    /\ UNCHANGED <<now, log, published, tracked, cache, cursor, stored, owed>>

\* A repository that cannot be read is left out, and the poll goes on.
Skip(r) ==
    /\ poll.phase = "fetch" /\ r \in poll.queue
    /\ poll' = [poll EXCEPT !.queue = @ \ {r}, !.passed = @ \cup CommitsIn(r)]
    /\ UNCHANGED <<now, log, published, tracked, cache, cursor, stored, owed>>

\* The repositories that a poll is bound to read: those in its lists, and those
\* that were public before the oldest cache it may use.
Known(r) ==
    \/ r \in Configured \cup tracked
    \/ r \in Public /\ published[r] < poll.begun - TTL

\* What the overlap does not make up for, in a known repository: a poll that takes
\* longer than the overlap, less the time between a commit and its push.  In
\* another one it has to do for all the time since the commit.  A commit above
\* that is too old hides those below it.
TooLate(c) ==
    \E j \in DOMAIN log[c[1]] :
        LET commit == log[c[1]][j]
        IN  /\ j >= c[2]
            /\ IF Known(RepositoryOf[c[1]])
               THEN (now - poll.begun) + (commit.pushed - commit.written) > Overlap
               ELSE now - commit.written > Overlap

\* The events, the cache, the configured repositories (_sync_tracked_repositories)
\* and the cursor are committed together.  The cursor is the time at the end.
Finish ==
    /\ poll.phase = "fetch" /\ poll.queue = {}
    /\ stored' = stored \cup poll.fetched
    /\ owed' = {c \in owed \ (poll.fetched \cup poll.passed) : ~TooLate(c)}
    /\ cache' = poll.cache
    /\ tracked' = tracked \cup Configured
    /\ cursor' = now
    /\ poll' = Idle
    /\ UNCHANGED <<now, log, published>>

\* Discovery fails, or the process dies: everything is rolled back.
Fail ==
    /\ poll.phase # "idle"
    /\ poll' = Idle
    /\ UNCHANGED <<now, log, published, tracked, cache, cursor, stored, owed>>

-----------------------------------------------------------------------------
(***************************************************************************)
(* The API of tracked repositories; a poll under way keeps it waiting.     *)
(* What breaks the unique constraint is answered with 409 and no change.   *)
(***************************************************************************)
Retrack(repositories) ==
    /\ poll.phase = "idle"
    /\ tracked' = repositories
    /\ UNCHANGED <<now, log, published, cache, cursor, stored, owed, poll>>

Track(r) == r \notin tracked /\ Retrack(tracked \cup {r})

Rename(q, r) == q \in tracked /\ r \notin tracked /\ Retrack((tracked \ {q}) \cup {r})

\* Deleted, or given to another actor.
Untrack(r) == r \in tracked /\ Retrack(tracked \ {r})

-----------------------------------------------------------------------------
Pushed == {c \in Commits : c[2] \in DOMAIN log[c[1]]}

\* A commit is pushed some time after it was written.  When that is longer than
\* the overlap, the poll may take it for the end of what is new.
Push(b, written) ==
    /\ Len(log[b]) < MaxCommits
    /\ written <= now
    /\ log' = [log EXCEPT ![b] = Append(@, [written |-> written, pushed |-> now])]
    /\ owed' = IF now - written > Overlap THEN {c \in owed : c[1] # b}
               ELSE owed \cup {<<b, Len(log[b]) + 1>>}
    /\ UNCHANGED <<now, published, tracked, cache, cursor, stored, poll>>

Publish(r) ==
    /\ r \in Owned \ Public
    /\ published' = [published EXCEPT ![r] = now]
    /\ UNCHANGED <<now, log, tracked, cache, cursor, stored, owed, poll>>

Tick ==
    /\ now < MaxClock
    /\ now' = now + 1
    /\ UNCHANGED <<log, published, tracked, cache, cursor, stored, owed, poll>>

Next ==
    \/ Begin \/ Discover \/ Refresh \/ Finish \/ Fail \/ Tick
    \/ \E r \in Repositories :
          Fetch(r) \/ Skip(r) \/ Track(r) \/ Untrack(r) \/ Publish(r)
    \/ \E q, r \in Repositories : Rename(q, r)
    \/ \E b \in Branches, written \in Times : Push(b, written)

Spec == Init /\ [][Next]_vars

-----------------------------------------------------------------------------
\* Every variable stays in its domain; no time is in the future.
TypeOK ==
    /\ now \in Times /\ cursor \in 0..now
    /\ published \in [Owned -> {Never} \cup 0..now] /\ tracked \subseteq Repositories
    /\ stored \subseteq Pushed /\ owed \subseteq Pushed
    /\ poll.fetched \subseteq Pushed /\ poll.passed \subseteq Pushed
    /\ poll.phase \in {"idle", "discover", "listed", "fetch"}
    /\ poll.begun \in 0..now
    /\ poll.queue \subseteq Repositories
    /\ \A e \in {cache, poll.cache} : e.repositories \subseteq Public /\ e.at \in 0..now

\* There is no gap between two polls: a commit that no poll has stored will be
\* read by the next one, unless its repository could not be read or is too long
\* or the overlap is too short for it (TooLate); however old the cache of
\* repositories was when it was used.
NothingLost ==
    \A c \in owed : log[c[1]][c[2]].written >= Since /\ Reaches(c[1], c[2])
=============================================================================
