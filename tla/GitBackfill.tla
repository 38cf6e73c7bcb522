----------------------------- MODULE GitBackfill -----------------------------
(***************************************************************************)
(* The resumable backfill of git.sr.ht: the public repositories of the     *)
(* actor and the configured ones, their branches, and the log of each      *)
(* branch, a page per batch, several batches per pass.                     *)
(*                                                                         *)
(* git.sr.ht is external.  It lists repositories and references in a fixed *)
(* order and a log from the newest commit back; the cursor of a log page   *)
(* is a commit, so pushes do not move it.  Author times are what the       *)
(* window is compared with, and need not grow along a log.                 *)
(***************************************************************************)
EXTENDS BackfillPass, Sequences, Functions

CONSTANTS
    Listing,             \* the repositories of the actor, as they are listed
    Public,              \* those that anyone may see
    Configured,          \* settings.git_tracked_repositories
    References,          \* the references of each repository, as they are listed
    Branches,            \* the references that are branches
    Commits,
    World,               \* the log of each branch, the oldest commit first
    AuthorTime,          \* the author time of each commit
    RepositoryPage, ReferencePage, LogPage   \* page sizes of git.sr.ht

Repositories == Range(Listing) \cup Configured
BranchesOf(r) == Range(References[r]) \cap Branches

None == "none"           \* no repository, no branch

ASSUME WorldAssumption ==
    /\ Listing \in Seq(Range(Listing))
    /\ Public \subseteq Range(Listing)
    /\ References \in [Repositories -> Seq(UNION {Range(References[r]) : r \in Repositories})]
    /\ \A r, q \in Repositories : r # q => BranchesOf(r) \cap BranchesOf(q) = {}
    /\ Branches = UNION {BranchesOf(r) : r \in Repositories}
    /\ None \notin Repositories \cup Branches
    /\ AuthorTime \in [Commits -> Nat]
    /\ World \in [Branches -> Seq(Commits)]
    /\ \A b \in Branches : World[b] # <<>>

ASSUME PagesAssumption ==
    /\ RepositoryPage \in Nat \ {0}
    /\ ReferencePage \in Nat \ {0}
    /\ LogPage \in Nat \ {0}

VARIABLE log             \* on git.sr.ht: the log of each branch

vars == <<log, passVars>>

\* cursor_state; the queues are popped in the order of names, which decides
\* nothing.  Cursors of listings count what was listed; the one of a log is
\* the number of the next commit to read, or 0 at the head.
State == [discoveryCursor   : 0..Len(Listing),
          discoveryComplete : BOOLEAN,
          repositoryQueue   : SUBSET Repositories,
          currentRepository : Repositories \cup {None},
          referenceCursor   : Nat,
          branchesLoaded    : BOOLEAN,
          branchQueue       : SUBSET Branches,
          currentBranch     : Branches \cup {None},
          logCursor         : Nat]

NewState == [discoveryCursor |-> 0, discoveryComplete |-> FALSE, repositoryQueue |-> Configured,
             currentRepository |-> None, referenceCursor |-> 0, branchesLoaded |-> FALSE,
             branchQueue |-> {}, currentBranch |-> None, logCursor |-> 0]

Init == log = World /\ PassInit(NewState)

-----------------------------------------------------------------------------
(***************************************************************************)
(* The pages of git.sr.ht.                                                 *)
(***************************************************************************)
\* The end of the page of a listing that starts after n.
PageEnd(listing, n, size) == IF n + size < Len(listing) THEN n + size ELSE Len(listing)
Page(listing, n, size) == {listing[i] : i \in (n + 1)..PageEnd(listing, n, size)}

\* Commits of a page of a log, by number, when the cursor is c.
LogPageAt(b, c) ==
    LET newest == IF c = 0 THEN Len(log[b]) ELSE c
    IN  {i \in 1..newest : i > newest - LogPage}

InWindow(commit) == AuthorTime[commit] >= since

-----------------------------------------------------------------------------
(***************************************************************************)
(* One batch: _fetch_backfill_batch.  A batch that leaves the queue of     *)
(* repositories empty says so at once, so the guard for a batch that finds *)
(* it empty (git.py:247) is never met.                                     *)
(***************************************************************************)
\* Mutant: the repository in progress is overlooked.
Exhausted_NoCurrent(st) == st.discoveryComplete /\ st.repositoryQueue = {}

Exhausted(st) ==
    st.discoveryComplete /\ st.repositoryQueue = {} /\ st.currentRepository = None

\* The cursor of a complete backfill is None, which stands for the first one.
Report(events, next) ==
    Return(events, IF Exhausted(next) THEN NewState ELSE next, Exhausted(next))

\* Discovery keeps its cursor, complete or not.
Discover ==
    /\ ~state.discoveryComplete
    /\ LET last == PageEnd(Listing, state.discoveryCursor, RepositoryPage)
           page == Page(Listing, state.discoveryCursor, RepositoryPage)
           next == [state EXCEPT !.discoveryCursor = last,
                                 !.discoveryComplete = last = Len(Listing),
                                 !.repositoryQueue = @ \cup (page \cap Public)]
       IN  Return({}, next, Exhausted(next))

Leave(st) == [st EXCEPT !.currentRepository = None, !.referenceCursor = 0,
                        !.branchesLoaded = FALSE]

ListReferences(r) ==
    /\ state.discoveryComplete /\ ~state.branchesLoaded
    /\ IF state.currentRepository = None THEN r \in state.repositoryQueue
                                         ELSE r = state.currentRepository
    /\ LET last == PageEnd(References[r], state.referenceCursor, ReferencePage)
           page == Page(References[r], state.referenceCursor, ReferencePage)
           next == [state EXCEPT !.repositoryQueue = @ \ {r}, !.currentRepository = r,
                                 !.referenceCursor = last,
                                 !.branchesLoaded = last = Len(References[r]),
                                 !.branchQueue = @ \cup (page \cap Branches)]
       IN  Report({}, IF next.branchesLoaded /\ next.branchQueue = {} THEN Leave(next) ELSE next)

\* Every branch has been read to its end.
LeaveRepository ==
    /\ state.branchesLoaded
    /\ state.currentBranch = None /\ state.branchQueue = {}
    /\ Report({}, Leave(state))

\* Mutant: the repository ends with its first branch, as stop_repository says.
EndBranch_AndRepository(st) ==
    Leave([st EXCEPT !.currentBranch = None, !.branchQueue = {}, !.logCursor = 0])

EndBranch(st) == [st EXCEPT !.currentBranch = None, !.logCursor = 0]

\* The first commit that is not in the window ends the branch.
ReadLog(b) ==
    /\ state.branchesLoaded
    /\ IF state.currentBranch = None THEN b \in state.branchQueue
                                     ELSE b = state.currentBranch
    /\ LET page == LogPageAt(b, state.logCursor)
           read == {i \in page : \A j \in page : j >= i => InWindow(log[b][j])}
           more == 1 \notin page /\ read = page
           oldest == CHOOSE i \in page : \A j \in page : i <= j
           next == [state EXCEPT !.branchQueue = @ \ {b}, !.currentBranch = b,
                                 !.logCursor = oldest - 1]
       IN  Report({log[b][i] : i \in read}, IF more THEN next ELSE EndBranch(next))

Batch ==
    /\ \/ Discover
       \/ \E r \in Repositories : ListReferences(r)
       \/ LeaveRepository
       \/ \E b \in Branches : ReadLog(b)
    /\ UNCHANGED log

-----------------------------------------------------------------------------
\* Meanwhile somebody pushes a commit to a branch.
Push ==
    /\ \E b \in Branches, c \in Commits \ UNION {Range(log[d]) : d \in Branches} :
          log' = [log EXCEPT ![b] = Append(@, c)]
    /\ UNCHANGED passVars

Work == Batch \/ (Begin /\ UNCHANGED log) \/ (Commit /\ UNCHANGED log)

Next == Work \/ (Fail /\ UNCHANGED log) \/ Push

Spec == Init /\ [][Next]_vars

\* A pass is begun as long as the backfill is not complete, and goes on.
FairSpec == Spec /\ WF_vars(Work)

-----------------------------------------------------------------------------
\* Every variable stays in its domain: cursors never leave their listing, and a
\* pass fetches at most BatchesPerService batches.
TypeOK ==
    /\ log \in [Branches -> Seq(Commits)]
    /\ PassTypeOK(State, Commits)

\* The walk of branch b comes to its commit number i.
Walked(b, i) == \A j \in i..Len(log[b]) : InWindow(log[b][j])

RepositoryOf(b) == CHOOSE r \in Repositories : b \in BranchesOf(r)

\* What a complete backfill has to have: the commits that were there at the
\* start, down to the first one on their branch that is not in the window.
PromisedOn(b) ==
    IF RepositoryOf(b) \in Public \cup Configured
    THEN {i \in DOMAIN World[b] : Walked(b, i)} ELSE {}
Promised == UNION {{log[b][i] : i \in PromisedOn(b)} : b \in Branches}

\* The references that a listing has still to come, when the cursor is n.
Beyond(listing, n) == {listing[i] : i \in (n + 1)..Len(listing)}

\* The commits a cursor has still before it.
Ahead(st, b, i) ==
    LET r == RepositoryOf(b)
    IN  \/ ~st.discoveryComplete /\ r \in Beyond(Listing, st.discoveryCursor) \cap Public
        \/ r \in st.repositoryQueue
        \/ r = st.currentRepository /\ b \in Beyond(References[r], st.referenceCursor)
        \/ b \in st.branchQueue
        \/ b = st.currentBranch /\ i <= st.logCursor

\* Wherever a pass is cut off, what is promised is either stored or before the
\* cursor: the committed one, and the one of the pass under way.
NothingLost ==
    \A b \in Branches : \A i \in PromisedOn(b) :
        /\ status = "in_progress" => log[b][i] \in stored \/ Ahead(saved, b, i)
        /\ running /\ ~complete => log[b][i] \in stored \cup fetched \/ Ahead(state, b, i)

\* The backfill is a scan as the poller expects it.
Scan == INSTANCE BackfillScan WITH Events <- Commits, window <- Promised
IsScan == Scan!ScanSpec

\* It comes to an end once passes no longer fail, whatever is pushed.
Completes == <>(status = "completed")
=============================================================================
