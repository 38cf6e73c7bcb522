-------------------------- MODULE GitBackfillProofs --------------------------
(***************************************************************************)
(* The backfill of git.sr.ht loses nothing, for any repositories, branches,*)
(* page sizes and commits, wherever its passes are cut off: what is        *)
(* promised is stored or still before the cursor (Covers).  That a cursor  *)
(* can be resumed at all is the other half of the argument: what its parts *)
(* say of each other (CursorOK) is what the code takes for granted when it *)
(* reads one back.                                                         *)
(***************************************************************************)
EXTENDS GitBackfill, SequenceTheorems, TLAPS

\* What the parts of a cursor say of each other.
CursorOK(st) ==
    /\ ~st.discoveryComplete => st.currentRepository = None
    /\ st.currentRepository \notin st.repositoryQueue
    /\ IF st.currentRepository = None
       THEN st.referenceCursor = 0 /\ ~st.branchesLoaded /\ st.branchQueue = {}
       ELSE /\ st.referenceCursor <= Len(References[st.currentRepository])
            /\ st.branchesLoaded => st.referenceCursor = Len(References[st.currentRepository])
    /\ st.currentBranch # None => st.branchesLoaded
    /\ st.currentBranch \notin st.branchQueue
    /\ IF st.currentBranch = None THEN st.logCursor = 0
                                  ELSE st.logCursor \in 1..Len(log[st.currentBranch])

\* With the events E stored, nothing that is promised is behind the cursor.
Covers(st, E) ==
    \A b \in Branches : \A i \in PromisedOn(b) : log[b][i] \in E \/ Ahead(st, b, i)

\* A log only grows.
LogGrows ==
    \A b \in Branches :
        Len(World[b]) <= Len(log[b]) /\ \A i \in DOMAIN World[b] : log[b][i] = World[b][i]

Types == TypeOK /\ LogGrows

BackfillInv ==
    /\ Types
    /\ CursorOK(saved) /\ CursorOK(state)
    /\ status = "in_progress" => Covers(saved, stored)
    /\ running => status = "in_progress"
    /\ running /\ ~complete => Covers(state, stored \cup fetched)
    /\ complete => running /\ Promised \subseteq stored \cup fetched

-----------------------------------------------------------------------------
LEMMA Settings ==
    /\ {RepositoryPage, ReferencePage, LogPage, BatchesPerService} \subseteq Nat \ {0}
    /\ Start \in Nat /\ MaxFailures \in Nat
    /\ Listing \in Seq(Range(Listing)) /\ Public \subseteq Range(Listing)
    /\ Range(Listing) \subseteq Repositories /\ Configured \subseteq Repositories
    /\ None \notin Repositories /\ None \notin Branches
    /\ AuthorTime \in [Commits -> Nat]
BY WorldAssumption, PagesAssumption, PassAssumption DEF Repositories

LEMMA OneRepository ==
    ASSUME NEW b \in Branches
    PROVE  /\ RepositoryOf(b) \in Repositories
           /\ \A r \in Repositories : b \in BranchesOf(r) <=> r = RepositoryOf(b)
<1>1. \E r \in Repositories : b \in BranchesOf(r)
  BY WorldAssumption
<1>2. \A r, q \in Repositories : r # q => BranchesOf(r) \cap BranchesOf(q) = {}
  BY WorldAssumption
<1> HIDE DEF BranchesOf
<1> QED BY <1>1, <1>2 DEF RepositoryOf

LEMMA LogFacts ==
    ASSUME Types, NEW b \in Branches
    PROVE  /\ log \in [Branches -> Seq(Commits)] /\ since \in Nat
           /\ Len(log[b]) \in Nat \ {0} /\ DOMAIN log[b] = 1..Len(log[b])
           /\ \A j \in 1..Len(log[b]) : log[b][j] \in Commits
           /\ PromisedOn(b) \subseteq 1..Len(log[b])
<1>1. log \in [Branches -> Seq(Commits)] /\ since \in Nat
  BY Settings DEF Types, TypeOK, PassTypeOK
<1>2. log[b] \in Seq(Commits) /\ World[b] \in Seq(Commits) /\ World[b] # <<>>
  BY <1>1, WorldAssumption
<1>3. Len(World[b]) \in Nat \ {0} /\ DOMAIN World[b] = 1..Len(World[b])
  BY <1>2, EmptySeq, LenProperties
<1>4. Len(World[b]) <= Len(log[b]) /\ Len(log[b]) \in Nat /\ DOMAIN log[b] = 1..Len(log[b])
  BY <1>2, LenProperties DEF Types, LogGrows
<1>5. PromisedOn(b) \subseteq 1..Len(log[b])
  BY <1>3, <1>4 DEF PromisedOn
<1> QED BY <1>1, <1>2, <1>3, <1>4, <1>5, ElementOfSeq

LEMMA PageFacts ==
    ASSUME NEW S, NEW l \in Seq(S), NEW n \in Nat, n <= Len(l), NEW size \in Nat \ {0},
           NEW last, last = PageEnd(l, n, size)
    PROVE  /\ last \in 0..Len(l) /\ Page(l, n, size) \subseteq Range(l)
           /\ Beyond(l, n) \subseteq Page(l, n, size) \cup Beyond(l, last)
           /\ Beyond(l, 0) = Range(l) /\ Beyond(l, Len(l)) = {}
<1>1. Len(l) \in Nat /\ DOMAIN l = 1..Len(l)
  BY LenProperties
<1>2. last \in n..Len(l)
  <2>1. CASE n + size < Len(l)
    BY <1>1, <2>1 DEF PageEnd
  <2>2. CASE ~(n + size < Len(l))
    BY <1>1, <2>2 DEF PageEnd
  <2> QED BY <2>1, <2>2
<1>3. (n + 1)..last \subseteq 1..Len(l)
  BY <1>1, <1>2
<1>4. (n + 1)..Len(l) \subseteq (n + 1)..last \cup (last + 1)..Len(l)
  BY <1>1, <1>2
<1>5. 0 + 1 = 1 /\ (Len(l) + 1)..Len(l) = {}
  BY <1>1
<1> QED BY <1>1, <1>2, <1>3, <1>4, <1>5 DEF Page, Beyond, Range

-----------------------------------------------------------------------------
(* Discovery and the references of a repository. *)
LEMMA DiscoverNext ==
    ASSUME Types, NEW st \in State, CursorOK(st), ~st.discoveryComplete, NEW E, Covers(st, E),
           NEW last, last = PageEnd(Listing, st.discoveryCursor, RepositoryPage),
           NEW page, page = Page(Listing, st.discoveryCursor, RepositoryPage),
           NEW next, next = [st EXCEPT !.discoveryCursor = last,
                                       !.discoveryComplete = last = Len(Listing),
                                       !.repositoryQueue = @ \cup (page \cap Public)]
    PROVE  next \in State /\ CursorOK(next) /\ Covers(next, E)
<1>1. /\ last \in 0..Len(Listing) /\ page \subseteq Range(Listing)
      /\ Beyond(Listing, st.discoveryCursor) \subseteq page \cup Beyond(Listing, last)
      /\ Beyond(Listing, Len(Listing)) = {}
  <2>1. st.discoveryCursor \in Nat /\ st.discoveryCursor <= Len(Listing)
    BY Settings, LenProperties DEF State
  <2> QED BY <2>1, Settings, PageFacts
<1>2. next \in State
  <2>1. st.repositoryQueue \cup (page \cap Public) \subseteq Repositories
    BY <1>1, Settings DEF State
  <2> QED BY <1>1, <2>1 DEF State
<1>3. /\ next.discoveryCursor = last /\ next.discoveryComplete = (last = Len(Listing))
      /\ next.repositoryQueue = st.repositoryQueue \cup (page \cap Public)
      /\ next.currentRepository = st.currentRepository
      /\ next.referenceCursor = st.referenceCursor /\ next.branchesLoaded = st.branchesLoaded
      /\ next.branchQueue = st.branchQueue /\ next.currentBranch = st.currentBranch
      /\ next.logCursor = st.logCursor
  BY DEF State
<1>4. CursorOK(next)
  BY <1>1, <1>3, Settings DEF CursorOK
<1>5. \A b \in Branches, i \in Nat : Ahead(st, b, i) => Ahead(next, b, i)
  BY <1>1, <1>3 DEF Ahead
<1>6. Covers(next, E)
  BY <1>5, LogFacts DEF Covers
<1> QED BY <1>2, <1>4, <1>6

LEMMA LeaveFacts ==
    ASSUME Types, NEW st \in State, CursorOK(st), st.branchesLoaded, st.branchQueue = {},
           st.currentBranch = None, NEW E, Covers(st, E)
    PROVE  Leave(st) \in State /\ CursorOK(Leave(st)) /\ Covers(Leave(st), E)
<1> DEFINE next == Leave(st)
<1>1. /\ next \in State
      /\ next.discoveryCursor = st.discoveryCursor
      /\ next.discoveryComplete = st.discoveryComplete
      /\ next.repositoryQueue = st.repositoryQueue /\ next.currentRepository = None
      /\ next.referenceCursor = 0 /\ next.branchesLoaded = FALSE
      /\ next.branchQueue = {} /\ next.currentBranch = None
      /\ next.logCursor = st.logCursor
  BY DEF Leave, State
<1> HIDE DEF next
<1>2. CursorOK(next)
  BY <1>1, Settings DEF CursorOK, State
<1>3. \A b \in Branches, i \in Nat : Ahead(st, b, i) => Ahead(next, b, i)
  <2> SUFFICES ASSUME NEW b \in Branches, NEW i \in Nat, Ahead(st, b, i),
                      RepositoryOf(b) = st.currentRepository,
                      b \in Beyond(References[RepositoryOf(b)], st.referenceCursor)
               PROVE  FALSE
    BY <1>1, Settings DEF Ahead
  <2>1. RepositoryOf(b) \in Repositories /\ RepositoryOf(b) # None
    BY OneRepository, Settings
  <2>2. st.referenceCursor = Len(References[RepositoryOf(b)])
    BY <2>1 DEF CursorOK
  <2>3. References[RepositoryOf(b)] \in Seq(UNION {Range(References[r]) : r \in Repositories})
    BY <2>1, WorldAssumption
  <2>4. Beyond(References[RepositoryOf(b)], Len(References[RepositoryOf(b)])) = {}
    BY <2>3, LenProperties DEF Beyond
  <2> QED BY <2>2, <2>4
<1>4. Covers(next, E)
  BY <1>3, LogFacts DEF Covers
<1> QED BY <1>1, <1>2, <1>4 DEF next

\* The cursor after a page of references, but for the end of the repository.
Listed(st, r) ==
    LET last == PageEnd(References[r], st.referenceCursor, ReferencePage)
        page == Page(References[r], st.referenceCursor, ReferencePage)
    IN  [st EXCEPT !.repositoryQueue = @ \ {r}, !.currentRepository = r,
                   !.referenceCursor = last,
                   !.branchesLoaded = last = Len(References[r]),
                   !.branchQueue = @ \cup (page \cap Branches)]

LEMMA ReferencesNext ==
    ASSUME Types, NEW st \in State, CursorOK(st), NEW E, Covers(st, E),
           st.discoveryComplete, ~st.branchesLoaded, NEW r \in Repositories,
           st.currentRepository = None => r \in st.repositoryQueue,
           st.currentRepository # None => r = st.currentRepository,
           NEW next, next = Listed(st, r)
    PROVE  next \in State /\ CursorOK(next) /\ Covers(next, E)
<1>a. PICK last : last = PageEnd(References[r], st.referenceCursor, ReferencePage)
  OBVIOUS
<1>b. PICK page : page = Page(References[r], st.referenceCursor, ReferencePage)
  OBVIOUS
<1>c. next = [st EXCEPT !.repositoryQueue = @ \ {r}, !.currentRepository = r,
                        !.referenceCursor = last,
                        !.branchesLoaded = last = Len(References[r]),
                        !.branchQueue = @ \cup (page \cap Branches)]
  BY <1>a, <1>b DEF Listed
<1>1. /\ References[r] \in Seq(UNION {Range(References[q]) : q \in Repositories})
      /\ Len(References[r]) \in Nat
  BY WorldAssumption, LenProperties
<1>2. st.referenceCursor \in Nat /\ st.referenceCursor <= Len(References[r])
  BY <1>1, Settings DEF CursorOK, State
<1>3. /\ last \in 0..Len(References[r])
      /\ Beyond(References[r], st.referenceCursor) \subseteq page \cup Beyond(References[r], last)
      /\ Beyond(References[r], 0) = Range(References[r])
  <2>1. PICK l \in Seq(UNION {Range(References[q]) : q \in Repositories}) : l = References[r]
    BY <1>1
  <2>2. ReferencePage \in Nat \ {0}
    BY Settings
  <2> QED BY <1>2, <1>a, <1>b, <2>1, <2>2, PageFacts
<1>4. next \in State
  <2>1. last \in Nat /\ st.branchQueue \cup (page \cap Branches) \subseteq Branches
    BY <1>3 DEF State
  <2> QED BY <1>c, <2>1 DEF State
<1>5. /\ next.discoveryCursor = st.discoveryCursor
      /\ next.discoveryComplete = st.discoveryComplete
      /\ next.repositoryQueue = st.repositoryQueue \ {r}
      /\ next.currentRepository = r /\ next.referenceCursor = last
      /\ next.branchesLoaded = (last = Len(References[r]))
      /\ next.branchQueue = st.branchQueue \cup (page \cap Branches)
      /\ next.currentBranch = st.currentBranch /\ next.logCursor = st.logCursor
  BY <1>c DEF State
<1>6. st.currentBranch = None
  BY DEF CursorOK
<1>7. CursorOK(next)
  <2>1. None \notin next.branchQueue /\ r # None /\ st.logCursor = 0
    BY <1>4, <1>6, Settings DEF State, CursorOK
  <2>2. last <= Len(References[r])
    BY <1>1, <1>3
  <2> QED BY <1>5, <1>6, <2>1, <2>2 DEF CursorOK
<1>8. ASSUME NEW b \in Branches, NEW i \in Nat, Ahead(st, b, i)
      PROVE  Ahead(next, b, i)
  <2>1. CASE RepositoryOf(b) = r
    <3>1. b \in Range(References[r])
      BY <2>1, OneRepository DEF BranchesOf
    <3>2. \/ r \in st.repositoryQueue /\ st.currentRepository = None
          \/ b \in st.branchQueue
          \/ b \in Beyond(References[r], st.referenceCursor)
      BY <1>6, <1>8, <2>1, Settings DEF Ahead, CursorOK
    <3>3. b \in st.branchQueue \/ b \in Beyond(References[r], st.referenceCursor)
      BY <1>3, <3>1, <3>2 DEF CursorOK
    <3> QED BY <1>3, <1>5, <2>1, <3>3 DEF Ahead
  <2>2. CASE RepositoryOf(b) # r
    <3>1. RepositoryOf(b) # None
      BY OneRepository, Settings
    <3>2. st.currentRepository \in {None, r}
      OBVIOUS
    <3> QED BY <1>5, <1>6, <1>8, <2>2, <3>1, <3>2, Settings DEF Ahead
  <2> QED BY <2>1, <2>2
<1>9. Covers(next, E)
  BY <1>8, LogFacts DEF Covers
<1> QED BY <1>4, <1>7, <1>9

-----------------------------------------------------------------------------
(* The log of a branch. *)
LEMMA LogPageFacts ==
    ASSUME Types, NEW b \in Branches, NEW c \in 0..Len(log[b]),
           NEW newest, newest = IF c = 0 THEN Len(log[b]) ELSE c,
           NEW page, page = LogPageAt(b, c),
           NEW oldest, oldest = CHOOSE i \in page : \A j \in page : i <= j
    PROVE  /\ newest \in 1..Len(log[b]) /\ oldest \in 1..newest /\ page = oldest..newest
           /\ 1 \notin page => oldest - 1 \in 1..Len(log[b])
<1>1. newest \in 1..Len(log[b]) /\ newest \in Nat /\ LogPage \in Nat \ {0}
  BY LogFacts, Settings
<1>2. page = {i \in 1..newest : i > newest - LogPage}
  BY DEF LogPageAt
<1>3. \E i \in page : \A j \in page : i <= j
  <2>1. CASE newest - LogPage >= 1
    <3>1. newest - LogPage + 1 \in page
      BY <1>1, <1>2, <2>1
    <3>2. \A j \in page : newest - LogPage + 1 <= j
      BY <1>1, <1>2
    <3> QED BY <3>1, <3>2
  <2>2. CASE newest - LogPage < 1
    BY <1>1, <1>2, <2>2
  <2> QED BY <1>1, <2>1, <2>2
<1>4. oldest \in page /\ \A j \in page : oldest <= j
  BY <1>3
<1>5. page = oldest..newest
  BY <1>1, <1>2, <1>4
<1> QED BY <1>1, <1>2, <1>4, <1>5, LogFacts

\* A page cuts a log in three.
LEMMA Cut ==
    ASSUME NEW len \in Nat, NEW newest \in 1..len, NEW oldest \in 1..newest
    PROVE  /\ oldest..newest \subseteq 1..len
           /\ \A i \in 1..len :
                 /\ i > newest \/ i \in oldest..newest \/ i < oldest
                 /\ \A j \in oldest..newest : j >= i => j \in i..len
                 /\ i < oldest => /\ 1 \notin oldest..newest /\ oldest..newest \subseteq i..len
                                  /\ i <= oldest - 1
OBVIOUS

\* The part of a page of a log that is in the window, and the cursor after it.
Read(b, page) == {i \in page : \A j \in page : j >= i => InWindow(log[b][j])}
Oldest(page) == CHOOSE i \in page : \A j \in page : i <= j
CommitsRead(st, b) == {log[b][i] : i \in Read(b, LogPageAt(b, st.logCursor))}
AfterLog(st, b) ==
    LET page == LogPageAt(b, st.logCursor)
        step == [st EXCEPT !.branchQueue = @ \ {b}, !.currentBranch = b,
                           !.logCursor = Oldest(page) - 1]
    IN  IF 1 \notin page /\ Read(b, page) = page THEN step ELSE EndBranch(step)

LEMMA ReadNext ==
    ASSUME Types, NEW st \in State, CursorOK(st), NEW E, Covers(st, E),
           st.branchesLoaded, NEW b \in Branches,
           st.currentBranch = None => b \in st.branchQueue,
           st.currentBranch # None => b = st.currentBranch,
           NEW next, next = AfterLog(st, b),
           NEW events, events = CommitsRead(st, b)
    PROVE  /\ next \in State /\ CursorOK(next) /\ events \subseteq Commits
           /\ Covers(next, E \cup events)
<1>a. PICK page : page = LogPageAt(b, st.logCursor)
  OBVIOUS
<1>b. PICK read : read = Read(b, page)
  OBVIOUS
<1>c. PICK oldest : oldest = Oldest(page)
  OBVIOUS
<1>d. PICK step : step = [st EXCEPT !.branchQueue = @ \ {b}, !.currentBranch = b,
                                    !.logCursor = oldest - 1]
  OBVIOUS
<1>e. /\ next = IF 1 \notin page /\ read = page THEN step ELSE EndBranch(step)
      /\ events = {log[b][i] : i \in read}
  BY <1>a, <1>b, <1>c, <1>d DEF AfterLog, CommitsRead
<1>1. st.logCursor \in 0..Len(log[b])
  BY LogFacts, Settings DEF CursorOK, State
<1>2. PICK newest : newest = IF st.logCursor = 0 THEN Len(log[b]) ELSE st.logCursor
  OBVIOUS
<1>3. /\ newest \in 1..Len(log[b]) /\ oldest \in 1..newest /\ page = oldest..newest
      /\ 1 \notin page => oldest - 1 \in 1..Len(log[b])
      /\ Len(log[b]) \in Nat /\ newest \in Nat /\ oldest \in Nat
      /\ 1 <= oldest /\ oldest <= newest /\ newest <= Len(log[b])
  <2>1. /\ newest \in 1..Len(log[b]) /\ oldest \in 1..newest /\ page = oldest..newest
        /\ 1 \notin page => oldest - 1 \in 1..Len(log[b])
        /\ Len(log[b]) \in Nat
    BY <1>1, <1>2, <1>a, <1>c, LogPageFacts, LogFacts DEF Oldest
  <2> QED BY <2>1
<1>4. b # None /\ st.currentRepository # None
  BY Settings DEF CursorOK
<1>5. PICK more : more = (1 \notin page /\ read = page)
  OBVIOUS
<1>6. /\ next \in State
      /\ next.discoveryCursor = st.discoveryCursor
      /\ next.discoveryComplete = st.discoveryComplete
      /\ next.repositoryQueue = st.repositoryQueue
      /\ next.currentRepository = st.currentRepository
      /\ next.referenceCursor = st.referenceCursor
      /\ next.branchesLoaded = st.branchesLoaded
      /\ next.branchQueue = st.branchQueue \ {b}
      /\ next.currentBranch = (IF more THEN b ELSE None)
      /\ next.logCursor = (IF more THEN oldest - 1 ELSE 0)
  <2>1. CASE more
    <3>1. oldest - 1 \in Nat
      BY <1>3
    <3>2. next = step
      BY <1>5, <1>e, <2>1
    <3> QED BY <1>d, <2>1, <3>1, <3>2 DEF State
  <2>2. CASE ~more
    <3>1. next = EndBranch(step)
      BY <1>5, <1>e, <2>2
    <3>2. next = [st EXCEPT !.branchQueue = st.branchQueue \ {b}, !.currentBranch = None,
                            !.logCursor = 0]
      BY <1>d, <3>1 DEF EndBranch, State
    <3>3. st.branchQueue \ {b} \subseteq Branches /\ 0 \in Nat
      BY DEF State
    <3> QED BY <2>2, <3>2, <3>3 DEF State
  <2> QED BY <2>1, <2>2, <1>5
<1>7. CursorOK(next)
  <2>1. None \notin next.branchQueue /\ b \notin next.branchQueue
    BY <1>6, Settings DEF State
  <2>2. IF more THEN next.currentBranch = b /\ next.logCursor \in 1..Len(log[b])
                ELSE next.currentBranch = None /\ next.logCursor = 0
    BY <1>3, <1>5, <1>6
  <2>3. /\ st.currentRepository \notin st.repositoryQueue
        /\ st.referenceCursor = Len(References[st.currentRepository])
        /\ Len(References[st.currentRepository]) \in Nat
    BY <1>4, LenProperties, WorldAssumption DEF CursorOK, State
  <2> QED BY <1>4, <1>6, <2>1, <2>2, <2>3 DEF CursorOK
<1>8. events \subseteq Commits
  <2>1. page \subseteq 1..Len(log[b]) /\ read \subseteq page
    BY <1>3, <1>b, Cut DEF Read
  <2>2. \A i \in read : log[b][i] \in Commits
    BY <2>1, LogFacts
  <2> QED BY <1>e, <2>2
<1>9. ASSUME NEW i \in PromisedOn(b), Ahead(st, b, i)
      PROVE  i \in read \/ Ahead(next, b, i)
  <2>1. i \in 1..Len(log[b]) /\ \A j \in i..Len(log[b]) : InWindow(log[b][j])
    BY <1>9, LogFacts DEF PromisedOn, Walked
  <2>2. /\ i > newest \/ i \in page \/ i < oldest
        /\ \A j \in page : j >= i => j \in i..Len(log[b])
        /\ i < oldest => 1 \notin page /\ page \subseteq i..Len(log[b]) /\ i <= oldest - 1
    BY <1>3, <2>1, Cut
  <2>3. CASE i > newest
    <3>1. st.logCursor # 0 /\ st.currentBranch = b
      BY <1>2, <1>3, <2>1, <2>3, <1>4 DEF CursorOK
    <3>2. ~(b = st.currentBranch /\ i <= st.logCursor) /\ b \notin st.branchQueue
      BY <1>2, <1>3, <2>1, <2>3, <3>1 DEF CursorOK
    <3> QED BY <1>6, <1>9, <3>2 DEF Ahead
  <2>4. CASE i \in page
    BY <1>b, <2>1, <2>2, <2>4 DEF Read
  <2>5. CASE i < oldest
    <3>1. more
      BY <1>5, <1>b, <2>1, <2>2, <2>5 DEF Read
    <3>2. b = next.currentBranch /\ i <= next.logCursor
      BY <1>6, <2>2, <2>5, <3>1
    <3> QED BY <3>2 DEF Ahead
  <2> QED BY <2>2, <2>3, <2>4, <2>5
<1>10. ASSUME NEW d \in Branches, d # b, NEW i \in PromisedOn(d), Ahead(st, d, i)
       PROVE  Ahead(next, d, i)
  <2>1. d # st.currentBranch
    BY <1>10, Settings
  <2> QED BY <1>6, <1>10, <2>1 DEF Ahead
<1>11. Covers(next, E \cup events)
  BY <1>9, <1>10, <1>e DEF Covers
<1> QED BY <1>6, <1>7, <1>8, <1>11

-----------------------------------------------------------------------------
(* The steps of a pass. *)
LEMMA NewStateOK ==
    ASSUME Types
    PROVE  NewState \in State /\ CursorOK(NewState)
<1>1. 0 \in 0..Len(Listing) /\ Configured \subseteq Repositories
  BY Settings, LenProperties
<1>2. NewState \in State
  BY <1>1 DEF NewState, State
<1>3. CursorOK(NewState)
  BY Settings DEF NewState, CursorOK
<1> QED BY <1>2, <1>3

\* A cursor with nothing left to read has nothing before it.
LEMMA ExhaustedCovers ==
    ASSUME Types, NEW st \in State, CursorOK(st), Exhausted(st), NEW E, Covers(st, E)
    PROVE  Promised \subseteq E
<1>1. ASSUME NEW b \in Branches, NEW i
      PROVE  ~Ahead(st, b, i)
  BY OneRepository, Settings DEF Ahead, Exhausted, CursorOK
<1> QED BY <1>1 DEF Covers, Promised

\* The window moves on, or a branch grows.
LEMMA WindowMoves ==
    ASSUME Types, Types', NEW E,
           \/ log' = log /\ since' >= since
           \/ since' = since /\ \E d \in Branches, c \in Commits : log' = [log EXCEPT ![d] = Append(@, c)]
    PROVE  /\ \A st \in State : CursorOK(st) => CursorOK(st)'
           /\ \A st \in State : Covers(st, E) => Covers(st, E)'
           /\ Promised' \subseteq Promised
<1>1. /\ since \in Nat /\ since' \in Nat
      /\ log \in [Branches -> Seq(Commits)] /\ log' \in [Branches -> Seq(Commits)]
  BY Settings DEF Types, TypeOK, PassTypeOK
<1>2. ASSUME NEW b \in Branches
      PROVE  /\ Len(log[b]) \in Nat /\ Len(log'[b]) \in Nat /\ Len(log[b]) <= Len(log'[b])
             /\ \A i \in 1..Len(log[b]) : log'[b][i] = log[b][i] /\ log[b][i] \in Commits
  <2>1. log[b] \in Seq(Commits)
    BY <1>1
  <2>2. log'[b] = log[b] \/ \E c \in Commits : log'[b] = Append(log[b], c)
    BY <1>1
  <2> QED BY <2>1, <2>2, AppendProperties, LenProperties, ElementOfSeq
<1>3. \A st \in State : CursorOK(st) => CursorOK(st)'
  <2> SUFFICES ASSUME NEW st \in State, st.currentBranch # None,
                      st.logCursor \in 1..Len(log[st.currentBranch])
               PROVE  st.logCursor \in 1..Len(log'[st.currentBranch])
    BY DEF CursorOK
  <2>1. st.currentBranch \in Branches
    BY DEF State
  <2> QED BY <1>2, <2>1
<1>4. ASSUME NEW b \in Branches
      PROVE  /\ PromisedOn(b)' \subseteq PromisedOn(b)
             /\ \A i \in PromisedOn(b)' : log'[b][i] = log[b][i]
  <2> SUFFICES ASSUME NEW i \in DOMAIN World[b], Walked(b, i)'
               PROVE  Walked(b, i) /\ log'[b][i] = log[b][i]
    BY DEF PromisedOn
  <2>1. i \in Nat /\ i \in 1..Len(log[b])
    <3>1. World[b] \in Seq(Commits) /\ Len(World[b]) <= Len(log[b])
      BY WorldAssumption DEF Types, LogGrows
    <3> QED BY <1>2, <3>1, LenProperties
  <2>2. ASSUME NEW j \in i..Len(log[b])
        PROVE  InWindow(log[b][j])
    <3>1. j \in 1..Len(log[b]) /\ j \in i..Len(log'[b])
      BY <1>2, <2>1
    <3>2. log'[b][j] = log[b][j] /\ AuthorTime[log[b][j]] \in Nat
      BY <1>2, <3>1, Settings
    <3>3. AuthorTime[log[b][j]] >= since'
      BY <3>1, <3>2 DEF Walked, InWindow
    <3> QED BY <1>1, <3>2, <3>3 DEF InWindow
  <2> QED BY <1>2, <2>1, <2>2 DEF Walked
<1>5. \A st \in State : Covers(st, E) => Covers(st, E)'
  BY <1>4 DEF Covers
<1>6. Promised' \subseteq Promised
  BY <1>4 DEF Promised
<1> QED BY <1>3, <1>5, <1>6

LEMMA TypesStay ==
    ASSUME Types, TypeOK', log' = log
    PROVE  Types'
BY DEF Types, LogGrows

\* Nothing that the invariant says of cursors depends on the pass.
LEMMA SameWindow ==
    ASSUME log' = log, since' = since
    PROVE  /\ \A st \in State : CursorOK(st)' <=> CursorOK(st)
           /\ \A st \in State, E \in SUBSET Commits : Covers(st, E)' <=> Covers(st, E)
           /\ Promised' = Promised
BY DEF CursorOK, Covers, Promised, PromisedOn, Walked, InWindow

LEMMA ReportStep ==
    ASSUME BackfillInv, log' = log, NEW next \in State, NEW events \in SUBSET Commits,
           CursorOK(next), MayFetch => Covers(next, stored \cup fetched \cup events),
           \/ Report(events, next)
           \/ Return(events, next, Exhausted(next))
    PROVE  BackfillInv'
<1>1. /\ MayFetch /\ fetched' = fetched \cup events /\ complete' = Exhausted(next)
      /\ state' \in {next, NewState} /\ (~complete' => state' = next) /\ tries' = tries - 1
      /\ UNCHANGED <<since, committed, running, failures>>
  BY DEF Report, Return
<1>2. NewState \in State /\ CursorOK(NewState)
  BY NewStateOK DEF BackfillInv
<1>3. Types'
  <2>1. tries - 1 \in 0..BatchesPerService
    BY <1>1, Settings DEF BackfillInv, Types, TypeOK, PassTypeOK, MayFetch
  <2>2. complete' \in BOOLEAN
    BY <1>1 DEF Exhausted
  <2> QED BY <1>1, <1>2, <2>1, <2>2, TypesStay
          DEF BackfillInv, Types, TypeOK, PassTypeOK, committed
<1>4. stored \cup fetched \in SUBSET Commits /\ stored \in SUBSET Commits /\ saved \in State
  BY DEF BackfillInv, Types, TypeOK, PassTypeOK
<1>5. /\ CursorOK(saved)' /\ CursorOK(state)'
      /\ status' = "in_progress" => Covers(saved, stored)'
  BY <1>1, <1>2, <1>4, SameWindow DEF BackfillInv, committed, CursorOK, Covers
<1>6. complete' => Promised' \subseteq stored' \cup fetched'
  BY <1>1, <1>4, ExhaustedCovers, SameWindow DEF BackfillInv, committed
<1>7. ~complete' => Covers(state, stored \cup fetched)'
  <2>1. PICK E \in SUBSET Commits : E = stored \cup fetched \cup events
    BY <1>4
  <2>2. Covers(next, E)'
    BY <1>1, <2>1, SameWindow
  <2>3. stored' \cup fetched' = E
    BY <1>1, <2>1 DEF committed
  <2> QED BY <1>1, <2>2, <2>3 DEF Covers
<1> QED BY <1>1, <1>3, <1>5, <1>6, <1>7 DEF BackfillInv, committed, MayFetch

\* The steps that begin or end a pass: what they leave is the committed cursor.
LEMMA RestStep ==
    ASSUME BackfillInv, Types', log' = log,
           \/ Begin
           \/ Commit
           \/ Fail
    PROVE  BackfillInv'
<1>1. /\ saved \in State /\ state \in State /\ stored \in SUBSET Commits
      /\ stored \cup fetched \in SUBSET Commits /\ since \in Nat
  BY Settings DEF BackfillInv, Types, TypeOK, PassTypeOK
<1>2. CASE Begin
  <2>1. /\ state' = saved /\ running' /\ status' = "in_progress" /\ saved' = saved
        /\ stored' = stored /\ fetched' = fetched /\ complete' = complete /\ since' >= since
        /\ ~running
    BY <1>1, <1>2, Settings DEF Begin, committed, BackfillInv, Types, TypeOK, PassTypeOK
  <2>2. ~complete /\ CursorOK(saved) /\ Covers(saved, stored)
    BY <1>2, <2>1 DEF BackfillInv, Begin
  <2>3. PICK E : E = stored
    OBVIOUS
  <2>4. CursorOK(saved)' /\ Covers(saved, E)'
    <3>1. PICK st \in State : st = saved /\ saved' = st
      BY <1>1, <2>1
    <3>2. CursorOK(st)' /\ Covers(st, E)'
      BY <2>1, <2>2, <2>3, <3>1, WindowMoves DEF BackfillInv
    <3> QED BY <3>1, <3>2 DEF CursorOK, Covers
  <2> QED BY <2>1, <2>2, <2>3, <2>4 DEF BackfillInv, CursorOK, Covers
<1>3. CASE Commit
  <2>1. /\ saved' = state /\ state' = state /\ ~running' /\ ~complete' /\ since' = since
        /\ stored' = stored \cup fetched
        /\ status' = "in_progress" => ~complete
        /\ running
    BY <1>3 DEF Commit, Rest
  <2>2. PICK st \in State : st = state /\ state' = st
    BY <1>1, <2>1
  <2>3. PICK E \in SUBSET Commits : E = stored \cup fetched
    BY <1>1
  <2>4. CursorOK(st)' /\ (~complete => Covers(st, E)')
    BY <2>1, <2>2, <2>3, SameWindow DEF BackfillInv
  <2> QED BY <2>1, <2>2, <2>3, <2>4 DEF BackfillInv, CursorOK, Covers
<1>4. CASE Fail
  <2>1. /\ saved' = saved /\ state' = saved /\ ~running' /\ ~complete' /\ since' = since
        /\ stored' = stored /\ status' = status
    BY <1>4 DEF Fail, Rest, committed
  <2>2. PICK st \in State : st = saved /\ saved' = st
    BY <1>1, <2>1
  <2>3. PICK E \in SUBSET Commits : E = stored
    BY <1>1
  <2>4. CursorOK(st)' /\ (status = "in_progress" => Covers(st, E)')
    BY <2>1, <2>2, <2>3, SameWindow DEF BackfillInv
  <2> QED BY <2>1, <2>2, <2>3, <2>4 DEF BackfillInv, CursorOK, Covers
<1> QED BY <1>2, <1>3, <1>4

LEMMA PassTypes ==
    ASSUME BackfillInv, log' = log, Begin \/ Commit \/ Fail
    PROVE  Types'
<1> USE DEF BackfillInv, Types, TypeOK, PassTypeOK, committed, Rest
<1>1. CASE Begin
  <2>1. since' \in 0..Start /\ BatchesPerService \in 0..BatchesPerService
    BY <1>1, Settings DEF Begin
  <2> QED BY <1>1, <2>1, TypesStay DEF Begin
<1>2. CASE Commit
  <2>1. 0 \in 0..BatchesPerService
    BY Settings
  <2> QED BY <1>2, <2>1, TypesStay DEF Commit
<1>3. CASE Fail
  <2>1. 0 \in 0..BatchesPerService /\ failures' \in 0..MaxFailures
    BY <1>3, Settings DEF Fail
  <2> QED BY <1>3, <2>1, TypesStay DEF Fail
<1> QED BY <1>1, <1>2, <1>3

LEMMA BatchStep ==
    ASSUME BackfillInv, Batch
    PROVE  BackfillInv'
<1>1. /\ Types /\ state \in State /\ CursorOK(state) /\ log' = log
      /\ stored \cup fetched \in SUBSET Commits
      /\ MayFetch => Covers(state, stored \cup fetched)
  BY DEF BackfillInv, Types, TypeOK, PassTypeOK, MayFetch, Batch
<1>2. PICK st \in State : st = state
  BY <1>1
<1>3. PICK E \in SUBSET Commits : E = stored \cup fetched
  BY <1>1
<1>4. CursorOK(st) /\ MayFetch /\ Covers(st, E)
  BY <1>1, <1>2, <1>3
     DEF Batch, Discover, ListReferences, LeaveRepository, ReadLog, Report, Return
<1>5. CASE Discover
  <2>1. PICK last : last = PageEnd(Listing, st.discoveryCursor, RepositoryPage)
    OBVIOUS
  <2>2. PICK page : page = Page(Listing, st.discoveryCursor, RepositoryPage)
    OBVIOUS
  <2>3. PICK next : next = [st EXCEPT !.discoveryCursor = last,
                                      !.discoveryComplete = last = Len(Listing),
                                      !.repositoryQueue = @ \cup (page \cap Public)]
    OBVIOUS
  <2>4. ~st.discoveryComplete /\ Return({}, next, Exhausted(next))
    BY <1>2, <1>5, <2>1, <2>2, <2>3 DEF Discover
  <2>5. next \in State /\ CursorOK(next) /\ Covers(next, E)
    BY <1>1, <1>4, <2>1, <2>2, <2>3, <2>4, DiscoverNext
  <2>6. Covers(next, stored \cup fetched \cup {})
    BY <1>3, <2>5 DEF Covers
  <2> QED BY <1>1, <2>4, <2>5, <2>6, ReportStep
<1>6. ASSUME NEW r \in Repositories, ListReferences(r)
      PROVE  BackfillInv'
  <2>1. PICK step : step = Listed(st, r)
    OBVIOUS
  <2>2. PICK next : next = IF step.branchesLoaded /\ step.branchQueue = {}
                           THEN Leave(step) ELSE step
    OBVIOUS
  <2>3. /\ st.discoveryComplete /\ ~st.branchesLoaded /\ Report({}, next)
        /\ st.currentRepository = None => r \in st.repositoryQueue
        /\ st.currentRepository # None => r = st.currentRepository
    BY <1>2, <1>6, <2>1, <2>2 DEF ListReferences, Listed
  <2>4. step \in State /\ CursorOK(step) /\ Covers(step, E)
    BY <1>1, <1>4, <2>1, <2>3, ReferencesNext
  <2>5. step.currentBranch = None
    BY <1>4, <2>1, <2>3 DEF CursorOK, State, Listed
  <2>6. next \in State /\ CursorOK(next) /\ Covers(next, E)
    BY <1>1, <2>2, <2>4, <2>5, LeaveFacts
  <2>7. Covers(next, stored \cup fetched \cup {})
    BY <1>3, <2>6 DEF Covers
  <2> QED BY <1>1, <2>3, <2>6, <2>7, ReportStep
<1>7. CASE LeaveRepository
  <2>1. PICK next : next = Leave(st)
    OBVIOUS
  <2>2. /\ st.branchesLoaded /\ st.currentBranch = None /\ st.branchQueue = {}
        /\ Report({}, next)
    BY <1>2, <1>7, <2>1 DEF LeaveRepository
  <2>3. next \in State /\ CursorOK(next) /\ Covers(next, E)
    BY <1>1, <1>4, <2>1, <2>2, LeaveFacts
  <2>4. Covers(next, stored \cup fetched \cup {})
    BY <1>3, <2>3 DEF Covers
  <2> QED BY <1>1, <2>2, <2>3, <2>4, ReportStep
<1>8. ASSUME NEW b \in Branches, ReadLog(b)
      PROVE  BackfillInv'
  <2>1. PICK next : next = AfterLog(st, b)
    OBVIOUS
  <2>2. PICK events : events = CommitsRead(st, b)
    OBVIOUS
  <2>3. /\ st.branchesLoaded /\ Report(events, next)
        /\ st.currentBranch = None => b \in st.branchQueue
        /\ st.currentBranch # None => b = st.currentBranch
    BY <1>2, <1>8, <2>1, <2>2 DEF ReadLog, AfterLog, CommitsRead, Read, Oldest
  <2>4. /\ next \in State /\ CursorOK(next) /\ events \in SUBSET Commits
        /\ Covers(next, E \cup events)
    BY <1>1, <1>4, <2>1, <2>2, <2>3, ReadNext
  <2> QED BY <1>1, <1>3, <2>3, <2>4, ReportStep
<1> QED BY <1>5, <1>6, <1>7, <1>8 DEF Batch

-----------------------------------------------------------------------------
LEMMA BackfillInit == Init => BackfillInv
<1> SUFFICES ASSUME Init PROVE BackfillInv
  OBVIOUS
<1>1. Types
  <2>1. NewState \in State
    BY Settings, LenProperties DEF NewState, State
  <2>2. 0 \in 0..BatchesPerService /\ 0 \in 0..MaxFailures
    BY Settings
  <2>3. TypeOK
    BY <2>1, <2>2, WorldAssumption DEF Init, PassInit, TypeOK, PassTypeOK
  <2>4. \A b \in Branches : Len(World[b]) \in Nat
    BY WorldAssumption, LenProperties
  <2> QED BY <2>3, <2>4 DEF Types, LogGrows, Init
<1>2. CursorOK(NewState)
  BY <1>1, NewStateOK
<1>3. Covers(NewState, {})
  <2> SUFFICES ASSUME NEW b \in Branches, NEW i \in PromisedOn(b) PROVE Ahead(NewState, b, i)
    BY DEF Covers
  <2>1. RepositoryOf(b) \in Public \cup Configured
    BY DEF PromisedOn
  <2>2. Beyond(Listing, 0) = Range(Listing)
    BY Settings, LenProperties DEF Beyond, Range
  <2> QED BY <2>1, <2>2, Settings DEF Ahead, NewState
<1>4. /\ saved = NewState /\ state = NewState /\ stored = {}
      /\ ~running /\ ~complete /\ status = "in_progress"
  BY DEF Init, PassInit
<1> QED BY <1>1, <1>2, <1>3, <1>4 DEF BackfillInv

LEMMA PushStep ==
    ASSUME BackfillInv, Push
    PROVE  BackfillInv'
<1>1. PICK b \in Branches, c \in Commits : log' = [log EXCEPT ![b] = Append(@, c)]
  BY DEF Push
<1>2. UNCHANGED passVars /\ UNCHANGED <<since, saved, stored, status, running, state, fetched, complete>>
  BY DEF Push, passVars, committed
<1>3. /\ Types /\ saved \in State /\ state \in State
      /\ log \in [Branches -> Seq(Commits)]
  BY DEF BackfillInv, Types, TypeOK, PassTypeOK
<1>4. Types'
  <2>1. Append(log[b], c) \in Seq(Commits)
    BY <1>3, AppendProperties
  <2>2. TypeOK'
    BY <1>1, <1>2, <1>3, <2>1 DEF Types, TypeOK, PassTypeOK, passVars, committed
  <2>3. ASSUME NEW d \in Branches
        PROVE  /\ Len(World[d]) <= Len(log'[d])
               /\ \A i \in DOMAIN World[d] : log'[d][i] = World[d][i]
    <3>1. /\ Len(World[d]) <= Len(log[d]) /\ \A i \in DOMAIN World[d] : log[d][i] = World[d][i]
          /\ World[d] \in Seq(Commits) /\ log[d] \in Seq(Commits)
      BY <1>3, WorldAssumption DEF Types, LogGrows
    <3>2. log'[d] = log[d] \/ log'[d] = Append(log[d], c)
      BY <1>1, <1>3
    <3>3. /\ Len(log[d]) <= Len(log'[d]) /\ Len(log[d]) \in Nat /\ Len(log'[d]) \in Nat
          /\ \A i \in 1..Len(log[d]) : log'[d][i] = log[d][i]
      BY <3>1, <3>2, AppendProperties, LenProperties
    <3>4. DOMAIN World[d] = 1..Len(World[d]) /\ Len(World[d]) \in Nat
      BY <3>1, LenProperties
    <3> QED BY <3>1, <3>3, <3>4
  <2> QED BY <2>2, <2>3 DEF Types, LogGrows
<1>5. ASSUME NEW E
      PROVE  /\ \A st \in State : CursorOK(st) => CursorOK(st)'
             /\ \A st \in State : Covers(st, E) => Covers(st, E)'
             /\ Promised' \subseteq Promised
  BY <1>1, <1>2, <1>3, <1>4, WindowMoves
<1>6. PICK st \in State : st = saved
  BY <1>3
<1>7. PICK ru \in State : ru = state
  BY <1>3
<1>8. PICK E : E = stored
  OBVIOUS
<1>9. PICK F : F = stored \cup fetched
  OBVIOUS
<1>10. /\ CursorOK(st)' /\ CursorOK(ru)'
       /\ status = "in_progress" => Covers(st, E)'
       /\ running /\ ~complete => Covers(ru, F)'
  BY <1>5, <1>6, <1>7, <1>8, <1>9 DEF BackfillInv
<1>11. CursorOK(saved)' /\ CursorOK(state)'
  BY <1>2, <1>6, <1>7, <1>10 DEF CursorOK
<1>12. /\ status' = "in_progress" => Covers(saved, stored)'
       /\ running' /\ ~complete' => Covers(state, stored \cup fetched)'
  BY <1>2, <1>6, <1>7, <1>8, <1>9, <1>10 DEF Covers
<1>13. complete' => running' /\ Promised' \subseteq stored' \cup fetched'
  BY <1>2, <1>5 DEF BackfillInv
<1>14. running' => status' = "in_progress"
  BY <1>2 DEF BackfillInv
<1> QED BY <1>4, <1>11, <1>12, <1>13, <1>14 DEF BackfillInv

LEMMA BackfillStep == BackfillInv /\ [Next]_vars => BackfillInv'
<1> SUFFICES ASSUME BackfillInv, [Next]_vars PROVE BackfillInv'
  OBVIOUS
<1>1. CASE Batch
  BY <1>1, BatchStep
<1>2. CASE (Begin \/ Commit \/ Fail) /\ UNCHANGED log
  BY <1>2, PassTypes, RestStep
<1>3. CASE Push
  BY <1>3, PushStep
<1>4. CASE UNCHANGED vars
  BY <1>4 DEF vars, passVars, committed, BackfillInv, Types, TypeOK, PassTypeOK, LogGrows,
     CursorOK, Covers, Promised, PromisedOn, Walked, InWindow
<1> QED BY <1>1, <1>2, <1>3, <1>4 DEF Next, Work

LEMMA BackfillInvariant == Spec => []BackfillInv
BY BackfillInit, BackfillStep, PTL DEF Spec

\* Cursors never leave the listing they belong to, and a pass keeps to the
\* number of batches that RECENT_BACKFILL_BATCHES_PER_SERVICE allows it.
THEOREM BackfillTypes == Spec => []TypeOK
<1>1. BackfillInv => TypeOK
  BY DEF BackfillInv, Types
<1> QED BY <1>1, BackfillInvariant, PTL

\* Whether fetch_recent_backfill_batch is cut off by a failure, by the limit of
\* batches or by the death of the process, the cursor it is resumed with has
\* every commit still to read before it.
THEOREM NothingIsLost == Spec => []NothingLost
<1>1. BackfillInv => NothingLost
  BY DEF BackfillInv, Covers, NothingLost
<1> QED BY <1>1, BackfillInvariant, PTL

-----------------------------------------------------------------------------
(* The backfill is a scan. *)
LEMMA ScanInit == Init => Scan!ScanInit
<1> SUFFICES ASSUME Init PROVE Scan!ScanInit
  OBVIOUS
<1>1. Types
  BY BackfillInit DEF BackfillInv
<1>2. Promised \subseteq Commits
  BY <1>1, LogFacts DEF Promised
<1> QED BY <1>2 DEF Scan!ScanInit, Init, PassInit

LEMMA ScanStep ==
    ASSUME BackfillInv, BackfillInv', [Next]_vars
    PROVE  [Scan!ScanNext]_(Scan!scanVars)
<1>1. ASSUME UNCHANGED <<stored, status>>, Promised' \subseteq Promised
      PROVE  [Scan!ScanNext]_(Scan!scanVars)
  BY <1>1 DEF Scan!ScanNext, Scan!Shrink
<1>2. CASE Batch \/ ((Begin \/ Fail) /\ UNCHANGED log)
  <2>1. UNCHANGED <<stored, status>>
    BY <1>2 DEF Batch, Discover, ListReferences, LeaveRepository, ReadLog, Report, Return,
       Begin, Fail, committed
  <2>2. log' = log /\ since' >= since
    <3>1. since \in Nat
      BY Settings DEF BackfillInv, Types, TypeOK, PassTypeOK
    <3>2. log' = log
      BY <1>2 DEF Batch
    <3>3. since' = since \/ since' \in since..Start
      BY <1>2 DEF Batch, Discover, ListReferences, LeaveRepository, ReadLog, Report, Return,
         Begin, Fail
    <3> QED BY <3>1, <3>2, <3>3, Settings
  <2>3. Promised' \subseteq Promised
    BY <2>2, WindowMoves DEF BackfillInv
  <2> QED BY <1>1, <2>1, <2>3
<1>3. CASE Commit /\ UNCHANGED log
  <2>1. /\ stored' = stored \cup fetched /\ log' = log /\ since' = since
        /\ status' = IF complete THEN "completed" ELSE "in_progress"
        /\ running
    BY <1>3 DEF Commit
  <2>2. /\ status = "in_progress" /\ stored \cup fetched \subseteq Commits
        /\ complete => Promised \subseteq stored \cup fetched
    BY <2>1 DEF BackfillInv, Types, TypeOK, PassTypeOK
  <2>3. Promised' = Promised
    BY <2>1, SameWindow
  <2>4. Scan!CommitPass
    BY <2>1, <2>2, <2>3 DEF Scan!CommitPass
  <2> QED BY <2>4 DEF Scan!ScanNext
<1>4. CASE Push
  <2>1. PICK b \in Branches, c \in Commits : log' = [log EXCEPT ![b] = Append(@, c)]
    BY <1>4 DEF Push
  <2>2. UNCHANGED <<stored, status, since>>
    BY <1>4 DEF Push, passVars, committed
  <2>3. Promised' \subseteq Promised
    BY <2>1, <2>2, WindowMoves DEF BackfillInv
  <2> QED BY <1>1, <2>2, <2>3
<1>5. CASE UNCHANGED vars
  <2>1. UNCHANGED <<stored, status>> /\ log' = log /\ since' = since
    BY <1>5 DEF vars, passVars, committed
  <2>2. Promised' = Promised
    BY <2>1, SameWindow
  <2> QED BY <1>1, <2>1, <2>2
<1> QED BY <1>2, <1>3, <1>4, <1>5 DEF Next, Work

\* The poller may rely on the backfill of git.sr.ht as it does on any: passes
\* only ever add commits to what is stored, and "completed" is reported when
\* everything that was in the window all along is.
THEOREM BackfillIsScan == Spec => IsScan
<1>1. BackfillInv /\ BackfillInv' /\ [Next]_vars => [Scan!ScanNext]_(Scan!scanVars)
  BY ScanStep
<1> QED BY <1>1, ScanInit, BackfillInvariant, PTL DEF Spec, IsScan, Scan!ScanSpec
=============================================================================
