---------------------------- MODULE PaperDiscovery ----------------------------
(***************************************************************************)
(* GET /papers/search: ask arXiv, then look up and upsert every result in   *)
(* one database transaction.                                                *)
(*                                                                         *)
(* arXiv publishes new versions while searches run; a response is a page    *)
(* of that moment.  PostgreSQL runs READ COMMITTED: a read sees what is     *)
(* committed or its own writes, a write waits for the transaction that      *)
(* holds the row or the unique key, and a deadlock costs one search its     *)
(* transaction.  SQLAlchemy's UPDATE sets only the columns that differ from *)
(* what this session loaded.                                                *)
(*                                                                         *)
(* Of a paper's metadata two columns are kept: the title, which a revision  *)
(* may change, and the date, which it always changes.  Waiting between      *)
(* attempts and the text of queries, feeds and errors are left out.         *)
(***************************************************************************)
EXTENDS Naturals, FiniteSets, Sequences, Functions

CONSTANTS Request,        \* the threads that run searches
          Paper,          \* arXiv's papers that searches find
          MaxVersion,     \* bound on the versions of a paper
          Title,          \* [1..MaxVersion -> the title of that version]
          Shape,          \* the result pages: sequences of [paper, lag]
          MaxRetries,     \* ARXIV_MAX_RETRIES
          DefaultResults, \* ARXIV_DEFAULT_MAX_RESULTS
          ResultsLimit,   \* ARXIV_MAX_RESULTS_LIMIT
          DateRange,          \* the papers that a date range lets through
          MaxSearches,    \* bound on the searches of one behaviour
          MaxErrors,      \* bound on the exceptions of one behaviour
          None

Version == 1..MaxVersion
Metadata == [title : {Title[v] : v \in Version}, updated : Version]

ASSUME VersionAssumption == MaxVersion \in Nat \ {0}
ASSUME NoneAssumption == None \notin Metadata \cup Nat
ASSUME RetriesAssumption == MaxRetries \in Nat
ASSUME BoundsAssumption == MaxSearches \in Nat /\ MaxErrors \in Nat
ASSUME LimitAssumption == ResultsLimit \in Nat /\ DefaultResults \in 1..ResultsLimit
ASSUME DateRangeAssumption == DateRange \subseteq SUBSET Paper
ASSUME TitleAssumption == DOMAIN Title = Version
\* lag: how far behind the newest version, None: an id without a version.
ASSUME ShapeAssumption == Shape \subseteq Seq([paper : Paper, lag : Nat \cup {None}])
\* arXiv lists the newest version of a paper before the older ones, if any.
ASSUME NewestAssumption ==
    \A s \in Shape : \A i \in DOMAIN s :
        s[i].lag # None => \E j \in 1..i : s[j].paper = s[i].paper /\ s[j].lag = 0

VARIABLES
    arxiv,      \* [Paper -> the newest version there]
    papers,     \* committed rows of papers: [Paper -> columns, or None]
    versions,   \* committed rows of paper_versions: [Paper -> set of versions]
    search,     \* [Request -> local state and open transaction of the search]
    news,       \* [Paper -> how many callers were told the paper is new]
    sequential, \* the callers wait for each other's answers
    searches, errors

vars == <<arxiv, papers, versions, search, news, sequential, searches, errors>>

Columns(v) == [title |-> Title[v], updated |-> v]

NoRows == [p \in Paper |-> None]
NoVersions == [p \in Paper |-> {}]

Idle == [pc |-> "idle", limit |-> 0, wanted |-> {}, attempt |-> 0, todo |-> <<>>,
         known |-> FALSE, new |-> {}, loaded |-> None, rows |-> NoRows, vers |-> NoVersions]

Active(r) == search[r].pc # "idle"

\* The results still to store, by their position on the page.
Position(todo) == CHOOSE i \in DOMAIN todo : \A j \in DOMAIN todo : i <= j
Rest(todo) == Restrict(todo, DOMAIN todo \ {Position(todo)})
Current(r) == search[r].todo[Position(search[r].todo)]

-----------------------------------------------------------------------------
(* Pure steps between the response and the repository. *)

\* Mutant: the one seen last replaces the others.
BestIsLast(s, p) ==
    s[CHOOSE i \in DOMAIN s : s[i].paper = p /\ \A j \in DOMAIN s : s[j].paper = p => j <= i]

\* _version_rank: no version ranks below every version.
Rank(e) == IF e.version = None THEN 0 ELSE e.version

\* The highest version of p on the page, the first of equals.
Best(s, p) ==
    s[CHOOSE i \in DOMAIN s :
        /\ s[i].paper = p
        /\ \A j \in DOMAIN s : s[j].paper = p =>
             Rank(s[j]) < Rank(s[i]) \/ (Rank(s[j]) = Rank(s[i]) /\ i <= j)]

\* One entry per paper, where the paper first appears.
Deduplicate(s) ==
    [i \in {i \in DOMAIN s : \A j \in 1..(i - 1) : s[j].paper # s[i].paper}
       |-> Best(s, s[i].paper)]

\* The date range, on the page at hand only.
FilterByDateRange(s, wanted) == Restrict(s, {i \in DOMAIN s : s[i].paper \in wanted})

\* A configured default; more than the limit is refused, not clamped.
ResolveMaxResults(requested) == IF requested = None THEN DefaultResults ELSE requested
Refused(requested) == requested # None /\ requested > ResultsLimit

\* An entry as arXiv sends it now: a page lists no version before the first.
Entry(x) ==
    LET now == arxiv[x.paper]
        v == IF x.lag = None THEN now ELSE IF x.lag < now THEN now - x.lag ELSE 1
    IN  [paper |-> x.paper, version |-> IF x.lag = None THEN None ELSE v,
         columns |-> Columns(v)]

Page(shape, limit) ==
    [i \in 1..(IF Len(shape) < limit THEN Len(shape) ELSE limit) |-> Entry(shape[i])]

-----------------------------------------------------------------------------
(* The request and arXiv. *)

\* Some papers were found, at their first version, by searches long over.
Init ==
    /\ arxiv = [p \in Paper |-> 1]
    /\ \E found \in SUBSET Paper :
         /\ papers = [p \in Paper |-> IF p \in found THEN Columns(1) ELSE None]
         /\ versions = [p \in Paper |-> IF p \in found THEN {1} ELSE {}]
         /\ news = [p \in Paper |-> IF p \in found THEN 1 ELSE 0]
    /\ search = [r \in Request |-> Idle]
    /\ sequential \in BOOLEAN
    /\ searches = 0
    /\ errors = 0

\* arXiv's side: an author posts a revision.
Revise(p) ==
    /\ arxiv[p] < MaxVersion
    /\ arxiv' = [arxiv EXCEPT ![p] = @ + 1]
    /\ UNCHANGED <<papers, versions, search, news, sequential, searches, errors>>

\* search_papers, up to the first call of arXiv.
Start(r, requested, wanted) ==
    /\ ~Active(r)
    /\ sequential => \A q \in Request : ~Active(q)
    /\ searches < MaxSearches
    /\ searches' = searches + 1
    /\ search' = [search EXCEPT ![r] =
                    IF Refused(requested) THEN Idle
                    ELSE [Idle EXCEPT !.pc = "get", !.attempt = 1, !.wanted = wanted,
                                      !.limit = ResolveMaxResults(requested)]]
    /\ UNCHANGED <<arxiv, papers, versions, news, sequential, errors>>

\* The next result, or the commit when there is none left.
NextResult(q, rest) ==
    [q EXCEPT !.todo = rest, !.loaded = None, !.known = FALSE,
              !.pc = IF DOMAIN rest = {} THEN "commit" ELSE "lookup"]

\* A page arrives whole and parses.
Respond(r) ==
    /\ search[r].pc = "get"
    /\ \E shape \in Shape :
         LET page == Page(shape, search[r].limit) IN
         search' = [search EXCEPT ![r] =
                      NextResult(Idle, FilterByDateRange(Deduplicate(page), search[r].wanted))]
    /\ UNCHANGED <<arxiv, papers, versions, news, sequential, searches, errors>>

\* An exception: the session rolls the transaction back.
Fail(r) == search' = [search EXCEPT ![r] = Idle]

\* Mutant: one attempt more than configured.
TransientOnceMore(r) ==
    /\ search[r].pc = "get"
    /\ IF search[r].attempt <= MaxRetries + 1
       THEN search' = [search EXCEPT ![r].attempt = @ + 1]
       ELSE Fail(r)
    /\ UNCHANGED <<arxiv, papers, versions, news, sequential, searches, errors>>

\* A timeout, a network error, 429 or a 5xx.
TransientFailure(r) ==
    /\ search[r].pc = "get"
    /\ IF search[r].attempt <= MaxRetries
       THEN search' = [search EXCEPT ![r].attempt = @ + 1]
       ELSE Fail(r)
    /\ UNCHANGED <<arxiv, papers, versions, news, sequential, searches, errors>>

\* Another status, a feed that does not parse, one entry without a usable id,
\* a result the domain rejects, an error of the database: nothing is kept.
Raise(r) ==
    /\ Active(r)
    /\ errors < MaxErrors
    /\ errors' = errors + 1
    /\ Fail(r)
    /\ UNCHANGED <<arxiv, papers, versions, news, sequential, searches>>

-----------------------------------------------------------------------------
(* The transaction. *)

\* What a SELECT of r finds.
Row(r, p) == IF search[r].rows[p] # None THEN search[r].rows[p] ELSE papers[p]
VersionsSeen(r, p) == versions[p] \cup search[r].vers[p]

\* The transactions r has to wait for before it can write what it is about to:
\* one that wrote the same row of papers, or inserted the same version.
Blockers(r) ==
    LET p == Current(r).paper
        v == Current(r).version
        others == Request \ {r}
    IN  IF search[r].pc = "store" THEN {q \in others : search[q].rows[p] # None}
        ELSE IF search[r].pc = "storeversion" THEN {q \in others : v \in search[q].vers[p]}
        ELSE {}

\* get_by_source.
Lookup(r) ==
    /\ search[r].pc = "lookup"
    /\ search' = [search EXCEPT ![r].known = Row(r, Current(r).paper) # None,
                                ![r].pc = "load"]
    /\ UNCHANGED <<arxiv, papers, versions, news, sequential, searches, errors>>

\* upsert_paper reads the row again; if it has the columns already, no
\* statement follows.
Load(r) ==
    /\ search[r].pc = "load"
    /\ LET row == Row(r, Current(r).paper) IN
         search' = [search EXCEPT ![r].loaded = row,
                                  ![r].pc = IF row # None /\ row = Current(r).columns
                                           THEN "findversion" ELSE "store"]
    /\ UNCHANGED <<arxiv, papers, versions, news, sequential, searches, errors>>

\* The row after an UPDATE of the columns that differ from the loaded ones.
Updated(row, loaded, columns) ==
    [c \in DOMAIN columns |-> IF columns[c] # loaded[c] THEN columns[c] ELSE row[c]]

\* What the caller is told of the paper, when the answer comes.
Told(r) == search[r].new \cup (IF search[r].known THEN {} ELSE {Current(r).paper})

\* Mutant: every paper is committed on its own.
StoreAndCommit(r) ==
    /\ search[r].pc = "store" /\ Blockers(r) = {}
    /\ LET e == Current(r) IN
         IF search[r].loaded = None /\ papers[e.paper] # None
         THEN Fail(r) /\ UNCHANGED papers
         ELSE /\ papers' = [papers EXCEPT ![e.paper] = e.columns]
              /\ search' = [search EXCEPT ![r].pc = "findversion"]
    /\ UNCHANGED <<arxiv, versions, news, sequential, searches, errors>>

\* Mutant: the INSERT that broke the key is tried again.
StoreRetried(r) ==
    /\ search[r].pc = "store"
    /\ Blockers(r) = {}
    /\ LET e == Current(r)
           loaded == search[r].loaded
       IN  /\ ~(loaded = None /\ papers[e.paper] # None)
           /\ search' = [search EXCEPT
                  ![r].rows[e.paper] = IF loaded = None THEN e.columns
                                       ELSE Updated(Row(r, e.paper), loaded, e.columns),
                  ![r].pc = "findversion"]
    /\ UNCHANGED <<arxiv, papers, versions, news, sequential, searches, errors>>

\* INSERT or UPDATE, flushed; an INSERT that waited for another one of the
\* same paper to commit breaks the primary key.
Store(r) ==
    /\ search[r].pc = "store"
    /\ Blockers(r) = {}
    /\ LET e == Current(r)
           loaded == search[r].loaded
       IN  IF loaded = None /\ papers[e.paper] # None
           THEN Fail(r)
           ELSE search' = [search EXCEPT
                  ![r].rows[e.paper] = IF loaded = None THEN e.columns
                                       ELSE Updated(Row(r, e.paper), loaded, e.columns),
                  ![r].pc = "findversion"]
    /\ UNCHANGED <<arxiv, papers, versions, news, sequential, searches, errors>>

\* get_or_create_paper_version: nothing to create for an id without a version
\* or a version that exists; discovery brings no checksum to disagree about.
FindVersion(r) ==
    /\ search[r].pc = "findversion"
    /\ LET e == Current(r) IN
         search' = [search EXCEPT ![r] =
           IF e.version = None \/ e.version \in VersionsSeen(r, e.paper)
           THEN NextResult([search[r] EXCEPT !.new = Told(r)], Rest(search[r].todo))
           ELSE [@ EXCEPT !.pc = "storeversion"]]
    /\ UNCHANGED <<arxiv, papers, versions, news, sequential, searches, errors>>

StoreVersion(r) ==
    /\ search[r].pc = "storeversion"
    /\ Blockers(r) = {}
    /\ LET e == Current(r) IN
         IF e.version \in versions[e.paper]
         THEN Fail(r)
         ELSE search' = [search EXCEPT ![r] =
                NextResult([search[r] EXCEPT !.new = Told(r), !.vers[e.paper] = @ \cup {e.version}],
                           Rest(search[r].todo))]
    /\ UNCHANGED <<arxiv, papers, versions, news, sequential, searches, errors>>

\* PostgreSQL ends one transaction of a cycle of waiting ones.
DeadlockVictim(r) ==
    /\ \E C \in SUBSET Request : r \in C /\ \A q \in C : Blockers(q) \cap C # {}
    /\ Fail(r)
    /\ UNCHANGED <<arxiv, papers, versions, news, sequential, searches, errors>>

\* The session commits and the caller gets the answer.
Commit(r) ==
    /\ search[r].pc = "commit"
    /\ papers' = [p \in Paper |-> Row(r, p)]
    /\ versions' = [p \in Paper |-> VersionsSeen(r, p)]
    /\ news' = [p \in Paper |-> news[p] + IF p \in search[r].new THEN 1 ELSE 0]
    /\ search' = [search EXCEPT ![r] = Idle]
    /\ UNCHANGED <<arxiv, sequential, searches, errors>>

-----------------------------------------------------------------------------

Step(r) ==
    \/ Respond(r) \/ Lookup(r) \/ Load(r) \/ Store(r)
    \/ FindVersion(r) \/ StoreVersion(r) \/ DeadlockVictim(r) \/ Commit(r)

Next ==
    \/ \E p \in Paper : Revise(p)
    \/ \E r \in Request :
         \/ \E requested \in 1..(ResultsLimit + 1) \cup {None}, wanted \in DateRange :
              Start(r, requested, wanted)
         \/ Step(r) \/ TransientFailure(r) \/ Raise(r)

\* Every call comes back in the end (arXiv's within its timeout) and a blocked
\* statement runs, or is chosen as the victim, when PostgreSQL gets to it.
Fairness == \A r \in Request : WF_vars(Step(r) \/ TransientFailure(r))

Spec == Init /\ [][Next]_vars /\ Fairness

-----------------------------------------------------------------------------
(* Properties. *)

\* resolve_version: the version a stage works on when the caller names none.
DefaultVersion(p) == CHOOSE v \in versions[p] : \A w \in versions[p] : w <= v

\* States; one call more than configured never leaves the client.
TypeOK ==
    /\ arxiv \in [Paper -> Version]
    /\ \A p \in Paper : papers[p] = None \/ papers[p].updated \in 1..arxiv[p]
    /\ \A p \in Paper : versions[p] \subseteq 1..arxiv[p]
    /\ \A r \in Request : search[r].attempt <= MaxRetries + 1
                       /\ DOMAIN search[r].todo \subseteq 1..ResultsLimit
    /\ news \in [Paper -> Nat]

\* A version is never recorded without its paper; and when callers wait for
\* each other, a paper's row is that of one published version, and not of an
\* older one than the stages would work on by default.
RowDescribesDefault ==
    \A p \in Paper : versions[p] # {} =>
        /\ papers[p] # None
        /\ sequential => /\ papers[p].updated >= DefaultVersion(p)
                         /\ papers[p] = Columns(papers[p].updated)

\* Searches that fail half way leave nothing and races have one winner: a
\* paper that is recorded was reported as new to somebody, and to one caller
\* only when callers wait for each other.
DiscoveryIsReported ==
    \A p \in Paper : papers[p] # None => /\ news[p] >= 1
                                         /\ sequential => news[p] = 1

\* Whatever arXiv answers and however searches block each other, each ends.
EverySearchEnds == \A r \in Request : Active(r) ~> ~Active(r)
=============================================================================
