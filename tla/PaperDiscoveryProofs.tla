------------------------- MODULE PaperDiscoveryProofs -------------------------
(***************************************************************************)
(* For any pages, papers and searches.  A recorded paper was reported as    *)
(* new, to exactly one caller if callers wait for each other: a search that *)
(* wrote a row nobody had committed has the paper among its news, or is     *)
(* still at that result and did not find it; and what a lone search did not *)
(* find stays absent until it commits.  And a version has its paper, whose  *)
(* row is not older: what a lone search is about to write is what arXiv     *)
(* showed of the paper, all that was recorded before is no newer, and the   *)
(* row an UPDATE starts from is the one that was loaded.                    *)
(***************************************************************************)
EXTENDS PaperDiscovery, FiniteSetTheorems, WellFoundedInduction, TLAPS

PC == {"idle", "get", "lookup", "load", "store", "findversion", "storeversion", "commit"}
Found == {"load", "store", "findversion", "storeversion"}
Written == {"findversion", "storeversion"}

Columned == Metadata \cup {None}
Entries == [paper : Paper, version : Version \cup {None}, columns : Metadata]
Results == UNION {[D -> Entries] : D \in SUBSET (1..ResultsLimit)}

SearchState ==
    [pc : PC, limit : 0..ResultsLimit, wanted : SUBSET Paper, attempt : 0..(MaxRetries + 1),
     todo : Results, known : BOOLEAN, new : SUBSET Paper, loaded : Columned,
     rows : [Paper -> Columned], vers : [Paper -> SUBSET Version]]

Typed ==
    /\ arxiv \in [Paper -> Version]
    /\ papers \in [Paper -> Columned]
    /\ versions \in [Paper -> SUBSET Version]
    /\ search \in [Request -> SearchState]
    /\ news \in [Paper -> Nat]

\* Nothing is recorded, written or still to store that arXiv has not published.
Published(e) ==
    /\ e.columns.updated <= arxiv[e.paper]
    /\ e.version # None => e.version <= arxiv[e.paper]

OnArxiv(rows, vers) ==
    \A p \in Paper : /\ rows[p] # None => rows[p].updated <= arxiv[p]
                     /\ \A v \in vers[p] : v <= arxiv[p]

Now(q) == q.todo[Position(q.todo)]

\* A search at a result has one, and a version to store is one.
Placed(q) ==
    /\ q.pc \in Found \cup {"lookup"} => DOMAIN q.todo # {}
    /\ q.pc = "storeversion" => Now(q).version # None
    /\ q.pc \in {"idle", "get"} => q.new = {}

\* What a search knows of the papers.
Remembers(q) ==
    /\ \A p \in Paper : q.rows[p] # None /\ papers[p] = None =>
         p \in q.new \/ (q.pc \in Written /\ Now(q).paper = p /\ ~q.known)
    /\ q.pc \in Found /\ q.known => papers[Now(q).paper] # None \/ Now(q).paper \in q.new
    /\ q.pc = "store" /\ q.loaded # None =>
         q.rows[Now(q).paper] # None \/ papers[Now(q).paper] # None

\* What it knows besides if it has no company.
RemembersAlone(q) ==
    /\ \A p \in q.new : papers[p] = None /\ q.rows[p] # None
    /\ q.pc \in Found /\ ~q.known => papers[Now(q).paper] = None
    /\ q.pc \in Written /\ ~q.known => q.rows[Now(q).paper] # None

Good(q) ==
    /\ \A i \in DOMAIN q.todo : Published(q.todo[i])
    /\ OnArxiv(q.rows, q.vers)
    /\ Placed(q)
    /\ Remembers(q)
    /\ sequential => RemembersAlone(q)

Counted ==
    \A p \in Paper :
        /\ papers[p] # None => news[p] >= 1
        /\ sequential => news[p] = IF papers[p] = None THEN 0 ELSE 1

OneActive == sequential => \A r, q \in Request : Active(r) /\ Active(q) => r = q

Inv ==
    /\ Typed
    /\ OnArxiv(papers, versions)
    /\ \A r \in Request : Good(search[r])
    /\ Counted
    /\ OneActive

\* The row of p that a search sees, its own or a committed one.
View(q, p) == IF q.rows[p] # None THEN q.rows[p] ELSE papers[p]

\* A version has its paper.
Recorded(q) ==
    /\ \A p \in Paper : q.vers[p] # {} => View(q, p) # None
    /\ q.pc \in Written => View(q, Now(q).paper) # None

\* A row is that of one version, and of none older than the given ones.
UpToDate(row, known) ==
    row # None => row = Columns(row.updated) /\ \A v \in known : v <= row.updated

\* In a search without company: what it will write is no older than what is
\* there, and what it loaded is what it updates.
Ahead(q, todo) ==
    /\ \A i \in DOMAIN todo :
         /\ UpToDate(todo[i].columns, versions[todo[i].paper] \cup q.vers[todo[i].paper])
         /\ todo[i].version # None => todo[i].version <= todo[i].columns.updated
    /\ \A i, j \in DOMAIN todo : todo[i].paper = todo[j].paper => i = j

Lone(q) ==
    /\ \A p \in Paper : UpToDate(View(q, p), versions[p] \cup q.vers[p])
    /\ Ahead(q, q.todo)
    /\ q.pc = "store" => q.loaded = View(q, Now(q).paper)
    /\ q.pc \in Written => View(q, Now(q).paper) = Now(q).columns

Fresh ==
    /\ \A p \in Paper : versions[p] # {} => papers[p] # None
    /\ \A r \in Request : Recorded(search[r])
    /\ sequential => /\ \A p \in Paper : UpToDate(papers[p], versions[p])
                     /\ \A r \in Request : Active(r) => Lone(search[r])

-----------------------------------------------------------------------------
(* Pages and positions. *)

\* A non-empty set of numbers has a smallest one.
LEMMA Smallest ==
  ASSUME NEW S \in SUBSET Nat, S # {}
  PROVE  \E i \in S : \A j \in S : i <= j
  <1> DEFINE Below == {0..i : i \in S}
  <1>1. Below \subseteq FiniteSubsetsOf(Nat) /\ Below # {}
    <2>1. \A i \in S : IsFiniteSet(0..i)  BY FS_Interval
    <2>2. \A i \in S : 0..i \in FiniteSubsetsOf(Nat)  BY <2>1 DEF FiniteSubsetsOf
    <2> QED  BY <2>2
  <1>2. \E I \in Below : \A J \in Below : ~(<<J, I>> \in StrictSubsetOrdering(Nat))
    <2> HIDE DEF Below
    <2>1. IsWellFoundedOn(StrictSubsetOrdering(Nat), FiniteSubsetsOf(Nat))
      BY FS_StrictSubsetOrderingWellFounded
    <2> QED  BY <1>1, <2>1, WFMin, Zenon
  <1>3. PICK i \in S : \A J \in Below : ~(<<J, 0..i>> \in StrictSubsetOrdering(Nat))
    BY <1>2
  <1>4. ASSUME NEW j \in S, j < i  PROVE FALSE
    <2>1. 0..j \subseteq 0..i /\ 0..j # 0..i  BY <1>4
    <2>2. 0..j \in Below  OBVIOUS
    <2>3. <<0..j, 0..i>> \in StrictSubsetOrdering(Nat)  BY <2>1 DEF StrictSubsetOrdering
    <2> QED  BY <1>3, <2>2, <2>3
  <1> QED  BY <1>4

\* The position a search is at is one of the results that are left.
LEMMA CurrentType ==
  ASSUME NEW t \in Results, DOMAIN t # {}
  PROVE  /\ Position(t) \in DOMAIN t
         /\ t[Position(t)] \in Entries
  <1>1. PICK D \in SUBSET (1..ResultsLimit) : t \in [D -> Entries]
    BY DEF Results
  <1>2. D \in SUBSET Nat /\ D # {}
    BY <1>1, LimitAssumption
  <1>3. \E i \in DOMAIN t : \A j \in DOMAIN t : i <= j
    BY <1>1, <1>2, Smallest
  <1> QED  BY <1>1, <1>3 DEF Position

\* Some of the results are results.
LEMMA RestrictType ==
  ASSUME NEW t \in Results, NEW S \in SUBSET DOMAIN t
  PROVE  /\ Restrict(t, S) \in Results
         /\ DOMAIN Restrict(t, S) = S
         /\ \A i \in S : Restrict(t, S)[i] = t[i]
  <1>1. PICK D \in SUBSET (1..ResultsLimit) : t \in [D -> Entries]
    BY DEF Results
  <1>2. Restrict(t, S) \in [S -> Entries] /\ S \in SUBSET (1..ResultsLimit)
    BY <1>1 DEF Restrict
  <1> QED  BY <1>2 DEF Results, Restrict

\* No results are results.
LEMMA EmptyResults == <<>> \in Results /\ DOMAIN <<>> = {}
  <1>1. <<>> \in [{} -> Entries]
    OBVIOUS
  <1> QED  BY <1>1 DEF Results

\* Best picks an entry of the paper from the page.
LEMMA BestType ==
  ASSUME NEW n \in Nat, NEW s \in [1..n -> Entries], NEW k \in 1..n
  PROVE  \E i \in 1..n :
           /\ Best(s, s[k].paper) = s[i] /\ s[i].paper = s[k].paper
           /\ \A j \in 1..n : s[j].paper = s[k].paper => Rank(s[j]) <= Rank(s[i])
  <1> DEFINE p == s[k].paper
             Same == {i \in 1..n : s[i].paper = p}
             Gap(i) == MaxVersion - Rank(s[i])
             Gaps == {Gap(i) : i \in Same}
  <1>1. \A i \in 1..n : Rank(s[i]) \in 0..MaxVersion
    BY VersionAssumption DEF Rank, Entries, Version
  <1>2. Gaps \in SUBSET Nat /\ Gaps # {}
    <2>1. \A i \in Same : Gap(i) \in Nat  BY <1>1, VersionAssumption
    <2>2. k \in Same  OBVIOUS
    <2> HIDE DEF Gap, Same
    <2> QED  BY <2>1, <2>2
  <1>3. PICK g \in Gaps : \A h \in Gaps : g <= h
    BY <1>2, Smallest
  <1> DEFINE Top == {i \in Same : Gap(i) = g}
  <1>4. Top \in SUBSET Nat /\ Top # {}
    <2>1. \E i \in Same : Gap(i) = g
      <3> HIDE DEF Gap
      <3> QED  BY <1>3
    <2> QED  BY <2>1
  <1>5. PICK i \in Top : \A j \in Top : i <= j
    BY <1>4, Smallest
  <1>6. \A j \in Same : Rank(s[j]) < Rank(s[i]) \/ (Rank(s[j]) = Rank(s[i]) /\ i <= j)
    <2> TAKE j \in Same
    <2>1. Gap(j) \in Gaps  OBVIOUS
    <2>2. g <= Gap(j) /\ g = Gap(i)  BY <1>3, <1>5, <2>1
    <2>3. Gap(j) = g => i <= j  BY <1>5
    <2>4. i \in 1..n /\ j \in 1..n  BY <1>5
    <2> QED  BY <1>1, <2>2, <2>3, <2>4, VersionAssumption
  <1> DEFINE P(x) == /\ s[x].paper = p
                     /\ \A j \in DOMAIN s : s[j].paper = p =>
                          Rank(s[j]) < Rank(s[x]) \/ (Rank(s[j]) = Rank(s[x]) /\ x <= j)
  <1>7. i \in DOMAIN s /\ P(i)
    BY <1>5, <1>6
  <1>8. Best(s, p) = s[CHOOSE x \in DOMAIN s : P(x)]
    BY DEF Best
  <1>9. (CHOOSE x \in DOMAIN s : P(x)) \in DOMAIN s /\ P(CHOOSE x \in DOMAIN s : P(x))
    <2> HIDE DEF P
    <2> QED  BY <1>7
  <1>10. \A x \in 1..n : P(x) => \A j \in 1..n : s[j].paper = p => Rank(s[j]) <= Rank(s[x])
    <2> SUFFICES ASSUME NEW x \in 1..n, P(x), NEW j \in 1..n, s[j].paper = p
                 PROVE  Rank(s[j]) <= Rank(s[x])
      OBVIOUS
    <2>1. Rank(s[j]) < Rank(s[x]) \/ Rank(s[j]) = Rank(s[x])
      OBVIOUS
    <2>2. Rank(s[j]) \in Int /\ Rank(s[x]) \in Int
      BY <1>1, VersionAssumption
    <2> HIDE DEF P
    <2> QED  BY <2>1, <2>2
  <1> HIDE DEF P
  <1>11. \A x \in 1..n : P(x) => s[x].paper = p
    BY DEF P
  <1> QED  BY <1>8, <1>9, <1>10, <1>11

\* What is left of a page to store has entries of that page.
LEMMA ResultsOfPage ==
  ASSUME NEW n \in 0..ResultsLimit, NEW s \in [1..n -> Entries], NEW wanted
  PROVE  LET t == FilterByDateRange(Deduplicate(s), wanted)
         IN  /\ t \in Results
             /\ \A i \in DOMAIN t : \E j \in 1..n : t[i] = s[j]
  <1> DEFINE first == {i \in DOMAIN s : \A j \in 1..(i - 1) : s[j].paper # s[i].paper}
             d == Deduplicate(s)
             kept == {i \in DOMAIN d : d[i].paper \in wanted}
  <1>1. DOMAIN d = first /\ \A i \in first : d[i] = Best(s, s[i].paper)
    BY DEF Deduplicate
  <1>2. \A i \in first : \E j \in 1..n : d[i] = s[j]
    <2> TAKE i \in first
    <2>1. i \in 1..n /\ n \in Nat  BY LimitAssumption
    <2>2. \E j \in 1..n : Best(s, s[i].paper) = s[j]  BY <2>1, BestType
    <2> QED  BY <1>1, <2>2
  <1>3. d \in Results
    <2>1. d = [i \in first |-> d[i]]
      BY DEF Deduplicate
    <2>2. \A i \in first : d[i] \in Entries  BY <1>2
    <2>3. first \in SUBSET (1..ResultsLimit)  BY LimitAssumption
    <2> HIDE DEF first, d
    <2>4. d \in [first -> Entries]  BY <2>1, <2>2
    <2> QED  BY <2>3, <2>4 DEF Results
  <1>4. kept \in SUBSET DOMAIN d
    OBVIOUS
  <1> DEFINE t == Restrict(d, kept)
  <1> HIDE DEF d, kept
  <1>5. t \in Results /\ DOMAIN t = kept /\ \A i \in kept : t[i] = d[i]
    BY <1>3, <1>4, RestrictType
  <1>6. t = FilterByDateRange(Deduplicate(s), wanted)
    BY DEF FilterByDateRange, d, kept
  <1>7. \A i \in DOMAIN t : \E j \in 1..n : t[i] = s[j]
    <2> HIDE DEF t
    <2> QED  BY <1>1, <1>2, <1>4, <1>5
  <1> QED  BY <1>5, <1>6, <1>7

\* The columns of a row describe one version.
LEMMA ColumnsType ==
  /\ None \notin Metadata
  /\ \A v \in Version : Columns(v) \in Metadata /\ Columns(v).updated = v
  BY NoneAssumption DEF Columns, Metadata

\* An entry of a page describes a version that arXiv has published.
LEMMA EntryType ==
  ASSUME arxiv \in [Paper -> Version], NEW x \in [paper : Paper, lag : Nat \cup {None}]
  PROVE  Entry(x) \in Entries /\ Published(Entry(x))
  <1> DEFINE now == arxiv[x.paper]
             v == IF x.lag = None THEN now ELSE IF x.lag < now THEN now - x.lag ELSE 1
  <1>1. v \in 1..now /\ now \in Version
    BY VersionAssumption DEF Version
  <1>2. v \in Version
    BY <1>1, VersionAssumption DEF Version
  <1>3. Entry(x) = [paper |-> x.paper, version |-> IF x.lag = None THEN None ELSE v,
                    columns |-> Columns(v)]
    BY DEF Entry
  <1> HIDE DEF v, now
  <1>4. Entry(x) \in Entries
    BY <1>2, <1>3, ColumnsType DEF Entries
  <1>5. Published(Entry(x))
    BY <1>1, <1>2, <1>3, ColumnsType DEF Published, now
  <1> QED  BY <1>4, <1>5

\* What is left of a page after deduplication and the filter by date
\* (search_and_store_papers).
LEMMA PageType ==
  ASSUME arxiv \in [Paper -> Version], NEW shape \in Shape, NEW limit \in 0..ResultsLimit,
         NEW wanted
  PROVE  LET t == FilterByDateRange(Deduplicate(Page(shape, limit)), wanted)
         IN  t \in Results /\ \A i \in DOMAIN t : Published(t[i])
  <1> DEFINE n == IF Len(shape) < limit THEN Len(shape) ELSE limit
             s == Page(shape, limit)
  <1> DEFINE Listed == [paper : Paper, lag : Nat \cup {None}]
  <1>1. shape \in Seq(Listed)
    BY ShapeAssumption
  <1>2. Len(shape) \in Nat /\ \A i \in 1..Len(shape) : shape[i] \in Listed
    <2> HIDE DEF Listed
    <2> QED  BY <1>1
  <1>3. n \in 0..ResultsLimit /\ \A i \in 1..n : i \in 1..Len(shape)
    BY <1>2, LimitAssumption
  <1>4. s = [i \in 1..n |-> Entry(shape[i])]
    BY DEF Page
  <1> HIDE DEF n, s
  <1>5. \A i \in 1..n : s[i] \in Entries /\ Published(s[i])
    BY <1>2, <1>3, <1>4, EntryType
  <1>6. s \in [1..n -> Entries]
    BY <1>4, <1>5
  <1> DEFINE t == FilterByDateRange(Deduplicate(s), wanted)
  <1> HIDE DEF t
  <1>7. t \in Results /\ \A i \in DOMAIN t : \E j \in 1..n : t[i] = s[j]
    BY <1>3, <1>6, ResultsOfPage DEF t
  <1>8. \A i \in DOMAIN t : Published(t[i])
    BY <1>5, <1>7
  <1> QED  BY <1>7, <1>8 DEF s, t
-----------------------------------------------------------------------------
(* One search moves, the rows and the others stay. *)

\* A search that has ended is a legal state of one.
LEMMA IdleType == Idle \in SearchState /\ Idle.pc = "idle" /\ (Inv => Good(Idle))
  <1>1. NoRows \in [Paper -> Columned] /\ NoVersions \in [Paper -> SUBSET Version]
        /\ (\A p \in Paper : NoRows[p] = None /\ NoVersions[p] = {})
    BY DEF NoRows, NoVersions, Columned
  <1>2. Idle \in SearchState
    BY <1>1, EmptyResults, LimitAssumption, RetriesAssumption
    DEF Idle, SearchState, PC, Columned
  <1>3. Good(Idle)
    BY <1>1, EmptyResults
    DEF Idle, Good, OnArxiv, Placed, Remembers, RemembersAlone, Found, Written
  <1> QED  BY <1>2, <1>3 DEF Idle

\* A step of one search that writes nothing others see.
LEMMA OneMoves ==
  ASSUME Inv, NEW r \in Request, NEW x \in SearchState, Good(x),
         x.pc # "idle" => Active(r) \/ (sequential => \A q \in Request : ~Active(q)),
         search' = [search EXCEPT ![r] = x],
         UNCHANGED <<arxiv, papers, versions, news, sequential>>
  PROVE  Inv'
  <1>1. Typed'
    BY DEF Inv, Typed
  <1>2. search'[r] = x /\ \A q \in Request \ {r} : search'[q] = search[q]
    BY DEF Inv, Typed
  <1>3. \A q \in Request : Good(search'[q])
    BY <1>2 DEF Inv
  <1>4. \A q \in Request : Good(search[q])'
    BY <1>3 DEF Good, Published, OnArxiv, Placed, Remembers, RemembersAlone
  <1>5. OneActive'
    BY <1>2 DEF Inv, OneActive, Active
  <1>6. OnArxiv(papers, versions)' /\ Counted'
    BY DEF Inv, OnArxiv, Counted
  <1> QED  BY <1>1, <1>4, <1>5, <1>6 DEF Inv

\* A search that fails rolls back what it wrote.
LEMMA Fails ==
  ASSUME Inv, NEW r \in Request, Fail(r),
         UNCHANGED <<arxiv, papers, versions, news, sequential>>
  PROVE  Inv'
  BY IdleType, OneMoves DEF Fail
\* To go on to the next result keeps what a search knows.
LEMMA NextResultGood ==
  ASSUME NEW q \in SearchState, NEW rest \in Results, \A i \in DOMAIN rest : Published(rest[i]),
         OnArxiv(q.rows, q.vers),
         \A p \in Paper : q.rows[p] # None /\ papers[p] = None => p \in q.new,
         sequential => \A p \in q.new : papers[p] = None /\ q.rows[p] # None
  PROVE  NextResult(q, rest) \in SearchState /\ Good(NextResult(q, rest))
  <1> DEFINE x == NextResult(q, rest)
  <1>1. x \in SearchState
    BY DEF NextResult, SearchState, PC, Columned
  <1>2. /\ x.todo = rest /\ x.new = q.new /\ x.rows = q.rows /\ x.vers = q.vers
        /\ x.pc = IF DOMAIN rest = {} THEN "commit" ELSE "lookup"
    BY DEF NextResult, SearchState
  <1> HIDE DEF x
  <1>3. Good(x)
    BY <1>2 DEF Good, Placed, Remembers, RemembersAlone, Found, Written
  <1> QED  BY <1>1, <1>3 DEF x

\* Each action keeps the invariant: one lemma for each.
LEMMA StartKeeps ==
  ASSUME Inv, NEW r \in Request, NEW requested \in 1..(ResultsLimit + 1) \cup {None},
         NEW wanted \in DateRange, Start(r, requested, wanted)
  PROVE  Inv'
  <1> DEFINE x == IF Refused(requested) THEN Idle
                  ELSE [Idle EXCEPT !.pc = "get", !.attempt = 1, !.wanted = wanted,
                                    !.limit = ResolveMaxResults(requested)]
  <1>1. x \in SearchState
    <2>1. CASE Refused(requested)  BY <2>1, IdleType
    <2>2. CASE ~Refused(requested)
      <3>1. ResolveMaxResults(requested) \in 0..ResultsLimit
        BY <2>2, LimitAssumption DEF Refused, ResolveMaxResults
      <3>2. wanted \in SUBSET Paper
        BY DateRangeAssumption
      <3>3. Idle \in SearchState /\ 1 \in 0..(MaxRetries + 1)
        BY IdleType, RetriesAssumption
      <3> QED  BY <2>2, <3>1, <3>2, <3>3 DEF SearchState, PC
    <2> QED  BY <2>1, <2>2
  <1>2. /\ x.todo = Idle.todo /\ x.new = Idle.new /\ x.rows = Idle.rows /\ x.vers = Idle.vers
        /\ x.pc \in {"idle", "get"}
    BY DEF Idle
  <1>3. Idle.new = {} /\ Idle.pc = "idle" /\ Good(Idle)
    BY IdleType DEF Idle
  <1> HIDE DEF x
  <1>4. Good(x)
    BY <1>2, <1>3 DEF Good, Placed, Remembers, RemembersAlone, Found, Written
  <1>5. search' = [search EXCEPT ![r] = x] /\ (sequential => \A q \in Request : ~Active(q))
        /\ UNCHANGED <<arxiv, papers, versions, news, sequential>>
    BY DEF Start, x
  <1> QED  BY <1>1, <1>4, <1>5, OneMoves

LEMMA RespondKeeps ==
  ASSUME Inv, NEW r \in Request, Respond(r)
  PROVE  Inv'
  <1>1. PICK shape \in Shape :
          search' = [search EXCEPT ![r] =
            NextResult(Idle, FilterByDateRange(Deduplicate(Page(shape, search[r].limit)),
                                               search[r].wanted))]
    BY DEF Respond
  <1> DEFINE rest == FilterByDateRange(Deduplicate(Page(shape, search[r].limit)), search[r].wanted)
  <1>2. search[r].limit \in 0..ResultsLimit /\ arxiv \in [Paper -> Version]
    BY DEF Inv, Typed, SearchState
  <1>3. rest \in Results /\ \A i \in DOMAIN rest : Published(rest[i])
    BY <1>2, PageType
  <1> HIDE DEF rest
  <1>4. /\ Idle.new = {} /\ Idle \in SearchState /\ OnArxiv(Idle.rows, Idle.vers)
        /\ \A p \in Paper : Idle.rows[p] = None
    BY IdleType DEF Good, Idle, NoRows
  <1>5. NextResult(Idle, rest) \in SearchState /\ Good(NextResult(Idle, rest))
    BY <1>3, <1>4, NextResultGood
  <1>6. Active(r) /\ UNCHANGED <<arxiv, papers, versions, news, sequential>>
    BY DEF Respond, Active
  <1>7. search' = [search EXCEPT ![r] = NextResult(Idle, rest)]
    BY <1>1 DEF rest
  <1> QED  BY <1>5, <1>6, <1>7, OneMoves

LEMMA TransientFailureKeeps ==
  ASSUME Inv, NEW r \in Request, TransientFailure(r)
  PROVE  Inv'
  <1>1. CASE search[r].attempt <= MaxRetries
    <2> DEFINE x == [search[r] EXCEPT !.attempt = @ + 1]
    <2>1. search[r] \in SearchState /\ Good(search[r]) /\ Active(r)
      BY DEF Inv, Typed, TransientFailure, Active
    <2>2. x \in SearchState
      BY <1>1, <2>1, RetriesAssumption DEF SearchState
    <2>3. /\ x.todo = search[r].todo /\ x.new = search[r].new /\ x.rows = search[r].rows
          /\ x.vers = search[r].vers /\ x.pc = search[r].pc /\ x.known = search[r].known
          /\ x.loaded = search[r].loaded
      BY <2>1 DEF SearchState
    <2>4. search' = [search EXCEPT ![r] = x]
          /\ UNCHANGED <<arxiv, papers, versions, news, sequential>>
      BY <1>1 DEF TransientFailure
    <2> HIDE DEF x
    <2>5. Good(x)
      BY <2>1, <2>3 DEF Good, Placed, Remembers, RemembersAlone, Now
    <2> QED  BY <2>1, <2>2, <2>4, <2>5, OneMoves
  <1>2. CASE ~(search[r].attempt <= MaxRetries)
    BY <1>2, Fails DEF TransientFailure
  <1> QED  BY <1>1, <1>2

LEMMA RaiseKeeps ==
  ASSUME Inv, NEW r \in Request, Raise(r) \/ DeadlockVictim(r)
  PROVE  Inv'
  BY Fails DEF Raise, DeadlockVictim

LEMMA LookupKeeps ==
  ASSUME Inv, NEW r \in Request, Lookup(r)
  PROVE  Inv'
  <1> DEFINE q == search[r]
             x == [q EXCEPT !.known = Row(r, Current(r).paper) # None, !.pc = "load"]
  <1>1. q \in SearchState /\ Good(q) /\ Active(r) /\ q.pc = "lookup"
    BY DEF Inv, Typed, Lookup, Active
  <1>2. Now(q) = Current(r) /\ Now(q).paper \in Paper
    <2>1. q.todo \in Results /\ DOMAIN q.todo # {}
      BY <1>1 DEF Good, Placed, SearchState
    <2> QED  BY <2>1, CurrentType DEF Now, Current, Entries
  <1>3. x \in SearchState
    BY <1>1 DEF SearchState, PC
  <1>4. search' = [search EXCEPT ![r] = x]
        /\ UNCHANGED <<arxiv, papers, versions, news, sequential>>
    BY DEF Lookup, Inv, Typed
  <1>5. /\ x.todo = q.todo /\ x.new = q.new /\ x.rows = q.rows /\ x.vers = q.vers
        /\ x.pc = "load" /\ x.loaded = q.loaded
        /\ x.known <=> q.rows[Now(q).paper] # None \/ papers[Now(q).paper] # None
    BY <1>1, <1>2 DEF SearchState, Row
  <1> HIDE DEF x, q
  <1>6. Now(x) = Now(q)
    BY <1>5 DEF Now
  <1>7. Placed(x) /\ Remembers(x) /\ (sequential => RemembersAlone(x))
    BY <1>1, <1>2, <1>5, <1>6
    DEF Good, Placed, Remembers, RemembersAlone, Found, Written
  <1>8. Good(x)
    BY <1>1, <1>5, <1>7 DEF Good
  <1> QED  BY <1>1, <1>3, <1>4, <1>8, OneMoves DEF Active, q
\* What Lookup showed of a request at work on a result, for the steps after it.
LEMMA AtResult ==
  ASSUME Inv, NEW r \in Request, search[r].pc \in Found
  PROVE  /\ search[r] \in SearchState /\ Good(search[r]) /\ Active(r)
         /\ Current(r) = Now(search[r])
         /\ Current(r) \in Entries /\ Current(r).paper \in Paper /\ Published(Current(r))
         /\ Rest(search[r].todo) \in Results
         /\ \A i \in DOMAIN Rest(search[r].todo) : Published(Rest(search[r].todo)[i])
  <1> DEFINE t == search[r].todo
  <1>1. search[r] \in SearchState /\ Good(search[r]) /\ Active(r)
    BY DEF Inv, Typed, Active, Found
  <1>2. t \in Results /\ DOMAIN t # {}
    BY <1>1 DEF Good, Placed, SearchState
  <1>3. Position(t) \in DOMAIN t /\ t[Position(t)] \in Entries
    BY <1>2, CurrentType
  <1>4. Published(t[Position(t)])
    BY <1>1, <1>3 DEF Good
  <1>5. /\ Rest(t) \in Results
        /\ \A i \in DOMAIN Rest(t) : i \in DOMAIN t /\ Rest(t)[i] = t[i]
    <2> HIDE DEF t
    <2>1. DOMAIN t \ {Position(t)} \in SUBSET DOMAIN t  OBVIOUS
    <2> QED  BY <1>2, <2>1, RestrictType DEF Rest
  <1>6. \A i \in DOMAIN Rest(t) : Published(Rest(t)[i])
    BY <1>1, <1>5 DEF Good
  <1>7. Current(r) = t[Position(t)] /\ Now(search[r]) = t[Position(t)]
    BY DEF Current, Now
  <1>8. \A e \in Entries : e.paper \in Paper
    BY DEF Entries
  <1> QED  BY <1>1, <1>3, <1>4, <1>5, <1>6, <1>7, <1>8

\* A row that a transaction sees describes no version arXiv does not have yet.
LEMMA RowType ==
  ASSUME Inv, NEW r \in Request, NEW p \in Paper
  PROVE  /\ Row(r, p) \in Columned
         /\ Row(r, p) # None <=> search[r].rows[p] # None \/ papers[p] # None
         /\ Row(r, p) # None => Row(r, p) \in Metadata /\ Row(r, p).updated <= arxiv[p]
  <1>1. search[r].rows[p] \in Columned /\ papers[p] \in Columned
    BY DEF Inv, Typed, SearchState
  <1>2. /\ search[r].rows[p] # None => search[r].rows[p].updated <= arxiv[p]
        /\ papers[p] # None => papers[p].updated <= arxiv[p]
    BY DEF Inv, Good, OnArxiv
  <1> QED  BY <1>1, <1>2 DEF Row, Columned

LEMMA LoadKeeps ==
  ASSUME Inv, NEW r \in Request, Load(r)
  PROVE  Inv'
  <1> DEFINE q == search[r]
             row == Row(r, Current(r).paper)
             pc == IF row # None /\ row = Current(r).columns THEN "findversion" ELSE "store"
             x == [q EXCEPT !.loaded = row, !.pc = pc]
  <1>1. /\ q \in SearchState /\ Good(q) /\ Active(r) /\ q.pc = "load"
        /\ Current(r) = Now(q) /\ Now(q).paper \in Paper
    BY AtResult DEF Load, Found
  <1>2. row \in Columned
        /\ (row # None <=> q.rows[Now(q).paper] # None \/ papers[Now(q).paper] # None)
    BY <1>1, RowType
  <1>3. search' = [search EXCEPT ![r] = x]
        /\ UNCHANGED <<arxiv, papers, versions, news, sequential>>
    BY DEF Load, Inv, Typed
  <1>4. pc \in {"findversion", "store"} /\ (pc = "findversion" => row # None)
    OBVIOUS
  <1> HIDE DEF row, pc
  <1>5. x \in SearchState
    BY <1>1, <1>2, <1>4 DEF SearchState, PC
  <1>6. /\ x.todo = q.todo /\ x.new = q.new /\ x.rows = q.rows /\ x.vers = q.vers
        /\ x.pc = pc /\ x.loaded = row /\ x.known = q.known
    BY <1>1 DEF SearchState
  <1> HIDE DEF x, q
  <1>7. Now(x) = Now(q)
    BY <1>6 DEF Now
  <1>8. Placed(x) /\ Remembers(x) /\ (sequential => RemembersAlone(x))
    BY <1>1, <1>2, <1>4, <1>6, <1>7
    DEF Good, Placed, Remembers, RemembersAlone, Found, Written
  <1>9. Good(x)
    BY <1>1, <1>6, <1>8 DEF Good
  <1> QED  BY <1>1, <1>3, <1>5, <1>9, OneMoves DEF q

\* A row that is updated from a result is no newer than both.
LEMMA UpdatedType ==
  ASSUME NEW row \in Metadata, NEW loaded \in Metadata, NEW columns \in Metadata,
         NEW bound \in Nat, row.updated <= bound, columns.updated <= bound
  PROVE  Updated(row, loaded, columns) \in Metadata
         /\ Updated(row, loaded, columns).updated <= bound
  <1>1. DOMAIN columns = {"title", "updated"}
    BY DEF Metadata
  <1>2. Updated(row, loaded, columns) =
          [c \in {"title", "updated"} |-> IF columns[c] # loaded[c] THEN columns[c] ELSE row[c]]
    BY <1>1 DEF Updated
  <1>3. Updated(row, loaded, columns) =
          [title |-> IF columns.title # loaded.title THEN columns.title ELSE row.title,
           updated |-> IF columns.updated # loaded.updated THEN columns.updated ELSE row.updated]
    BY <1>2
  <1> QED  BY <1>3 DEF Metadata
LEMMA StoreKeeps ==
  ASSUME Inv, NEW r \in Request, Store(r)
  PROVE  Inv'
  <1> DEFINE q == search[r]
             e == Current(r)
             c == IF q.loaded = None THEN e.columns ELSE Updated(Row(r, e.paper), q.loaded, e.columns)
             x == [q EXCEPT !.rows[e.paper] = c, !.pc = "findversion"]
  <1>1. /\ q \in SearchState /\ Good(q) /\ Active(r) /\ q.pc = "store"
        /\ e = Now(q) /\ e \in Entries /\ e.paper \in Paper /\ Published(e)
        /\ q.new \in SUBSET Paper
    <2>1. search[r].pc = "store"  BY DEF Store
    <2> QED  BY <2>1, AtResult DEF Found, SearchState
  <1>2. UNCHANGED <<arxiv, papers, versions, news, sequential>>
    BY DEF Store
  <1>3. CASE q.loaded = None /\ papers[e.paper] # None
    <2>1. Fail(r)  BY <1>3 DEF Store
    <2> QED  BY <1>2, <2>1, Fails
  <1>4. CASE ~(q.loaded = None /\ papers[e.paper] # None)
    <2>1. search' = [search EXCEPT ![r] = x]
      BY <1>4 DEF Store, Inv, Typed
    <2>2. /\ e.columns \in Metadata /\ e.columns.updated <= arxiv[e.paper]
          /\ arxiv[e.paper] \in Nat /\ q.loaded \in Columned
      BY <1>1, VersionAssumption DEF Published, Entries, SearchState, Inv, Typed, Version
    <2>3. c \in Metadata /\ c.updated <= arxiv[e.paper]
      <3>1. CASE q.loaded = None  BY <2>2, <3>1
      <3>2. CASE q.loaded # None
        <4>1. q.loaded \in Metadata  BY <2>2, <3>2 DEF Columned
        <4>2. Row(r, e.paper) \in Metadata /\ Row(r, e.paper).updated <= arxiv[e.paper]
          BY <1>1, <3>2, RowType DEF Good, Remembers
        <4> QED  BY <2>2, <3>2, <4>1, <4>2, UpdatedType
      <3> QED  BY <3>1, <3>2
    <2>4. c # None /\ c \in Columned
      BY <2>3, NoneAssumption DEF Columned
    <2> HIDE DEF c, e
    <2>5. x \in SearchState
      BY <1>1, <2>4 DEF SearchState, PC
    <2>6. /\ x.todo = q.todo /\ x.new = q.new /\ x.vers = q.vers /\ x.known = q.known
          /\ x.pc = "findversion" /\ x.loaded = q.loaded
          /\ x.rows[e.paper] = c /\ \A p \in Paper \ {e.paper} : x.rows[p] = q.rows[p]
      BY <1>1 DEF SearchState
    <2> HIDE DEF x, q
    <2>7. Now(x) = Now(q)
      BY <2>6 DEF Now
    <2>8. OnArxiv(x.rows, x.vers)
      BY <1>1, <2>3, <2>6 DEF Good, OnArxiv
    <2>9. Placed(x) /\ Remembers(x)
      BY <1>1, <2>6, <2>7 DEF Good, Placed, Remembers, Found, Written
    <2>10. ASSUME sequential  PROVE RemembersAlone(x)
      <3>1. \A p \in x.new : papers[p] = None /\ x.rows[p] # None
        BY <1>1, <2>4, <2>6, <2>10 DEF Good, RemembersAlone
      <3>2. ~x.known => papers[Now(x).paper] = None /\ x.rows[Now(x).paper] # None
        BY <1>1, <2>4, <2>6, <2>7, <2>10 DEF Good, RemembersAlone, Found
      <3> QED  BY <3>1, <3>2 DEF RemembersAlone
    <2>11. Good(x)
      BY <1>1, <2>6, <2>8, <2>9, <2>10 DEF Good
    <2> QED  BY <1>1, <1>2, <2>1, <2>5, <2>11, OneMoves DEF q
  <1> QED  BY <1>3, <1>4

\* The news of a search that is done with a result.
LEMMA ToldNews ==
  ASSUME Inv, NEW r \in Request, search[r].pc \in Written
  PROVE  /\ Told(r) \in SUBSET Paper
         /\ \A p \in Paper : search[r].rows[p] # None /\ papers[p] = None => p \in Told(r)
         /\ sequential => \A p \in Told(r) : papers[p] = None /\ search[r].rows[p] # None
  <1>1. /\ search[r] \in SearchState /\ Good(search[r])
        /\ Current(r) = Now(search[r]) /\ Current(r).paper \in Paper
    BY AtResult DEF Written, Found
  <1>2. search[r].new \in SUBSET Paper
    BY <1>1 DEF SearchState
  <1>3. Told(r) \in SUBSET Paper
    BY <1>1, <1>2 DEF Told
  <1>4. \A p \in Paper : search[r].rows[p] # None /\ papers[p] = None => p \in Told(r)
    BY <1>1 DEF Told, Good, Remembers
  <1>5. sequential => \A p \in Told(r) : papers[p] = None /\ search[r].rows[p] # None
    BY <1>1 DEF Told, Good, RemembersAlone, Found, Written
  <1> QED  BY <1>3, <1>4, <1>5

LEMMA FindVersionKeeps ==
  ASSUME Inv, NEW r \in Request, FindVersion(r)
  PROVE  Inv'
  <1> DEFINE q == search[r]
             e == Current(r)
  <1>1. /\ q \in SearchState /\ Good(q) /\ Active(r) /\ q.pc = "findversion"
        /\ e = Now(q)
        /\ Rest(q.todo) \in Results
        /\ \A i \in DOMAIN Rest(q.todo) : Published(Rest(q.todo)[i])
    BY AtResult DEF FindVersion, Found
  <1>2. UNCHANGED <<arxiv, papers, versions, news, sequential>>
    BY DEF FindVersion
  <1>3. CASE e.version = None \/ e.version \in VersionsSeen(r, e.paper)
    <2> DEFINE y == [q EXCEPT !.new = Told(r)]
    <2>1. search' = [search EXCEPT ![r] = NextResult(y, Rest(q.todo))]
      BY <1>3 DEF FindVersion, Inv, Typed
    <2>2. /\ Told(r) \in SUBSET Paper
          /\ \A p \in Paper : q.rows[p] # None /\ papers[p] = None => p \in Told(r)
          /\ sequential => \A p \in Told(r) : papers[p] = None /\ q.rows[p] # None
      BY <1>1, ToldNews DEF Written
    <2>3. y \in SearchState /\ y.new = Told(r) /\ y.rows = q.rows /\ y.vers = q.vers
      BY <1>1, <2>2 DEF SearchState
    <2> HIDE DEF y
    <2>4. OnArxiv(y.rows, y.vers)
      BY <1>1, <2>3 DEF Good
    <2>5. NextResult(y, Rest(q.todo)) \in SearchState /\ Good(NextResult(y, Rest(q.todo)))
      BY <1>1, <2>2, <2>3, <2>4, NextResultGood
    <2> QED  BY <1>1, <1>2, <2>1, <2>5, OneMoves
  <1>4. CASE ~(e.version = None \/ e.version \in VersionsSeen(r, e.paper))
    <2> DEFINE x == [q EXCEPT !.pc = "storeversion"]
    <2>1. search' = [search EXCEPT ![r] = x]
      BY <1>4 DEF FindVersion, Inv, Typed
    <2>2. x \in SearchState
      BY <1>1 DEF SearchState, PC
    <2>3. /\ x.todo = q.todo /\ x.new = q.new /\ x.vers = q.vers /\ x.known = q.known
          /\ x.pc = "storeversion" /\ x.loaded = q.loaded /\ x.rows = q.rows
      BY <1>1 DEF SearchState
    <2>4. Now(q).version # None
      BY <1>1, <1>4
    <2> HIDE DEF x, q, e
    <2>5. Now(x) = Now(q)
      BY <2>3 DEF Now
    <2>6. Good(x)
      BY <1>1, <2>3, <2>4, <2>5 DEF Good, Placed, Remembers, RemembersAlone, Found, Written
    <2> QED  BY <1>1, <1>2, <2>1, <2>2, <2>6, OneMoves DEF q
  <1> QED  BY <1>3, <1>4

LEMMA StoreVersionKeeps ==
  ASSUME Inv, NEW r \in Request, StoreVersion(r)
  PROVE  Inv'
  <1> DEFINE q == search[r]
             e == Current(r)
             y == [q EXCEPT !.new = Told(r), !.vers[e.paper] = @ \cup {e.version}]
  <1>1. /\ q \in SearchState /\ Good(q) /\ Active(r) /\ q.pc = "storeversion"
        /\ e = Now(q) /\ e \in Entries /\ e.paper \in Paper /\ Published(e)
        /\ Rest(q.todo) \in Results
        /\ \A i \in DOMAIN Rest(q.todo) : Published(Rest(q.todo)[i])
    BY AtResult DEF StoreVersion, Found
  <1>2. UNCHANGED <<arxiv, papers, versions, news, sequential>>
    BY DEF StoreVersion
  <1>3. CASE e.version \in versions[e.paper]
    <2>1. Fail(r)  BY <1>3 DEF StoreVersion
    <2> QED  BY <1>2, <2>1, Fails
  <1>4. CASE e.version \notin versions[e.paper]
    <2>1. search' = [search EXCEPT ![r] = NextResult(y, Rest(q.todo))]
      BY <1>4 DEF StoreVersion, Inv, Typed
    <2>2. /\ Told(r) \in SUBSET Paper
          /\ \A p \in Paper : q.rows[p] # None /\ papers[p] = None => p \in Told(r)
          /\ sequential => \A p \in Told(r) : papers[p] = None /\ q.rows[p] # None
      BY <1>1, ToldNews DEF Written
    <2>3. e.version \in Version /\ e.version <= arxiv[e.paper]
      BY <1>1 DEF Good, Placed, Published, Entries
    <2>4. /\ y \in SearchState /\ y.new = Told(r) /\ y.rows = q.rows
          /\ y.vers[e.paper] = q.vers[e.paper] \cup {e.version}
          /\ \A p \in Paper \ {e.paper} : y.vers[p] = q.vers[p]
      BY <1>1, <2>2, <2>3 DEF SearchState
    <2> HIDE DEF y, e
    <2>5. OnArxiv(y.rows, y.vers)
      BY <1>1, <2>3, <2>4 DEF Good, OnArxiv
    <2>6. NextResult(y, Rest(q.todo)) \in SearchState /\ Good(NextResult(y, Rest(q.todo)))
      BY <1>1, <2>2, <2>4, <2>5, NextResultGood
    <2> QED  BY <1>1, <1>2, <2>1, <2>6, OneMoves
  <1> QED  BY <1>3, <1>4
-----------------------------------------------------------------------------
(* The rows move: a commit, and a revision at arXiv. *)

LEMMA CommitKeeps ==
  ASSUME Inv, NEW r \in Request, Commit(r)
  PROVE  Inv'
  <1> DEFINE q == search[r]
  <1>1. /\ q \in SearchState /\ Good(q) /\ Active(r) /\ q.pc = "commit"
        /\ q.new \in SUBSET Paper /\ q.vers \in [Paper -> SUBSET Version]
    <2>1. q \in SearchState /\ Good(q) /\ q.pc = "commit"
      BY DEF Inv, Typed, Commit
    <2> QED  BY <2>1 DEF SearchState, Active
  <1>2. \A p \in Paper :
          /\ papers'[p] = Row(r, p)
          /\ versions'[p] = versions[p] \cup q.vers[p]
          /\ news'[p] = news[p] + IF p \in q.new THEN 1 ELSE 0
    BY DEF Commit, VersionsSeen
  <1>3. arxiv' = arxiv /\ sequential' = sequential
    BY DEF Commit
  <1>4. search'[r] = Idle /\ \A s \in Request \ {r} : search'[s] = search[s]
    BY DEF Commit, Inv, Typed
  <1>5. \A p \in Paper : Row(r, p) \in Columned
                       /\ (Row(r, p) # None <=> q.rows[p] # None \/ papers[p] # None)
                       /\ (Row(r, p) # None => Row(r, p).updated <= arxiv[p])
    BY RowType
  <1>6. Typed'
    <2>1. papers' \in [Paper -> Columned]
      BY <1>5 DEF Commit
    <2>2. versions' \in [Paper -> SUBSET Version]
      BY <1>1 DEF Commit, VersionsSeen, Inv, Typed
    <2>3. news' \in [Paper -> Nat]
      BY DEF Commit, Inv, Typed
    <2>4. search' \in [Request -> SearchState]
      BY IdleType DEF Commit, Inv, Typed
    <2> QED  BY <1>3, <2>1, <2>2, <2>3, <2>4 DEF Inv, Typed
  <1>7. OnArxiv(papers, versions)'
    BY <1>1, <1>2, <1>3, <1>5 DEF Inv, OnArxiv, Good
  <1>8. \A p \in Paper : q.rows[p] # None /\ papers[p] = None => p \in q.new
    BY <1>1 DEF Good, Remembers, Written
  <1>9. sequential => \A p \in q.new : papers[p] = None /\ q.rows[p] # None
    BY <1>1 DEF Good, RemembersAlone
  <1>10. Counted'
    <2> SUFFICES ASSUME NEW p \in Paper
                 PROVE  /\ papers'[p] # None => news'[p] >= 1
                        /\ sequential' => news'[p] = IF papers'[p] = None THEN 0 ELSE 1
      BY DEF Counted
    <2>1. /\ news[p] \in Nat /\ (papers[p] # None => news[p] >= 1)
          /\ sequential => news[p] = IF papers[p] = None THEN 0 ELSE 1
      BY DEF Inv, Counted, Typed
    <2>2. papers'[p] # None <=> q.rows[p] # None \/ papers[p] # None
      BY <1>2, <1>5
    <2>3. news'[p] = news[p] + IF p \in q.new THEN 1 ELSE 0
      BY <1>2
    <2>4. papers'[p] # None => news'[p] >= 1
      BY <1>8, <2>1, <2>2, <2>3
    <2>5. sequential => news'[p] = IF papers'[p] = None THEN 0 ELSE 1
      BY <1>8, <1>9, <2>1, <2>2, <2>3
    <2> QED  BY <1>3, <2>4, <2>5
  <1>11. OneActive'
    BY <1>3, <1>4, IdleType DEF Inv, OneActive, Active
  <1>12. \A p \in Paper : papers'[p] = None => papers[p] = None
    BY <1>2, <1>5
  <1>13. ASSUME NEW s \in Request  PROVE Good(search[s])'
    <2>1. CASE s = r
      <3>1. Idle.pc = "idle" /\ Good(Idle) /\ Idle.new = {}
            /\ \A p \in Paper : Idle.rows[p] = None
        BY IdleType DEF Idle, NoRows
      <3>2. \A i \in DOMAIN Idle.todo : Published(Idle.todo[i])'
        BY <3>1, <1>3 DEF Good, Published
      <3>3. OnArxiv(Idle.rows, Idle.vers)' /\ Placed(Idle)
        BY <3>1, <1>3 DEF Good, OnArxiv
      <3>4. Remembers(Idle)' /\ RemembersAlone(Idle)'
        BY <3>1 DEF Remembers, RemembersAlone, Found, Written
      <3>5. Good(Idle)'
        BY <3>2, <3>3, <3>4 DEF Good, Placed
      <3>6. search'[s] = Idle
        BY <1>4, <2>1
      <3> QED  BY <3>5, <3>6 DEF Good, Published, OnArxiv, Placed, Remembers, RemembersAlone
    <2>2. CASE s # r
      <3>1. PICK z : z = search[s]
        OBVIOUS
      <3>2. z \in SearchState /\ Good(z) /\ search'[s] = z
        BY <1>4, <2>2, <3>1 DEF Inv, Typed
      <3>3. z.pc \in Found \cup {"lookup"} => Now(z).paper \in Paper
        <4>1. z.todo \in Results
          BY <3>2 DEF SearchState
        <4> QED  BY <3>2, <4>1, CurrentType DEF Good, Placed, Now, Entries
      <3>4. Remembers(z)'
        BY <1>12, <3>2, <3>3 DEF Good, Remembers, Found, Written
      <3>5. sequential => RemembersAlone(z)'
        <4>1. sequential => z.pc = "idle"
          BY <1>1, <2>2, <3>1 DEF Inv, OneActive, Active
        <4>2. sequential => z.new = {}
          BY <3>2, <4>1 DEF Good, Placed
        <4> QED  BY <4>1, <4>2 DEF RemembersAlone, Found, Written
      <3>6. (\A i \in DOMAIN z.todo : Published(z.todo[i])') /\ OnArxiv(z.rows, z.vers)' /\ Placed(z)
        BY <1>3, <3>2 DEF Good, Published, OnArxiv
      <3> QED
        BY <1>3, <3>2, <3>4, <3>5, <3>6
        DEF Good, Published, OnArxiv, Placed, Remembers, RemembersAlone
    <2> QED  BY <2>1, <2>2
  <1> QED  BY <1>6, <1>7, <1>10, <1>11, <1>13 DEF Inv

LEMMA ReviseKeeps ==
  ASSUME Inv, NEW p \in Paper, Revise(p)
  PROVE  Inv'
  <1>1. arxiv' \in [Paper -> Version]
        /\ \A o \in Paper : arxiv[o] \in Nat /\ arxiv'[o] \in Nat /\ arxiv[o] <= arxiv'[o]
    BY VersionAssumption DEF Revise, Inv, Typed, Version
  <1>2. UNCHANGED <<papers, versions, search, news, sequential>>
    BY DEF Revise
  <1>3. Typed'
    BY <1>1, <1>2 DEF Inv, Typed
  <1>4. ASSUME NEW rows \in [Paper -> Columned], NEW vers \in [Paper -> SUBSET Version],
               OnArxiv(rows, vers)
        PROVE  \A o \in Paper : /\ rows[o] # None => rows[o].updated <= arxiv'[o]
                               /\ \A v \in vers[o] : v <= arxiv'[o]
    <2> TAKE o \in Paper
    <2>1. rows[o] # None => rows[o].updated \in Nat
      BY VersionAssumption DEF Columned, Metadata, Version
    <2>2. \A v \in vers[o] : v \in Nat
      BY VersionAssumption DEF Version
    <2> QED  BY <1>1, <1>4, <2>1, <2>2 DEF OnArxiv
  <1>5. OnArxiv(papers, versions)'
    BY <1>2, <1>4 DEF Inv, Typed, OnArxiv
  <1>6. ASSUME NEW r \in Request  PROVE Good(search[r])'
    <2>1. search[r] \in SearchState /\ Good(search[r])
      BY DEF Inv, Typed
    <2>2. /\ search[r].rows \in [Paper -> Columned] /\ search[r].vers \in [Paper -> SUBSET Version]
          /\ search[r].todo \in Results
      BY <2>1 DEF SearchState
    <2>3. OnArxiv(search[r].rows, search[r].vers)'
      BY <1>2, <1>4, <2>1, <2>2 DEF Good, OnArxiv
    <2>4. \A i \in DOMAIN search[r].todo : search[r].todo[i] \in Entries
      BY <2>2 DEF Results
    <2>5. ASSUME NEW e \in Entries, Published(e)
          PROVE  e.columns.updated <= arxiv'[e.paper]
                 /\ (e.version # None => e.version <= arxiv'[e.paper])
      <3>1. e.paper \in Paper /\ e.columns.updated \in Nat /\ (e.version # None => e.version \in Nat)
        BY VersionAssumption DEF Entries, Metadata, Version
      <3> QED  BY <1>1, <2>5, <3>1 DEF Published
    <2>6. \A i \in DOMAIN search[r].todo : Published(search[r].todo[i])'
      BY <1>2, <2>1, <2>4, <2>5 DEF Good, Published
    <2> QED  BY <1>2, <2>1, <2>3, <2>6 DEF Good, Placed, Remembers, RemembersAlone, OnArxiv, Published
  <1>7. Counted' /\ OneActive'
    BY <1>2 DEF Inv, Counted, OneActive, Active
  <1> QED  BY <1>3, <1>5, <1>6, <1>7 DEF Inv

-----------------------------------------------------------------------------
(* The invariant. *)

\* The invariant holds at first.
LEMMA Initial == Init => Inv
  <1> SUFFICES ASSUME Init PROVE Inv
    OBVIOUS
  <1>1. PICK found \in SUBSET Paper :
          /\ papers = [p \in Paper |-> IF p \in found THEN Columns(1) ELSE None]
          /\ versions = [p \in Paper |-> IF p \in found THEN {1} ELSE {}]
          /\ news = [p \in Paper |-> IF p \in found THEN 1 ELSE 0]
    BY DEF Init
  <1>2. 1 \in Version /\ arxiv = [p \in Paper |-> 1] /\ search = [r \in Request |-> Idle]
    BY VersionAssumption DEF Init, Version
  <1>3. Columns(1) \in Metadata /\ Columns(1).updated = 1 /\ Columns(1) # None
    BY <1>2, ColumnsType
  <1>4. Typed
    <2>1. papers \in [Paper -> Columned]  BY <1>1, <1>3 DEF Columned
    <2>2. versions \in [Paper -> SUBSET Version]  BY <1>1, <1>2
    <2>3. news \in [Paper -> Nat]  BY <1>1
    <2>4. search \in [Request -> SearchState]  BY <1>2, IdleType
    <2> QED  BY <1>2, <2>1, <2>2, <2>3, <2>4 DEF Typed
  <1>5. OnArxiv(papers, versions) /\ Counted
    BY <1>1, <1>2, <1>3 DEF OnArxiv, Counted
  <1>6. \A r \in Request : Good(search[r])
    <2>1. /\ Idle.pc = "idle" /\ Idle.new = {} /\ Idle.todo = <<>>
          /\ \A p \in Paper : Idle.rows[p] = None /\ Idle.vers[p] = {}
      BY DEF Idle, NoRows, NoVersions
    <2>2. Good(Idle)
      BY <2>1, EmptyResults
      DEF Good, OnArxiv, Placed, Remembers, RemembersAlone, Found, Written
    <2> QED  BY <1>2, <2>2
  <1>7. OneActive
    BY <1>2, IdleType DEF OneActive, Active
  <1> QED  BY <1>4, <1>5, <1>6, <1>7 DEF Inv

\* Every step keeps the invariant.
LEMMA NextKeeps == Inv /\ [Next]_vars => Inv'
  <1> SUFFICES ASSUME Inv, [Next]_vars PROVE Inv'
    OBVIOUS
  <1>1. ASSUME NEW p \in Paper, Revise(p) PROVE Inv'
    BY <1>1, ReviseKeeps
  <1>2. ASSUME NEW r \in Request, NEW requested \in 1..(ResultsLimit + 1) \cup {None},
               NEW wanted \in DateRange, Start(r, requested, wanted)
        PROVE  Inv'
    BY <1>2, StartKeeps
  <1>3. ASSUME NEW r \in Request, Step(r) PROVE Inv'
    BY <1>3, RespondKeeps, LookupKeeps, LoadKeeps, StoreKeeps, FindVersionKeeps,
       StoreVersionKeeps, RaiseKeeps, CommitKeeps DEF Step
  <1>4. ASSUME NEW r \in Request, TransientFailure(r) \/ Raise(r) PROVE Inv'
    BY <1>4, TransientFailureKeeps, RaiseKeeps
  <1>5. CASE UNCHANGED vars
    BY <1>5 DEF vars, Inv, Typed, OnArxiv, Good, Published, Placed, Remembers, RemembersAlone,
       Counted, OneActive, Active, Now
  <1> QED  BY <1>1, <1>2, <1>3, <1>4, <1>5 DEF Next

-----------------------------------------------------------------------------
(* The rows of papers against those of paper_versions. *)

\* A step of one search that writes no row and no version keeps Fresh.
LEMMA OneMovesFresh ==
  ASSUME Inv, Fresh, NEW r \in Request, NEW x \in SearchState, Recorded(x),
         sequential /\ x.pc # "idle" => Lone(x),
         search' = [search EXCEPT ![r] = x],
         UNCHANGED <<papers, versions, sequential>>
  PROVE  Fresh'
  <1>1. search'[r] = x /\ \A q \in Request \ {r} : search'[q] = search[q]
    BY DEF Inv, Typed
  <1>2. \A q \in Request : Recorded(search'[q])
    BY <1>1 DEF Fresh
  <1>3. sequential => \A q \in Request : search'[q].pc # "idle" => Lone(search'[q])
    BY <1>1 DEF Fresh, Active
  <1>4. \A q \in Request : Recorded(search[q])'
    BY <1>2 DEF Recorded, View
  <1>5. ASSUME sequential, NEW q \in Request, search'[q].pc # "idle"  PROVE Lone(search[q])'
    <2>1. PICK z : z = search'[q]
      OBVIOUS
    <2>2. Lone(z)
      BY <1>3, <1>5, <2>1
    <2>3. (\A p \in Paper : View(z, p)' = View(z, p)) /\ (Ahead(z, z.todo)' <=> Ahead(z, z.todo))
      BY DEF View, Ahead
    <2>4. Ahead(z, z.todo)' /\ \A p \in Paper : UpToDate(View(z, p), versions[p] \cup z.vers[p])'
      BY <2>2, <2>3 DEF Lone
    <2>5. View(z, Now(z).paper)' = View(z, Now(z).paper)
      BY DEF View
    <2>6. /\ z.pc = "store" => z.loaded = View(z, Now(z).paper)'
          /\ z.pc \in Written => View(z, Now(z).paper)' = Now(z).columns
      BY <2>2, <2>5 DEF Lone
    <2>7. \A p \in Paper : UpToDate(View(search[q], p), versions[p] \cup search[q].vers[p])'
      BY <2>1, <2>4 DEF View
    <2>8. Ahead(search[q], search[q].todo)'
      BY <2>1, <2>4 DEF Ahead
    <2>9. (search[q].pc = "store" => search[q].loaded = View(search[q], Now(search[q]).paper))'
      BY <2>1, <2>6 DEF View, Now
    <2>10. (search[q].pc \in Written =>
              View(search[q], Now(search[q]).paper) = Now(search[q]).columns)'
      BY <2>1, <2>6 DEF View, Now
    <2> QED  BY <2>7, <2>8, <2>9, <2>10 DEF Lone
  <1> QED  BY <1>4, <1>5 DEF Fresh, Active

\* A search that has ended claims nothing.
LEMMA IdleFresh ==
  /\ Recorded(Idle) /\ Idle \in SearchState /\ Idle.pc = "idle"
  /\ \A p \in Paper : View(Idle, p) = papers[p] /\ Idle.rows[p] = None /\ Idle.vers[p] = {}
  <1>1. Idle.pc = "idle" /\ \A p \in Paper : Idle.rows[p] = None /\ Idle.vers[p] = {}
    BY DEF Idle, NoRows, NoVersions
  <1> QED  BY <1>1, IdleType DEF Recorded, View, Written

\* What a failed search wrote is gone, so the committed rows are as they were.
LEMMA FailsFresh ==
  ASSUME Inv, Fresh, NEW r \in Request, Fail(r), UNCHANGED <<papers, versions, sequential>>
  PROVE  Fresh'
  BY IdleFresh, OneMovesFresh DEF Fail

\* To go on to the next result keeps what the search knows of its rows.
LEMMA NextResultFresh ==
  ASSUME NEW q \in SearchState, NEW rest \in Results,
         \A p \in Paper : q.vers[p] # {} => View(q, p) # None,
         sequential => /\ \A p \in Paper : UpToDate(View(q, p), versions[p] \cup q.vers[p])
                       /\ Ahead(q, rest)
  PROVE  Recorded(NextResult(q, rest)) /\ (sequential => Lone(NextResult(q, rest)))
  <1> DEFINE x == NextResult(q, rest)
  <1>1. /\ x.todo = rest /\ x.rows = q.rows /\ x.vers = q.vers
        /\ x.pc \in {"commit", "lookup"}
    BY DEF NextResult, SearchState
  <1> HIDE DEF x
  <1>2. \A p \in Paper : View(x, p) = View(q, p)
    BY <1>1 DEF View
  <1>3. Ahead(x, x.todo) <=> Ahead(q, rest)
    BY <1>1 DEF Ahead
  <1>4. Recorded(x) /\ (sequential => Lone(x))
    BY <1>1, <1>2, <1>3 DEF Recorded, Lone, Written
  <1> QED  BY <1>4 DEF x

\* Each action keeps Fresh: one lemma for each.
LEMMA StartFresh ==
  ASSUME Inv, Fresh, NEW r \in Request, NEW requested \in 1..(ResultsLimit + 1) \cup {None},
         NEW wanted \in DateRange, Start(r, requested, wanted)
  PROVE  Fresh'
  <1> DEFINE y == [Idle EXCEPT !.pc = "get", !.attempt = 1, !.wanted = wanted,
                               !.limit = ResolveMaxResults(requested)]
  <1>1. UNCHANGED <<papers, versions, sequential>>
    BY DEF Start
  <1>2. CASE Refused(requested)
    BY <1>1, <1>2, IdleFresh, OneMovesFresh DEF Start
  <1>3. CASE ~Refused(requested)
    <2>1. y \in SearchState
      <3>1. ResolveMaxResults(requested) \in 0..ResultsLimit
        BY <1>3, LimitAssumption DEF ResolveMaxResults, Refused
      <3>2. wanted \in SUBSET Paper
        BY DateRangeAssumption
      <3>3. 1 \in 0..(MaxRetries + 1)
        BY RetriesAssumption
      <3> QED  BY <3>1, <3>2, <3>3, IdleType DEF SearchState, PC
    <2>2. y.pc = "get" /\ y.todo = <<>> /\ y.rows = Idle.rows /\ y.vers = Idle.vers
      BY DEF Idle
    <2>3. search' = [search EXCEPT ![r] = y]
      BY <1>3 DEF Start
    <2> HIDE DEF y
    <2>4. \A p \in Paper : View(y, p) = papers[p] /\ y.vers[p] = {}
      BY <2>2, IdleFresh DEF View
    <2>5. Recorded(y)
      BY <2>2, <2>4 DEF Recorded, Written
    <2>6. sequential => Lone(y)
      BY <2>2, <2>4, EmptyResults DEF Lone, Ahead, Fresh, Written
    <2> QED  BY <1>1, <2>1, <2>3, <2>5, <2>6, OneMovesFresh
  <1> QED  BY <1>2, <1>3

\* Each of them is the highest version of its paper on the page, and the only
\* one of its paper.
LEMMA HighestOfPage ==
  ASSUME NEW n \in 0..ResultsLimit, NEW s \in [1..n -> Entries], NEW wanted
  PROVE  LET t == FilterByDateRange(Deduplicate(s), wanted)
         IN  /\ \A i \in DOMAIN t : \E j \in 1..n :
                  t[i] = s[j] /\ \A k \in 1..n : s[k].paper = s[j].paper => Rank(s[k]) <= Rank(s[j])
             /\ \A i, j \in DOMAIN t : t[i].paper = t[j].paper => i = j
  <1> DEFINE first == {i \in DOMAIN s : \A j \in 1..(i - 1) : s[j].paper # s[i].paper}
             d == Deduplicate(s)
             kept == {i \in DOMAIN d : d[i].paper \in wanted}
             t == Restrict(d, kept)
  <1>1. DOMAIN d = first /\ \A i \in first : d[i] = Best(s, s[i].paper)
    BY DEF Deduplicate
  <1>2. first \in SUBSET (1..n) /\ n \in Nat
    BY LimitAssumption
  <1>3. \A i \in first : \E j \in 1..n :
          /\ d[i] = s[j] /\ s[j].paper = s[i].paper
          /\ \A k \in 1..n : s[k].paper = s[j].paper => Rank(s[k]) <= Rank(s[j])
    <2> TAKE i \in first
    <2>1. i \in 1..n  BY <1>2
    <2>2. \E j \in 1..n : /\ Best(s, s[i].paper) = s[j] /\ s[j].paper = s[i].paper
                          /\ \A k \in 1..n : s[k].paper = s[i].paper => Rank(s[k]) <= Rank(s[j])
      BY <1>2, <2>1, BestType
    <2> QED  BY <1>1, <2>2
  <1>4. \A i, j \in first : s[i].paper = s[j].paper => i = j
    <2> SUFFICES ASSUME NEW i \in first, NEW j \in first, i < j  PROVE s[i].paper # s[j].paper
      BY <1>2
    <2> QED  BY <1>2
  <1>5. DOMAIN t = kept /\ \A i \in kept : i \in first /\ t[i] = d[i]
    <2> HIDE DEF d, first
    <2> QED  BY <1>1 DEF Restrict
  <1>6. t = FilterByDateRange(Deduplicate(s), wanted)
    BY DEF FilterByDateRange
  <1> HIDE DEF t, kept, d, first
  <1> QED  BY <1>3, <1>4, <1>5, <1>6

\* What is written for a paper is what arXiv shows of it now.
LEMMA PageIsAhead ==
  ASSUME Inv, NEW shape \in Shape, NEW limit \in 0..ResultsLimit, NEW wanted
  PROVE  Ahead(Idle, FilterByDateRange(Deduplicate(Page(shape, limit)), wanted))
  <1> DEFINE n == IF Len(shape) < limit THEN Len(shape) ELSE limit
             s == Page(shape, limit)
             t == FilterByDateRange(Deduplicate(s), wanted)
             Listed == [paper : Paper, lag : Nat \cup {None}]
  <1>1. Len(shape) \in Nat /\ DOMAIN shape = 1..Len(shape)
        /\ \A i \in 1..Len(shape) : shape[i] \in Listed
    <2>1. shape \in Seq(Listed)
      BY ShapeAssumption
    <2> HIDE DEF Listed
    <2> QED  BY <2>1
  <1>2. n \in 0..ResultsLimit /\ n \in Nat /\ \A i \in 1..n : i \in 1..Len(shape)
    BY <1>1, LimitAssumption
  <1>3. s = [i \in 1..n |-> Entry(shape[i])]
    BY DEF Page
  <1>4. arxiv \in [Paper -> Version] /\ \A p \in Paper : arxiv[p] \in Nat \ {0}
    BY VersionAssumption DEF Inv, Typed, Version
  <1> HIDE DEF n, s, t
  <1>5. ASSUME NEW i \in 1..n
        PROVE  /\ s[i] \in Entries /\ s[i].paper = shape[i].paper /\ Published(s[i])
               /\ s[i].columns = Columns(s[i].columns.updated)
               /\ s[i].version # None => s[i].version = s[i].columns.updated
               /\ shape[i].lag = None => s[i].version = None
                                         /\ s[i].columns.updated = arxiv[s[i].paper]
               /\ shape[i].lag = 0 => s[i].version = arxiv[s[i].paper]
    <2> DEFINE e == shape[i]
               now == arxiv[e.paper]
               v == IF e.lag = None THEN now ELSE IF e.lag < now THEN now - e.lag ELSE 1
    <2>1. e \in Listed /\ s[i] = Entry(e)
      BY <1>1, <1>2, <1>3
    <2>2. s[i] \in Entries /\ Published(s[i])
      BY <1>4, <2>1, EntryType
    <2>3. s[i] = [paper |-> e.paper, version |-> IF e.lag = None THEN None ELSE v,
                  columns |-> Columns(v)]
      BY <2>1 DEF Entry
    <2>4. now \in Nat \ {0} /\ now \in Version
      BY <1>4, <2>1
    <2>5. v \in Version /\ (e.lag = None => v = now) /\ (e.lag = 0 => v = now)
      <3>1. v \in 1..now
        BY <2>1, <2>4
      <3>2. (e.lag = None => v = now) /\ (e.lag = 0 => v = now)
        BY <2>4
      <3> QED  BY <2>4, <3>1, <3>2, VersionAssumption DEF Version
    <2> HIDE DEF v, now, e
    <2>6. Columns(v).updated = v
      BY <2>5, ColumnsType
    <2>7. 0 # None
      BY NoneAssumption
    <2> QED  BY <2>2, <2>3, <2>5, <2>6, <2>7 DEF now, e
  <1>6. s \in [1..n -> Entries]
    BY <1>3, <1>5
  <1>7. /\ \A i \in DOMAIN t : \E j \in 1..n :
             t[i] = s[j] /\ \A k \in 1..n : s[k].paper = s[j].paper => Rank(s[k]) <= Rank(s[j])
        /\ \A i, j \in DOMAIN t : t[i].paper = t[j].paper => i = j
    BY <1>2, <1>6, HighestOfPage DEF t
  <1>8. ASSUME NEW j \in 1..n,
               \A k \in 1..n : s[k].paper = s[j].paper => Rank(s[k]) <= Rank(s[j])
        PROVE  s[j].columns.updated = arxiv[s[j].paper]
    <2>1. CASE shape[j].lag = None
      BY <1>5, <2>1
    <2>2. CASE shape[j].lag # None
      <3>1. PICK k \in 1..j : shape[k].paper = shape[j].paper /\ shape[k].lag = 0
        BY <1>1, <1>2, <2>2, NewestAssumption
      <3>2. k \in 1..n
        BY <1>2
      <3>3. s[k].paper = s[j].paper /\ s[k].version = arxiv[s[j].paper]
        BY <1>5, <3>1, <3>2
      <3>4. s[j].paper \in Paper
        BY <1>5 DEF Entries
      <3>5. Rank(s[k]) = arxiv[s[j].paper] /\ arxiv[s[j].paper] \in Nat \ {0}
        BY <1>4, <3>3, <3>4, NoneAssumption DEF Rank
      <3>6. Rank(s[k]) <= Rank(s[j])
        BY <1>8, <3>2, <3>3
      <3>7. s[j].version # None /\ s[j].version = s[j].columns.updated
        BY <1>5, <3>5, <3>6 DEF Rank
      <3>8. s[j].columns.updated <= arxiv[s[j].paper] /\ s[j].columns.updated \in Nat
        BY <1>5, VersionAssumption DEF Published, Entries, Metadata, Version
      <3> QED  BY <3>5, <3>6, <3>7, <3>8 DEF Rank
    <2> QED  BY <2>1, <2>2
  <1>9. ASSUME NEW i \in DOMAIN t
        PROVE  /\ UpToDate(t[i].columns, versions[t[i].paper] \cup Idle.vers[t[i].paper])
               /\ t[i].version # None => t[i].version <= t[i].columns.updated
    <2>1. PICK j \in 1..n :
            t[i] = s[j] /\ \A k \in 1..n : s[k].paper = s[j].paper => Rank(s[k]) <= Rank(s[j])
      BY <1>7
    <2>2. t[i].columns.updated = arxiv[t[i].paper] /\ t[i].paper \in Paper
          /\ t[i].columns.updated \in Nat
      BY <1>4, <1>5, <1>8, <2>1 DEF Entries
    <2>3. \A v \in versions[t[i].paper] : v <= t[i].columns.updated
      BY <2>2 DEF Inv, OnArxiv
    <2>4. Idle.vers[t[i].paper] = {}
      BY <2>2, IdleFresh
    <2>5. t[i].columns = Columns(t[i].columns.updated)
          /\ (t[i].version # None => t[i].version = t[i].columns.updated)
      BY <1>5, <2>1
    <2> QED  BY <2>2, <2>3, <2>4, <2>5 DEF UpToDate
  <1>10. Ahead(Idle, t)
    BY <1>7, <1>9 DEF Ahead
  <1> QED  BY <1>10 DEF t, s

LEMMA RespondFresh ==
  ASSUME Inv, Fresh, NEW r \in Request, Respond(r)
  PROVE  Fresh'
  <1>1. PICK shape \in Shape :
          search' = [search EXCEPT ![r] =
            NextResult(Idle, FilterByDateRange(Deduplicate(Page(shape, search[r].limit)),
                                               search[r].wanted))]
    BY DEF Respond
  <1> DEFINE rest == FilterByDateRange(Deduplicate(Page(shape, search[r].limit)), search[r].wanted)
  <1>2. search[r].limit \in 0..ResultsLimit /\ arxiv \in [Paper -> Version]
    BY DEF Inv, Typed, SearchState
  <1>3. rest \in Results /\ Ahead(Idle, rest)
    BY <1>2, PageType, PageIsAhead
  <1>4. search' = [search EXCEPT ![r] = NextResult(Idle, rest)]
        /\ UNCHANGED <<papers, versions, sequential>>
    BY <1>1 DEF Respond
  <1> HIDE DEF rest
  <1>5. Recorded(NextResult(Idle, rest)) /\ (sequential => Lone(NextResult(Idle, rest)))
    BY <1>3, IdleFresh, NextResultFresh DEF Fresh
  <1>6. NextResult(Idle, rest) \in SearchState
    BY <1>3, IdleFresh DEF NextResult, SearchState, PC, Columned
  <1> QED  BY <1>4, <1>5, <1>6, OneMovesFresh

\* A step of a search that leaves its results and its writes as they are.
LEMMA StaysFresh ==
  ASSUME Inv, Fresh, NEW r \in Request, Active(r), NEW x \in SearchState,
         x.todo = search[r].todo, x.rows = search[r].rows, x.vers = search[r].vers,
         x.pc = "store" => x.loaded = View(x, Now(x).paper),
         x.pc \in Written => View(x, Now(x).paper) # None
                             /\ (sequential => View(x, Now(x).paper) = Now(x).columns),
         search' = [search EXCEPT ![r] = x], UNCHANGED <<papers, versions, sequential>>
  PROVE  Fresh'
  <1>1. \A p \in Paper : View(x, p) = View(search[r], p)
    BY DEF View
  <1>2. Recorded(x)
    BY <1>1 DEF Fresh, Recorded
  <1>3. sequential => Lone(x)
    <2>1. Ahead(x, x.todo) <=> Ahead(search[r], search[r].todo)
      BY DEF Ahead
    <2> QED  BY <1>1, <2>1 DEF Fresh, Lone
  <1> QED  BY <1>2, <1>3, OneMovesFresh

LEMMA TransientFailureFresh ==
  ASSUME Inv, Fresh, NEW r \in Request, TransientFailure(r)
  PROVE  Fresh'
  <1>1. CASE search[r].attempt <= MaxRetries
    <2> DEFINE x == [search[r] EXCEPT !.attempt = @ + 1]
    <2>1. search[r] \in SearchState /\ Active(r) /\ search[r].pc = "get"
      BY DEF Inv, Typed, TransientFailure, Active
    <2>2. x \in SearchState
      BY <1>1, <2>1, RetriesAssumption DEF SearchState
    <2>3. /\ x.todo = search[r].todo /\ x.rows = search[r].rows
          /\ x.vers = search[r].vers /\ x.pc = "get"
      BY <2>1 DEF SearchState
    <2>4. search' = [search EXCEPT ![r] = x] /\ UNCHANGED <<papers, versions, sequential>>
      BY <1>1 DEF TransientFailure
    <2> HIDE DEF x
    <2> QED  BY <2>1, <2>2, <2>3, <2>4, StaysFresh DEF Written
  <1>2. CASE ~(search[r].attempt <= MaxRetries)
    BY <1>2, FailsFresh DEF TransientFailure
  <1> QED  BY <1>1, <1>2

LEMMA RaiseFresh ==
  ASSUME Inv, Fresh, NEW r \in Request, Raise(r) \/ DeadlockVictim(r)
  PROVE  Fresh'
  BY FailsFresh DEF Raise, DeadlockVictim

LEMMA LookupFresh ==
  ASSUME Inv, Fresh, NEW r \in Request, Lookup(r)
  PROVE  Fresh'
  <1> DEFINE q == search[r]
             x == [q EXCEPT !.known = Row(r, Current(r).paper) # None, !.pc = "load"]
  <1>1. q \in SearchState /\ Active(r)
    BY DEF Inv, Typed, Lookup, Active
  <1>2. x \in SearchState
    BY <1>1 DEF SearchState, PC
  <1>3. search' = [search EXCEPT ![r] = x] /\ UNCHANGED <<papers, versions, sequential>>
    BY DEF Lookup, Inv, Typed
  <1>4. x.todo = q.todo /\ x.rows = q.rows /\ x.vers = q.vers /\ x.pc = "load"
    BY <1>1 DEF SearchState
  <1> HIDE DEF x
  <1> QED  BY <1>1, <1>2, <1>3, <1>4, StaysFresh DEF Written

LEMMA LoadFresh ==
  ASSUME Inv, Fresh, NEW r \in Request, Load(r)
  PROVE  Fresh'
  <1> DEFINE q == search[r]
             row == Row(r, Current(r).paper)
             pc == IF row # None /\ row = Current(r).columns THEN "findversion" ELSE "store"
             x == [q EXCEPT !.loaded = row, !.pc = pc]
  <1>1. /\ q \in SearchState /\ Active(r) /\ Current(r) = Now(q) /\ Now(q).paper \in Paper
    BY AtResult DEF Load, Found
  <1>2. row \in Columned /\ row = View(q, Now(q).paper)
    BY <1>1, RowType DEF Row, View
  <1>3. search' = [search EXCEPT ![r] = x] /\ UNCHANGED <<papers, versions, sequential>>
    BY DEF Load, Inv, Typed
  <1>4. pc \in {"findversion", "store"}
        /\ (pc = "findversion" => row # None /\ row = Now(q).columns)
    BY <1>1
  <1> HIDE DEF row, pc
  <1>5. x \in SearchState
    BY <1>1, <1>2, <1>4 DEF SearchState, PC
  <1>6. /\ x.todo = q.todo /\ x.rows = q.rows /\ x.vers = q.vers /\ x.pc = pc /\ x.loaded = row
    BY <1>1 DEF SearchState
  <1> HIDE DEF x, q
  <1>7. Now(x) = Now(q) /\ View(x, Now(x).paper) = View(q, Now(q).paper)
    BY <1>6 DEF Now, View
  <1> QED  BY <1>1, <1>2, <1>3, <1>4, <1>5, <1>6, <1>7, StaysFresh DEF Written, q

\* A row that nobody changed since it was loaded is overwritten as a whole.
LEMMA UpdatedAlone ==
  ASSUME NEW row \in Metadata, NEW columns \in Metadata
  PROVE  Updated(row, row, columns) = columns
  <1>1. Updated(row, row, columns) = [c \in DOMAIN columns |-> columns[c]]
    BY DEF Updated
  <1> QED  BY <1>1 DEF Metadata

LEMMA StoreFresh ==
  ASSUME Inv, Fresh, NEW r \in Request, Store(r)
  PROVE  Fresh'
  <1> DEFINE q == search[r]
             e == Current(r)
             p == e.paper
             c == IF q.loaded = None THEN e.columns ELSE Updated(Row(r, p), q.loaded, e.columns)
             x == [q EXCEPT !.rows[p] = c, !.pc = "findversion"]
  <1>1. /\ q \in SearchState /\ Good(q) /\ Active(r) /\ q.pc = "store" /\ q.todo \in Results
        /\ e = Now(q) /\ e \in Entries /\ p \in Paper /\ Published(e)
    <2>1. search[r].pc = "store"  BY DEF Store
    <2> QED  BY <2>1, AtResult DEF Found, SearchState
  <1>2. UNCHANGED <<papers, versions, sequential>>
    BY DEF Store
  <1>3. CASE q.loaded = None /\ papers[p] # None
    BY <1>2, <1>3, FailsFresh DEF Store
  <1>4. CASE ~(q.loaded = None /\ papers[p] # None)
    <2>1. search' = [search EXCEPT ![r] = x]
      BY <1>4 DEF Store, Inv, Typed
    <2>2. /\ e.columns \in Metadata /\ e.columns.updated <= arxiv[p]
          /\ arxiv[p] \in Nat /\ q.loaded \in Columned
      BY <1>1, VersionAssumption DEF Published, Entries, SearchState, Inv, Typed, Version
    <2>3. q.loaded # None => q.loaded \in Metadata /\ Row(r, p) \in Metadata
                             /\ Row(r, p).updated <= arxiv[p]
      BY <1>1, <2>2, RowType DEF Good, Remembers, Columned
    <2>4. c \in Metadata
      <3>1. CASE q.loaded = None  BY <2>2, <3>1
      <3>2. CASE q.loaded # None  BY <2>2, <2>3, <3>2, UpdatedType
      <3> QED  BY <3>1, <3>2
    <2>5. sequential => c = e.columns
      <3>1. CASE q.loaded = None  BY <3>1
      <3>2. CASE q.loaded # None
        <4>1. sequential => q.loaded = Row(r, p)
          BY <1>1 DEF Fresh, Lone, Row, View
        <4> QED  BY <2>2, <2>3, <3>2, <4>1, UpdatedAlone
      <3> QED  BY <3>1, <3>2
    <2> HIDE DEF c
    <2>6. x \in SearchState
      BY <1>1, <2>4 DEF SearchState, PC, Columned
    <2>7. /\ x.todo = q.todo /\ x.vers = q.vers /\ x.pc = "findversion"
          /\ x.rows[p] = c /\ \A o \in Paper \ {p} : x.rows[o] = q.rows[o]
      BY <1>1 DEF SearchState
    <2> HIDE DEF x
    <2>8. View(x, p) = c /\ c # None /\ \A o \in Paper \ {p} : View(x, o) = View(q, o)
      BY <2>4, <2>7, NoneAssumption DEF View
    <2>9. Now(x) = e
      BY <1>1, <2>7 DEF Now
    <2> HIDE DEF q
    <2>10. Recorded(x)
      <3>1. Recorded(q)
        BY DEF Fresh, q
      <3> QED  BY <2>7, <2>8, <2>9, <3>1 DEF Recorded
    <2>11. ASSUME sequential  PROVE Lone(x)
      <3>1. Lone(q)
        BY <1>1, <2>11 DEF Fresh, q
      <3>2. Ahead(x, x.todo)
        BY <2>7, <3>1 DEF Lone, Ahead
      <3>3. Position(q.todo) \in DOMAIN q.todo /\ e = q.todo[Position(q.todo)]
        <4>1. DOMAIN q.todo # {}
          BY <1>1 DEF Good, Placed, Found
        <4> QED  BY <1>1, <4>1, CurrentType DEF Now
      <3>4. UpToDate(e.columns, versions[p] \cup q.vers[p])
        BY <3>1, <3>3 DEF Lone, Ahead
      <3>5. \A o \in Paper : UpToDate(View(x, o), versions[o] \cup x.vers[o])
        BY <2>5, <2>7, <2>8, <2>11, <3>1, <3>4 DEF Lone
      <3> QED  BY <2>5, <2>7, <2>8, <2>9, <2>11, <3>2, <3>5 DEF Lone
    <2> QED  BY <1>2, <2>1, <2>6, <2>10, <2>11, OneMovesFresh
  <1> QED  BY <1>3, <1>4

\* What FindVersion and StoreVersion leave to the next result.
LEMMA RestAhead ==
  ASSUME Inv, Fresh, NEW r \in Request, search[r].pc \in Written
  PROVE  LET q == search[r]
             e == Current(r)
         IN  /\ \A p \in Paper : q.vers[p] # {} => View(q, p) # None
             /\ View(q, e.paper) # None
             /\ sequential =>
                  /\ \A p \in Paper : UpToDate(View(q, p), versions[p] \cup q.vers[p])
                  /\ View(q, e.paper) = e.columns
                  /\ e.version # None => e.version <= e.columns.updated
                  /\ Ahead(q, Rest(q.todo))
                  /\ \A i \in DOMAIN Rest(q.todo) : Rest(q.todo)[i].paper # e.paper
  <1> DEFINE q == search[r]
             e == Current(r)
             rest == Rest(q.todo)
  <1>1. Active(r) /\ q.todo \in Results /\ DOMAIN q.todo # {} /\ e = Now(q)
    BY AtResult DEF Found, Written, SearchState, Good, Placed
  <1>2. Position(q.todo) \in DOMAIN q.todo /\ e = q.todo[Position(q.todo)]
    BY <1>1, CurrentType DEF Now
  <1>3. \A i \in DOMAIN rest : /\ i \in DOMAIN q.todo /\ i # Position(q.todo)
                               /\ rest[i] = q.todo[i]
    BY <1>1, RestrictType DEF Rest
  <1>4. Recorded(q) /\ (sequential => Lone(q))
    BY <1>1 DEF Fresh
  <1> HIDE DEF rest, q, e
  <1>5. sequential => Ahead(q, rest) /\ \A i \in DOMAIN rest : rest[i].paper # e.paper
    BY <1>2, <1>3, <1>4 DEF Lone, Ahead
  <1>6. sequential => (e.version # None => e.version <= e.columns.updated)
    BY <1>2, <1>4 DEF Lone, Ahead
  <1>7. q.pc \in Written
    BY DEF q
  <1>8. View(q, e.paper) # None /\ (sequential => View(q, e.paper) = e.columns)
    BY <1>1, <1>4, <1>7 DEF Recorded, Lone
  <1> QED  BY <1>4, <1>5, <1>6, <1>8 DEF Recorded, Lone, q, e, rest

LEMMA FindVersionFresh ==
  ASSUME Inv, Fresh, NEW r \in Request, FindVersion(r)
  PROVE  Fresh'
  <1> DEFINE q == search[r]
             e == Current(r)
  <1>1. /\ q \in SearchState /\ Active(r) /\ q.pc = "findversion" /\ q.pc \in Written
        /\ e = Now(q) /\ e.paper \in Paper /\ Rest(q.todo) \in Results
    <2>1. q.pc = "findversion"  BY DEF FindVersion
    <2> QED  BY <2>1, AtResult DEF Found, Written
  <1>2. UNCHANGED <<papers, versions, sequential>>
    BY DEF FindVersion
  <1>3. CASE e.version = None \/ e.version \in VersionsSeen(r, e.paper)
    <2> DEFINE y == [q EXCEPT !.new = Told(r)]
    <2>1. search' = [search EXCEPT ![r] = NextResult(y, Rest(q.todo))]
      BY <1>3 DEF FindVersion, Inv, Typed
    <2>2. Told(r) \in SUBSET Paper
      BY <1>1 DEF Told, SearchState
    <2>3. y \in SearchState /\ y.rows = q.rows /\ y.vers = q.vers
      BY <1>1, <2>2 DEF SearchState
    <2>4. NextResult(y, Rest(q.todo)) \in SearchState
      BY <1>1, <2>3 DEF NextResult, SearchState, PC, Columned
    <2> HIDE DEF y
    <2>5. \A p \in Paper : View(y, p) = View(q, p)
      BY <2>3 DEF View
    <2>6. Ahead(y, Rest(q.todo)) <=> Ahead(q, Rest(q.todo))
      BY <2>3 DEF Ahead
    <2>7. /\ \A p \in Paper : y.vers[p] # {} => View(y, p) # None
          /\ sequential => /\ \A p \in Paper : UpToDate(View(y, p), versions[p] \cup y.vers[p])
                           /\ Ahead(y, Rest(q.todo))
      BY <1>1, <2>3, <2>5, <2>6, RestAhead
    <2>8. /\ Recorded(NextResult(y, Rest(q.todo)))
          /\ sequential => Lone(NextResult(y, Rest(q.todo)))
      BY <1>1, <2>3, <2>7, NextResultFresh
    <2> QED  BY <1>2, <2>1, <2>4, <2>8, OneMovesFresh
  <1>4. CASE ~(e.version = None \/ e.version \in VersionsSeen(r, e.paper))
    <2> DEFINE x == [q EXCEPT !.pc = "storeversion"]
    <2>1. search' = [search EXCEPT ![r] = x]
      BY <1>4 DEF FindVersion, Inv, Typed
    <2>2. x \in SearchState
      BY <1>1 DEF SearchState, PC
    <2>3. x.todo = q.todo /\ x.rows = q.rows /\ x.vers = q.vers /\ x.pc = "storeversion"
      BY <1>1 DEF SearchState
    <2>4. View(q, e.paper) # None /\ (sequential => View(q, e.paper) = e.columns)
      BY <1>1, RestAhead
    <2> HIDE DEF x, q, e
    <2>5. Now(x) = e /\ View(x, e.paper) = View(q, e.paper)
      BY <1>1, <2>3 DEF Now, View
    <2> QED  BY <1>1, <1>2, <2>1, <2>2, <2>3, <2>4, <2>5, StaysFresh DEF q
  <1> QED  BY <1>3, <1>4

LEMMA StoreVersionFresh ==
  ASSUME Inv, Fresh, NEW r \in Request, StoreVersion(r)
  PROVE  Fresh'
  <1> DEFINE q == search[r]
             e == Current(r)
             y == [q EXCEPT !.new = Told(r), !.vers[e.paper] = @ \cup {e.version}]
  <1>1. /\ q \in SearchState /\ Good(q) /\ Active(r) /\ q.pc \in Written /\ e = Now(q)
        /\ e \in Entries /\ e.paper \in Paper /\ Rest(q.todo) \in Results
        /\ e.version # None
    <2>1. q.pc = "storeversion"  BY DEF StoreVersion
    <2> QED  BY <2>1, AtResult DEF Found, Written, Good, Placed
  <1>2. UNCHANGED <<papers, versions, sequential>>
    BY DEF StoreVersion
  <1>3. CASE e.version \in versions[e.paper]
    BY <1>2, <1>3, FailsFresh DEF StoreVersion
  <1>4. CASE e.version \notin versions[e.paper]
    <2>1. search' = [search EXCEPT ![r] = NextResult(y, Rest(q.todo))]
      BY <1>4 DEF StoreVersion, Inv, Typed
    <2>2. Told(r) \in SUBSET Paper
      BY <1>1 DEF Told, SearchState
    <2>3. e.version \in Version
      BY <1>1 DEF Entries
    <2>4. /\ y \in SearchState /\ y.rows = q.rows
          /\ y.vers[e.paper] = q.vers[e.paper] \cup {e.version}
          /\ \A p \in Paper \ {e.paper} : y.vers[p] = q.vers[p]
      BY <1>1, <2>2, <2>3 DEF SearchState
    <2>5. NextResult(y, Rest(q.todo)) \in SearchState
      BY <1>1, <2>4 DEF NextResult, SearchState, PC, Columned
    <2> HIDE DEF y, e
    <2>6. \A p \in Paper : View(y, p) = View(q, p)
      BY <2>4 DEF View
    <2>7. /\ \A p \in Paper : q.vers[p] # {} => View(q, p) # None
          /\ View(q, e.paper) # None
          /\ sequential =>
               /\ \A p \in Paper : UpToDate(View(q, p), versions[p] \cup q.vers[p])
               /\ View(q, e.paper) = e.columns
               /\ e.version <= e.columns.updated
               /\ Ahead(q, Rest(q.todo))
               /\ \A i \in DOMAIN Rest(q.todo) : Rest(q.todo)[i].paper # e.paper
      BY <1>1, RestAhead DEF e
    <2>8. \A p \in Paper : y.vers[p] # {} => View(y, p) # None
      BY <2>4, <2>6, <2>7
    <2>9. sequential => \A p \in Paper : UpToDate(View(y, p), versions[p] \cup y.vers[p])
      BY <2>4, <2>6, <2>7 DEF UpToDate
    <2>10. sequential => Ahead(y, Rest(q.todo))
      <3>1. \A i \in DOMAIN Rest(q.todo) : Rest(q.todo)[i].paper \in Paper
        BY <1>1 DEF Results, Entries
      <3> QED  BY <2>4, <2>7, <3>1 DEF Ahead
    <2>11. /\ Recorded(NextResult(y, Rest(q.todo)))
           /\ sequential => Lone(NextResult(y, Rest(q.todo)))
      BY <1>1, <2>4, <2>8, <2>9, <2>10, NextResultFresh
    <2> QED  BY <1>2, <2>1, <2>5, <2>11, OneMovesFresh
  <1> QED  BY <1>3, <1>4

LEMMA CommitFresh ==
  ASSUME Inv, Fresh, NEW r \in Request, Commit(r)
  PROVE  Fresh'
  <1> DEFINE q == search[r]
  <1>1. q \in SearchState /\ Active(r) /\ Recorded(q) /\ (sequential => Lone(q))
    BY DEF Inv, Typed, Commit, Active, Fresh
  <1>2. \A p \in Paper : papers'[p] = View(q, p) /\ versions'[p] = versions[p] \cup q.vers[p]
    BY DEF Commit, VersionsSeen, Row, View
  <1>3. sequential' = sequential
    BY DEF Commit
  <1>4. search'[r] = Idle /\ \A s \in Request \ {r} : search'[s] = search[s]
    BY DEF Commit, Inv, Typed
  <1>5. \A p \in Paper : papers[p] # None => papers'[p] # None
    BY <1>2 DEF View
  <1>6. \A p \in Paper : versions'[p] # {} => papers'[p] # None
    BY <1>1, <1>2, <1>5 DEF Fresh, Recorded
  <1>7. ASSUME NEW s \in Request  PROVE Recorded(search[s])'
    <2>1. PICK z : z = search'[s]
      OBVIOUS
    <2>2. Recorded(z) /\ z \in SearchState /\ Good(z)
      BY <1>4, <2>1, IdleType, IdleFresh DEF Fresh, Inv, Typed
    <2>3. z.pc \in Written => Now(z).paper \in Paper
      <3>1. z.todo \in Results /\ (z.pc \in Written => DOMAIN z.todo # {})
        BY <2>2 DEF SearchState, Good, Placed, Found, Written
      <3> QED  BY <3>1, CurrentType DEF Now, Entries
    <2>4. \A p \in Paper : View(z, p) # None => View(z, p)' # None
      BY <1>5 DEF View
    <2>5. /\ \A p \in Paper : z.vers[p] # {} => View(z, p)' # None
          /\ z.pc \in Written => View(z, Now(z).paper)' # None
      BY <2>2, <2>3, <2>4 DEF Recorded
    <2> QED  BY <2>1, <2>5 DEF Recorded, View, Now
  <1>8. sequential => \A p \in Paper : UpToDate(papers'[p], versions'[p])
    BY <1>1, <1>2 DEF Lone
  <1>9. sequential => \A s \in Request : ~Active(s)'
    BY <1>1, <1>4, IdleFresh DEF Inv, OneActive, Active
  <1>10. sequential' => \A p \in Paper : UpToDate(papers[p], versions[p])'
    BY <1>3, <1>8
  <1> QED  BY <1>3, <1>6, <1>7, <1>9, <1>10 DEF Fresh

\* Fresh holds at first.
LEMMA FreshInitial == Init => Fresh
  <1> SUFFICES ASSUME Init PROVE Fresh
    OBVIOUS
  <1>1. PICK found \in SUBSET Paper :
          /\ papers = [p \in Paper |-> IF p \in found THEN Columns(1) ELSE None]
          /\ versions = [p \in Paper |-> IF p \in found THEN {1} ELSE {}]
    BY DEF Init
  <1>2. Columns(1).updated = 1 /\ Columns(1) # None
    BY VersionAssumption, ColumnsType DEF Version
  <1>3. \A r \in Request : search[r] = Idle
    BY DEF Init
  <1>4. \A p \in Paper : UpToDate(papers[p], versions[p]) /\ (versions[p] # {} => papers[p] # None)
    BY <1>1, <1>2 DEF UpToDate
  <1> QED  BY <1>3, <1>4, IdleFresh DEF Fresh, Active

\* Every step keeps Fresh.
LEMMA FreshKeeps == Inv /\ Fresh /\ [Next]_vars => Fresh'
  <1> SUFFICES ASSUME Inv, Fresh, [Next]_vars PROVE Fresh'
    OBVIOUS
  <1>1. ASSUME UNCHANGED <<papers, versions, search, sequential>>  PROVE Fresh'
    <2>1. \A r \in Request : Recorded(search[r])'
      BY <1>1 DEF Fresh, Recorded, View, Now
    <2>2. sequential => \A p \in Paper : UpToDate(papers[p], versions[p])'
      BY <1>1 DEF Fresh, UpToDate
    <2>3. ASSUME sequential, NEW r \in Request, Active(r)'  PROVE Lone(search[r])'
      <3>1. Lone(search[r])
        BY <1>1, <2>3 DEF Fresh, Active
      <3> QED  BY <1>1, <3>1 DEF Lone, Ahead, View, Now, UpToDate
    <2> QED  BY <1>1, <2>1, <2>2, <2>3 DEF Fresh
  <1>2. ASSUME NEW p \in Paper, Revise(p) PROVE Fresh'
    BY <1>1, <1>2 DEF Revise
  <1>3. ASSUME NEW r \in Request, NEW requested \in 1..(ResultsLimit + 1) \cup {None},
               NEW wanted \in DateRange, Start(r, requested, wanted)
        PROVE  Fresh'
    BY <1>3, StartFresh
  <1>4. ASSUME NEW r \in Request, Step(r) PROVE Fresh'
    BY <1>4, RespondFresh, LookupFresh, LoadFresh, StoreFresh, FindVersionFresh,
       StoreVersionFresh, RaiseFresh, CommitFresh DEF Step
  <1>5. ASSUME NEW r \in Request, TransientFailure(r) \/ Raise(r) PROVE Fresh'
    BY <1>5, TransientFailureFresh, RaiseFresh
  <1>6. CASE UNCHANGED vars
    BY <1>1, <1>6 DEF vars
  <1> QED  BY <1>2, <1>3, <1>4, <1>5, <1>6 DEF Next

-----------------------------------------------------------------------------
(* Theorems. *)

\* For any papers, pages and bounds, the rows of PostgreSQL, the searches and
\* the answers keep the invariant above.
THEOREM InvariantHolds == Spec => []Inv
  BY Initial, NextKeeps, PTL DEF Spec

\* Nothing is recorded that arXiv has not published, and the client never asks
\* arXiv more often than ARXIV_MAX_RETRIES allows.
THEOREM TypeCorrect == Spec => []TypeOK
  <1>1. Inv => TypeOK
    <2> SUFFICES ASSUME Inv PROVE TypeOK
      OBVIOUS
    <2>1. \A p \in Paper : papers[p] = None \/ papers[p].updated \in 1..arxiv[p]
      <3> TAKE p \in Paper
      <3>1. papers[p] # None => papers[p].updated \in Version /\ papers[p].updated <= arxiv[p]
        BY DEF Inv, Typed, OnArxiv, Columned, Metadata
      <3>2. arxiv[p] \in Version
        BY DEF Inv, Typed
      <3> QED  BY <3>1, <3>2, VersionAssumption DEF Version
    <2>2. \A p \in Paper : versions[p] \subseteq 1..arxiv[p]
      BY VersionAssumption DEF Inv, Typed, OnArxiv, Version
    <2>3. \A r \in Request : search[r].attempt <= MaxRetries + 1
                           /\ DOMAIN search[r].todo \subseteq 1..ResultsLimit
      <3> TAKE r \in Request
      <3>1. search[r].attempt \in 0..(MaxRetries + 1) /\ search[r].todo \in Results
        BY DEF Inv, Typed, SearchState
      <3> QED  BY <3>1, RetriesAssumption DEF Results
    <2> QED  BY <2>1, <2>2, <2>3 DEF TypeOK, Inv, Typed
  <1> QED  BY <1>1, InvariantHolds, PTL

\* A recorded paper was reported as new to some caller, and to exactly one when
\* callers wait for each other, whatever fails, overlaps or is rolled back.
THEOREM ReportedOnce == Spec => []DiscoveryIsReported
  <1>1. Inv => DiscoveryIsReported
    BY DEF Inv, Counted, DiscoveryIsReported
  <1> QED  BY <1>1, InvariantHolds, PTL

\* No version is recorded without its paper; when callers wait for each other
\* a row of papers is that of one published version, and of none older than a
\* recorded one.
THEOREM RowsDescribe == Spec => []RowDescribesDefault
  <1>1. Inv /\ Fresh => RowDescribesDefault
    <2> SUFFICES ASSUME Inv, Fresh, NEW p \in Paper, versions[p] # {}
                 PROVE  /\ papers[p] # None
                        /\ sequential => /\ papers[p].updated >= DefaultVersion(p)
                                         /\ papers[p] = Columns(papers[p].updated)
      BY DEF RowDescribesDefault
    <2>1. papers[p] # None
      BY DEF Fresh
    <2>2. \E v \in versions[p] : \A w \in versions[p] : w <= v
      <3> DEFINE Gaps == {MaxVersion - v : v \in versions[p]}
      <3>1. versions[p] \in SUBSET Version
        BY DEF Inv, Typed
      <3>2. Gaps \in SUBSET Nat /\ Gaps # {}
        BY <3>1, VersionAssumption DEF Version
      <3>3. PICK v \in versions[p] : \A g \in Gaps : MaxVersion - v <= g
        BY <3>2, Smallest
      <3>4. \A w \in versions[p] : MaxVersion - v <= MaxVersion - w
        BY <3>3
      <3> QED  BY <3>1, <3>4, VersionAssumption DEF Version
    <2>3. DefaultVersion(p) \in versions[p]
      BY <2>2 DEF DefaultVersion
    <2>4. DefaultVersion(p) \in Nat /\ papers[p].updated \in Nat
      BY <2>1, <2>3, VersionAssumption DEF Inv, Typed, Columned, Metadata, Version
    <2> QED  BY <2>1, <2>3, <2>4 DEF Fresh, UpToDate
  <1>2. Spec => []Fresh
    BY InvariantHolds, FreshInitial, FreshKeeps, PTL DEF Spec
  <1> QED  BY <1>1, <1>2, InvariantHolds, PTL
=============================================================================
