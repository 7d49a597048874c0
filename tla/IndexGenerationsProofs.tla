------------------------ MODULE IndexGenerationsProofs ------------------------
(***************************************************************************)
(* What the index protocol guarantees for every number of versions,        *)
(* generations, keys and requests, with whatever overlap.  One fact of the *)
(* store decides it: DisjointKeys, no key belongs to two versions, true of *)
(* points, whose ids are hashed from the version, and false of edges.      *)
(* IInv: entries lie under keys of their own version (OwnerOK), a request  *)
(* knows what it read (PlaceOK), a lone request has its version to itself  *)
(* (LoneOK), whoever works on a clean version is lone (CleanOK), and what  *)
(* a lone request has written stays written until it ends (WorkOK),        *)
(* because nobody else writes under its version.                           *)
(***************************************************************************)
EXTENDS IndexGenerations, FiniteSetTheorems, TLAPS

DisjointKeys ==
    \A v, w \in Version : \A g, h \in Generation :
        v # w => Keys[v][g] \cap Keys[w][h] = {}

OwnerOK ==
    \A k \in Key : entry[k] # None => \E g \in Generation : k \in Keys[entry[k].version][g]

PlaceOK(r) ==
    LET q == req[r] IN
    /\ q.pc = "idle" => q.version = None
    /\ q.pc # "idle" => q.version \in Version /\ q.doc \in Generation
    /\ q.pc \notin {"idle", "fingerprint"} => q.gen \in Generation
    /\ q.pc = "upsert" => q.todo \subseteq Expected(r)

BasicInv == TypeOK /\ OwnerOK /\ \A r \in Request : PlaceOK(r)

\* A request that has had no company at its version has none now.
LoneOK ==
    \A r, s \in Request :
        r # s /\ req[r].lone /\ req[r].version # None => req[s].version # req[r].version

\* Where requests have overlapped, the version is not clean.
CleanOK == \A r \in Request : req[r].version \in clean => req[r].lone

\* What a request that has had no company knows of the store.
WorkOK(r) ==
    LET q == req[r] IN
    q.lone =>
    /\ q.pc = "upsert" => \A k \in Expected(r) \ q.todo : entry[k] = StampOf(r)
    /\ q.pc = "delete" => Found(r) = Expected(r)
    /\ q.pc = "finish" => Found(r) = Expected(r) /\ Owned(q.version) = Expected(r)
    /\ q.pc = "reuse" => Found(r) # {}

IInv == BasicInv /\ LoneOK /\ CleanOK /\ NeverEmptied /\ \A r \in Request : WorkOK(r)

-----------------------------------------------------------------------------
(* Types, places and owners, for any number of overlapping requests. *)

\* Initially no entry, no request.
LEMMA InitBasic == Init => BasicInv
  BY SwitchAssumption, BoundAssumption DEF Init, BasicInv, TypeOK, OwnerOK, PlaceOK, Idle,
     LocalState, PC

\* Keys are keys.
LEMMA KeysFact ==
    ASSUME NEW v \in Version, NEW g \in Generation
    PROVE  Keys[v][g] \subseteq Key /\ Keys[v][g] # {}
  BY KeysAssumption

\* What a step leaves of another request's state: all of it, but the request may have
\* got company.
Kept(s) ==
    /\ req'[s] \in LocalState
    /\ req'[s].pc = req[s].pc /\ req'[s].version = req[s].version
    /\ req'[s].doc = req[s].doc /\ req'[s].gen = req[s].gen /\ req'[s].todo = req[s].todo
    /\ req'[s].lone => req[s].lone

\* A request changes its own local state only, but for the company it brings.
LEMMA OwnState ==
    ASSUME BasicInv, NEW r \in Request, Step(r), NEW s \in Request, s # r
    PROVE  Kept(s)
<1>1. req \in [Request -> LocalState] /\ req[s] \in LocalState
  BY DEF BasicInv, TypeOK
<1>2. req'[s] = req[s] \/ req'[s] = [req[s] EXCEPT !.lone = FALSE]
  BY <1>1 DEF Step, Begin, Fingerprint, Check, Upsert, Verify, Delete, Commit, Abort, Goto
<1>3. CASE req'[s] = req[s]
  BY <1>1, <1>3 DEF Kept
<1>4. CASE req'[s] = [req[s] EXCEPT !.lone = FALSE]
  BY <1>1, <1>4 DEF Kept, LocalState
<1> QED
  BY <1>2, <1>3, <1>4

\* Where request r is when it has begun on version v.
Begun(r, v) ==
    /\ req'[r] \in LocalState /\ req'[r].pc = "fingerprint"
    /\ req'[r].version = v /\ req'[r].doc \in Generation
    /\ req'[r].lone => At(v) = {}
    /\ At(v) = {} => req'[r].lone /\ clean' = clean
    /\ At(v) # {} => clean' = clean \ {v}

\* What Begin leaves.
LEMMA BeginState ==
    ASSUME BasicInv, NEW r \in Request, Begin(r)
    PROVE  \E v \in Version :
             /\ Begun(r, v)
             /\ \A s \in At(v) \ {r} : req'[s] = [req[s] EXCEPT !.lone = FALSE]
             /\ \A s \in Request \ At(v) : s # r => req'[s] = req[s]
<1>1. PICK v \in Version :
        /\ req' = [s \in Request |->
                     IF s = r THEN [Idle EXCEPT !.pc = "fingerprint", !.version = v,
                                                !.doc = artifact[v], !.lone = At(v) = {}]
                     ELSE IF s \in At(v) THEN [req[s] EXCEPT !.lone = FALSE] ELSE req[s]]
        /\ IF At(v) = {}
           THEN UNCHANGED <<clean, company>>
           ELSE /\ company < MaxCompany
                /\ company' = company + 1
                /\ clean' = clean \ {v}
  BY DEF Begin
<1>2. At(v) \subseteq Request
  BY DEF At
<1>3. \A s \in At(v) \ {r} : req'[s] = [req[s] EXCEPT !.lone = FALSE]
  BY <1>1, <1>2
<1>4. \A s \in Request \ At(v) : s # r => req'[s] = req[s]
  BY <1>1, <1>2
<1>5. artifact[v] \in Generation
  BY DEF BasicInv, TypeOK
<1>6. CASE At(v) = {}
  <2>1. req'[r] = [pc |-> "fingerprint", version |-> v, doc |-> artifact[v],
                   gen |-> None, todo |-> {}, lone |-> TRUE]
    BY <1>1, <1>6 DEF Idle
  <2>2. clean' = clean
    BY <1>1, <1>6
  <2>3. Begun(r, v)
    BY ONLY <1>5, <1>6, <2>1, <2>2 DEF Begun, LocalState, PC
  <2> QED
    BY <1>3, <1>4, <2>3
<1>7. CASE At(v) # {}
  <2>1. req'[r] = [pc |-> "fingerprint", version |-> v, doc |-> artifact[v],
                   gen |-> None, todo |-> {}, lone |-> FALSE]
    BY <1>1, <1>7 DEF Idle
  <2>2. clean' = clean \ {v}
    BY <1>1, <1>7
  <2>3. Begun(r, v)
    BY ONLY <1>5, <1>7, <2>1, <2>2 DEF Begun, LocalState, PC
  <2> QED
    BY <1>3, <1>4, <2>3
<1> QED
  BY <1>6, <1>7

\* The local state stays typed and knows what it read.
LEMMA StepPlace ==
    ASSUME BasicInv, NEW r \in Request, Step(r)
    PROVE  req' \in [Request -> LocalState] /\ PlaceOK(r)'
<1>1. req \in [Request -> LocalState] /\ artifact \in [Version -> Generation] /\ PlaceOK(r)
  BY DEF BasicInv, TypeOK
<1>2. req[r] \in LocalState
  BY <1>1
<1>3. req'[r] \in LocalState /\ PlaceOK(r)'
  <2>1. CASE Begin(r)
    <3>1. PICK v \in Version : Begun(r, v)
      BY <2>1, BeginState
    <3> QED
      BY <3>1 DEF PlaceOK, Begun
  <2>2. CASE Fingerprint(r)
    <3>1. req[r].version \in Version /\ artifact[req[r].version] \in Generation
      BY <1>1, <2>2 DEF Fingerprint, PlaceOK
    <3>2. req'[r] = [req[r] EXCEPT !.pc = "check", !.gen = artifact[req[r].version]]
      BY <1>1, <2>2 DEF Fingerprint
    <3> QED
      BY <1>1, <1>2, <2>2, <3>1, <3>2 DEF Fingerprint, PlaceOK, LocalState, PC
  <2>3. CASE Check(r)
    <3>1. Expected(r) \subseteq Key
      BY <1>1, <2>3, KeysFact DEF Check, PlaceOK, Expected
    <3>2. CASE req'[r] = [req[r] EXCEPT !.pc = "upsert", !.todo = Expected(r)]
      BY <1>1, <1>2, <2>3, <3>1, <3>2 DEF Check, PlaceOK, LocalState, PC, Expected
    <3>3. CASE req'[r] = [req[r] EXCEPT !.pc = "reuse"]
      BY <1>1, <1>2, <2>3, <3>3 DEF Check, PlaceOK, LocalState, PC
    <3> QED
      BY <1>1, <2>3, <3>2, <3>3 DEF Check, Goto
  <2>4. CASE Upsert(r)
    BY <1>1, <1>2, <2>4 DEF Upsert, PlaceOK, LocalState, PC, Expected
  <2>5. CASE Verify(r) \/ Delete(r)
    BY <1>1, <1>2, <2>5 DEF Verify, Delete, Goto, PlaceOK, LocalState, PC, Expected
  <2>6. CASE Commit(r) \/ Abort(r)
    <3>1. req'[r] = Idle
      BY <1>1, <2>6 DEF Commit, Abort
    <3>2. Idle \in LocalState
      BY DEF Idle, LocalState, PC
    <3> QED
      BY <3>1, <3>2 DEF PlaceOK, Idle
  <2> QED
    BY <2>1, <2>2, <2>3, <2>4, <2>5, <2>6 DEF Step
<1>4. \A s \in Request : req'[s] \in LocalState
  BY <1>3, OwnState DEF Kept
<1>5. DOMAIN req' = Request /\ req' = [s \in DOMAIN req' |-> req'[s]]
  BY <1>1 DEF Step, Begin, Fingerprint, Check, Upsert, Verify, Delete, Commit, Abort, Goto
<1> QED
  BY <1>3, <1>4, <1>5

\* What a step can do to an entry: nothing, delete one of the request's version, or
\* stamp one of the keys the request expects.
LEMMA StepEntry ==
    ASSUME BasicInv, NEW r \in Request, Step(r), NEW k \in Key
    PROVE  \/ entry'[k] = entry[k]
           \/ Delete(r) /\ Stale(r, k) /\ entry'[k] = None
           \/ Upsert(r) /\ k \in Expected(r) /\ entry'[k] = StampOf(r)
<1>1. CASE Upsert(r)
  BY <1>1 DEF Upsert, BasicInv, TypeOK, PlaceOK
<1>2. CASE Delete(r)
  BY <1>2 DEF Delete
<1> QED
  BY <1>1, <1>2 DEF Step, Begin, Fingerprint, Check, Verify, Commit, Abort

\* The rows and the entries stay typed, the entries under their owners' keys.
LEMMA StepStore ==
    ASSUME BasicInv, NEW r \in Request, Step(r)
    PROVE  /\ entry' \in [Key -> Stamp \cup {None}]
           /\ indexed' \subseteq Version /\ clean' \subseteq Version
           /\ company' \in 0..MaxCompany
           /\ artifact' = artifact
           /\ OwnerOK'
<1>1. /\ entry \in [Key -> Stamp \cup {None}] /\ OwnerOK /\ PlaceOK(r)
      /\ indexed \subseteq Version /\ clean \subseteq Version /\ company \in 0..MaxCompany
  BY DEF BasicInv, TypeOK
<1>2. Upsert(r) => StampOf(r) \in Stamp /\ req[r].doc \in Generation
  BY <1>1 DEF Upsert, PlaceOK, StampOf, Stamp
<1>3. entry' \in [Key -> Stamp \cup {None}]
  BY <1>1, <1>2 DEF Step, Begin, Fingerprint, Check, Upsert, Verify, Delete, Commit, Abort
<1>4. indexed' \subseteq Version /\ clean' \subseteq Version /\ artifact' = artifact
  BY <1>1 DEF PlaceOK, Step, Begin, Fingerprint, Check, Upsert, Verify, Delete, Commit, Abort
<1>6. company' \in 0..MaxCompany
  <2>1. company' = company \/ (company < MaxCompany /\ company' = company + 1)
    BY DEF Step, Begin, Fingerprint, Check, Upsert, Verify, Delete, Commit, Abort
  <2> QED
    BY <1>1, <2>1, BoundAssumption
<1>5. ASSUME NEW k \in Key, entry'[k] # None
      PROVE  \E g \in Generation : k \in Keys[entry'[k].version][g]
  <2>1. CASE entry'[k] = entry[k]
    BY <1>1, <1>5, <2>1 DEF OwnerOK
  <2>2. CASE Upsert(r) /\ k \in Expected(r) /\ entry'[k] = StampOf(r)
    BY <1>2, <2>2 DEF StampOf, Expected
  <2> QED
    BY <1>5, <2>1, <2>2, StepEntry
<1> QED
  BY <1>3, <1>4, <1>5, <1>6 DEF OwnerOK

\* BasicInv is inductive.
LEMMA NextBasic == BasicInv /\ [Next]_vars => BasicInv'
<1> SUFFICES ASSUME BasicInv, [Next]_vars PROVE BasicInv'
  OBVIOUS
<1>1. CASE UNCHANGED vars
  BY <1>1 DEF vars, BasicInv, TypeOK, OwnerOK, PlaceOK, Expected
<1>2. ASSUME NEW r \in Request, Step(r) PROVE BasicInv'
  <2>1. \A s \in Request \ {r} : PlaceOK(s)'
    BY <1>2, OwnState DEF BasicInv, PlaceOK, Expected, Kept
  <2> QED
    BY <1>2, <2>1, StepPlace, StepStore DEF BasicInv, TypeOK
<1>3. ASSUME NEW v \in Version, Replace(v) PROVE BasicInv'
  BY <1>3 DEF Replace, BasicInv, TypeOK, OwnerOK, PlaceOK, Expected
<1> QED
  BY <1>1, <1>2, <1>3 DEF Next

\* Every entry carries a full stamp, for any overlap and any keys.
THEOREM TypeCorrect == Spec => []TypeOK
<1>1. BasicInv => TypeOK
  BY DEF BasicInv
<1> QED
  BY InitBasic, NextBasic, <1>1, PTL DEF Spec

-----------------------------------------------------------------------------
(* Disjoint keys. *)

\* A step that changes an entry of version v belongs to a request for v.
LEMMA StepKeeps ==
    ASSUME DisjointKeys, BasicInv, NEW r \in Request, Step(r), NEW k \in Key,
           entry[k] # None, entry'[k] # entry[k]
    PROVE  req[r].version = entry[k].version
<1>1. CASE Delete(r) /\ Stale(r, k)
  BY <1>1 DEF Stale
<1>2. CASE Upsert(r) /\ k \in Expected(r)
  <2>1. req[r].version \in Version /\ req[r].doc \in Generation
    BY <1>2 DEF BasicInv, PlaceOK, Upsert
  <2>2. entry[k].version \in Version
    BY DEF BasicInv, TypeOK, Stamp
  <2> QED
    BY <1>2, <2>1, <2>2 DEF BasicInv, OwnerOK, DisjointKeys, Expected
<1> QED
  BY <1>1, <1>2, StepEntry

\* With disjoint keys, however many requests overlap, the entries of a version
\* change only through a request for that version.
THEOREM OthersKept == ASSUME DisjointKeys PROVE Spec => OtherVersionsKept
<1> DEFINE Ours == \A k \in Key :
               entry[k] # None /\ entry'[k] # entry[k]
                 => \E r \in Request : req[r].version = entry[k].version
<1>1. BasicInv /\ [Next]_vars => [Ours]_vars
  BY StepKeeps DEF Next, Replace
<1> QED
  BY <1>1, InitBasic, NextBasic, PTL DEF Spec, OtherVersionsKept
-----------------------------------------------------------------------------
(* Requests that have their version to themselves. *)

\* Nothing is indexed and nobody works.
LEMMA InitInvariant == Init => IInv
<1> SUFFICES ASSUME Init PROVE IInv
  OBVIOUS
<1>1. \A r \in Request : req[r].pc = "idle" /\ req[r].version = None /\ ~req[r].lone
  BY DEF Init, Idle
<1>2. None \notin clean
  BY NoneAssumption DEF Init
<1> QED
  BY <1>1, <1>2, InitBasic DEF Init, IInv, LoneOK, CleanOK, NeverEmptied, WorkOK

\* Where a step leaves the request: at a version where nobody was if it is lone, where
\* it was, or nowhere.
LEMMA StepVersion ==
    ASSUME BasicInv, NEW r \in Request, Step(r)
    PROVE  \/ Begin(r)
           \/ req'[r].version = None
           \/ req'[r].version = req[r].version /\ (req'[r].lone <=> req[r].lone)
<1>1. req \in [Request -> LocalState] /\ req[r] \in LocalState
  BY DEF BasicInv, TypeOK
<1>2. CASE Commit(r) \/ Abort(r)
  <2>1. req'[r] = Idle
    BY <1>1, <1>2 DEF Commit, Abort
  <2> QED
    BY <2>1 DEF Idle
<1>3. CASE Check(r) \/ Fingerprint(r)
  <2>1. \/ req'[r] = [req[r] EXCEPT !.pc = "check", !.gen = artifact[req[r].version]]
        \/ req'[r] = [req[r] EXCEPT !.pc = "reuse"]
        \/ req'[r] = [req[r] EXCEPT !.pc = "upsert", !.todo = Expected(r)]
    BY <1>1, <1>3 DEF Check, Fingerprint, Goto
  <2> QED
    BY <1>1, <2>1 DEF LocalState
<1>4. CASE Upsert(r) \/ Verify(r) \/ Delete(r)
  <2>1. \/ \E k \in req[r].todo : req'[r] = [req[r] EXCEPT !.todo = req[r].todo \ {k}]
        \/ req'[r] = [req[r] EXCEPT !.pc = "delete"]
        \/ req'[r] = [req[r] EXCEPT !.pc = "finish"]
    BY <1>1, <1>4 DEF Upsert, Verify, Delete, Goto
  <2> QED
    BY <1>1, <2>1 DEF LocalState
<1> QED
  BY <1>2, <1>3, <1>4 DEF Step

\* A request that joins others takes the name of lone from them and does not get it.
LEMMA BeginLone ==
    ASSUME BasicInv, LoneOK, CleanOK, NEW r \in Request, Begin(r)
    PROVE  LoneOK' /\ CleanOK'
<1>1. PICK v \in Version :
        /\ Begun(r, v)
        /\ \A s \in At(v) \ {r} : req'[s] = [req[s] EXCEPT !.lone = FALSE]
        /\ \A s \in Request \ At(v) : s # r => req'[s] = req[s]
  BY BeginState
<1>2. /\ req'[r].version = v
      /\ req'[r].lone => At(v) = {}
      /\ At(v) = {} => req'[r].lone /\ clean' = clean
      /\ At(v) # {} => clean' = clean \ {v}
  BY <1>1 DEF Begun
<1>3. ASSUME NEW s \in Request, s # r
      PROVE  /\ req'[s].version = req[s].version
             /\ req[s].version = v => ~req'[s].lone /\ At(v) # {}
             /\ req[s].version # v => (req'[s].lone <=> req[s].lone)
  <2>1. req[s] \in LocalState
    BY DEF BasicInv, TypeOK
  <2>2. CASE req[s].version = v
    <3>1. s \in At(v)
      BY <2>2 DEF At
    <3>2. req'[s] = [req[s] EXCEPT !.lone = FALSE]
      BY <1>1, <1>3, <3>1
    <3> QED
      BY <2>1, <2>2, <3>1, <3>2 DEF LocalState
  <2>3. CASE req[s].version # v
    <3>1. s \notin At(v)
      BY <2>3 DEF At
    <3> QED
      BY <1>1, <1>3, <2>3, <3>1
  <2> QED
    BY <2>2, <2>3
<1>4. LoneOK'
  <2> SUFFICES ASSUME NEW p \in Request, NEW s \in Request,
                      p # s, req'[p].lone, req'[p].version # None
               PROVE  req'[s].version # req'[p].version
    BY DEF LoneOK
  <2>1. CASE p = r
    BY <1>2, <1>3, <2>1
  <2>2. CASE s = r
    BY <1>2, <1>3, <2>2
  <2>3. CASE p # r /\ s # r
    BY <1>3, <2>3 DEF LoneOK
  <2> QED
    BY <2>1, <2>2, <2>3
<1>5. CleanOK'
  <2> SUFFICES ASSUME NEW s \in Request, req'[s].version \in clean'
               PROVE  req'[s].lone
    BY DEF CleanOK
  <2>1. CASE s = r
    BY <1>2, <2>1
  <2>2. CASE s # r /\ req[s].version = v
    BY <1>2, <1>3, <2>2
  <2>3. CASE s # r /\ req[s].version # v
    BY <1>2, <1>3, <2>3 DEF CleanOK
  <2> QED
    BY <2>1, <2>2, <2>3
<1> QED
  BY <1>4, <1>5

\* A lone request stays alone until somebody joins it, and a version on which requests
\* overlap gets clean again only by a lone one.
LEMMA StepLone ==
    ASSUME BasicInv, LoneOK, CleanOK, NEW r \in Request, Step(r)
    PROVE  LoneOK' /\ CleanOK'
<1>1. CASE Begin(r)
  BY <1>1, BeginLone
<1>2. CASE ~Begin(r)
  <2>1. \/ req'[r].version = None
        \/ req'[r].version = req[r].version /\ (req'[r].lone <=> req[r].lone)
    BY <1>2, StepVersion
  <2>2. \A s \in Request \ {r} : req'[s] = req[s]
    BY <1>2 DEF BasicInv, TypeOK, Step, Fingerprint, Check, Upsert, Verify, Delete, Commit,
       Abort, Goto
  <2>3. LoneOK'
    BY <2>1, <2>2 DEF LoneOK
  <2>4. clean' = clean \/ (Commit(r) /\ req[r].lone /\ clean' = clean \cup {req[r].version})
    BY <1>2 DEF Step, Fingerprint, Check, Upsert, Verify, Delete, Commit, Abort
  <2>5. clean' \subseteq Version /\ None \notin Version
    BY StepStore, NoneAssumption
  <2>6. ASSUME NEW s \in Request, req'[s].version \in clean'
        PROVE  req'[s].lone
    <3>1. /\ req'[s].version # None /\ req'[s].version = req[s].version
          /\ req'[s].lone <=> req[s].lone
      BY <2>1, <2>2, <2>5, <2>6
    <3>2. CASE req[s].version \in clean
      BY <3>1, <3>2 DEF CleanOK
    <3>3. CASE req[s].version \notin clean
      <4>1. req[r].lone /\ req[s].version = req[r].version
        BY <2>4, <2>6, <3>1, <3>3
      <4> QED
        BY <3>1, <4>1 DEF LoneOK
    <3> QED
      BY <3>2, <3>3
  <2> QED
    BY <2>3, <2>6 DEF CleanOK
<1> QED
  BY <1>1, <1>2

\* A request leaves the entries of every version but its own as they are.
LEMMA StepElsewhere ==
    ASSUME DisjointKeys, BasicInv, NEW r \in Request, Step(r),
           NEW v \in Version, v # req[r].version, NEW k \in Key
    PROVE  \/ entry'[k] = entry[k]
           \/ /\ entry[k] = None \/ entry[k].version # v
              /\ entry'[k] = None \/ entry'[k].version # v
<1>1. entry'[k] = entry[k] \/ entry[k] = None \/ entry[k].version # v
  BY StepKeeps
<1>2. entry'[k] = entry[k] \/ entry'[k] = None \/ entry'[k] = StampOf(r)
  BY StepEntry
<1>3. StampOf(r).version # v
  BY DEF StampOf
<1> QED
  BY <1>1, <1>2, <1>3

\* A stamp is not None.
LEMMA StampFact ==
    ASSUME BasicInv, NEW r \in Request, req[r].pc \notin {"idle", "fingerprint"}
    PROVE  /\ StampOf(r) # None /\ StampOf(r) \in Stamp
           /\ req[r].version \in Version
           /\ Expected(r) \subseteq Key /\ Expected(r) # {}
<1>1. req[r].version \in Version /\ req[r].doc \in Generation /\ req[r].gen \in Generation
  BY DEF BasicInv, PlaceOK
<1>2. StampOf(r) \in Stamp
  BY <1>1 DEF StampOf, Stamp
<1> QED
  BY <1>1, <1>2, KeysFact, NoneAssumption DEF Expected, Stamp

\* What a request knows of its own entries survives the steps of the others.
LEMMA OthersWork ==
    ASSUME DisjointKeys, IInv, NEW r \in Request, Step(r), NEW s \in Request, s # r
    PROVE  WorkOK(s)'
<1>1. Kept(s)
  BY OwnState DEF IInv
<1>2. CASE req[s].pc \in {"idle", "fingerprint", "check"} \/ ~req[s].lone
  BY <1>1, <1>2 DEF WorkOK, Kept
<1>3. CASE req[s].pc \notin {"idle", "fingerprint", "check"} /\ req[s].lone
  <2> DEFINE v == req[s].version
  <2>1. v \in Version /\ StampOf(s) # None /\ StampOf(s).version = v
        /\ Expected(s) \subseteq Key
    BY <1>3, StampFact DEF IInv, StampOf
  <2>2. v # req[r].version
    BY <1>3, <2>1, NoneAssumption DEF IInv, LoneOK
  <2>3. \A k \in Key :
            \/ entry'[k] = entry[k]
            \/ /\ entry[k] = None \/ entry[k].version # v
               /\ entry'[k] = None \/ entry'[k].version # v
    BY <2>1, <2>2, StepElsewhere DEF IInv
  <2>4. StampOf(s)' = StampOf(s) /\ Expected(s)' = Expected(s)
    BY <1>1 DEF StampOf, Expected, Kept
  <2>5. \A k \in Key : entry[k] = StampOf(s) <=> entry'[k] = StampOf(s)
    BY <2>1, <2>3
  <2>6. Found(s)' = Found(s)
    BY <2>4, <2>5 DEF Found
  <2>7. Owned(v)' = Owned(v)
    BY <1>1, <2>3 DEF Owned, Kept
  <2>8. WorkOK(s)
    BY DEF IInv
  <2>9. \A k \in Expected(s) \ req[s].todo : entry[k] = StampOf(s) => entry'[k] = StampOf(s)
    BY <2>1, <2>5
  <2> QED
    BY <1>1, <1>3, <2>4, <2>6, <2>7, <2>8, <2>9 DEF WorkOK, Kept
<1> QED
  BY <1>2, <1>3

\* After the upserts, a count (or set) that agrees means exactly the expected keys.
LEMMA CompleteExact ==
    ASSUME BasicInv, NEW r \in Request, req[r].pc \notin {"idle", "fingerprint"},
           Complete(r), Expected(r) \subseteq Found(r)
    PROVE  Found(r) = Expected(r)
<1>1. IsFiniteSet(Found(r))
  <2>1. Found(r) \subseteq Key
    BY DEF Found
  <2> QED
    BY <2>1, KeysAssumption, FS_Subset
<1>2. CASE ByCount
  <2>1. Cardinality(Found(r)) = Cardinality(Expected(r))
    BY <1>2 DEF Complete
  <2> QED
    BY <1>1, <2>1, FS_Subset
<1>3. CASE ~ByCount
  BY <1>3 DEF Complete
<1> QED
  BY <1>2, <1>3

\* Complete entries of a non-empty artifact are not nothing.
LEMMA CompleteSome ==
    ASSUME BasicInv, NEW r \in Request, req[r].pc \notin {"idle", "fingerprint"}, Complete(r)
    PROVE  Found(r) # {}
<1>1. Expected(r) # {} /\ IsFiniteSet(Expected(r))
  BY StampFact, KeysAssumption, FS_Subset
<1>2. Cardinality(Expected(r)) # 0
  BY <1>1, FS_EmptySet
<1>3. Cardinality({}) = 0
  BY FS_EmptySet
<1> QED
  BY <1>1, <1>2, <1>3 DEF Complete

\* A request's own steps keep what it knows of its entries.
LEMMA OwnWork ==
    ASSUME IInv, NEW r \in Request, Step(r)
    PROVE  WorkOK(r)'
<1>1. BasicInv /\ WorkOK(r) /\ req \in [Request -> LocalState] /\ PlaceOK(r)
      /\ entry \in [Key -> Stamp \cup {None}]
  BY DEF IInv, BasicInv, TypeOK
<1>2. CASE Begin(r) \/ Fingerprint(r) \/ Commit(r) \/ Abort(r)
  <2>1. req'[r].pc \in {"idle", "fingerprint", "check"}
    <3>1. CASE Begin(r)
      BY <1>1, <3>1, BeginState DEF Begun
    <3>2. CASE Fingerprint(r)
      BY <1>1, <3>2 DEF Fingerprint, LocalState
    <3>3. CASE Commit(r) \/ Abort(r)
      BY <1>1, <3>3 DEF Commit, Abort, Idle
    <3> QED
      BY <1>2, <3>1, <3>2, <3>3
  <2> QED
    BY <2>1 DEF WorkOK
<1>3. CASE Check(r)
  <2>1. CASE Complete(r) /\ Goto(r, "reuse")
    <3>1. req'[r] = [req[r] EXCEPT !.pc = "reuse"] /\ entry' = entry
      BY <1>1, <1>3, <2>1 DEF Check, Goto
    <3>2. Found(r)' = Found(r)
      BY <3>1 DEF Found, StampOf
    <3>3. Found(r) # {}
      BY <1>1, <1>3, <2>1, CompleteSome DEF Check
    <3>4. req'[r].pc = "reuse"
      BY <1>1, <3>1 DEF LocalState
    <3> QED
      BY <3>2, <3>3, <3>4 DEF WorkOK
  <2>2. CASE req' = [req EXCEPT ![r] = [@ EXCEPT !.pc = "upsert", !.todo = Expected(r)]]
    <3>1. req'[r] = [req[r] EXCEPT !.pc = "upsert", !.todo = Expected(r)]
      BY <1>1, <2>2
    <3>2. req'[r].pc = "upsert" /\ req'[r].todo = Expected(r) /\ Expected(r)' = Expected(r)
      BY <1>1, <3>1 DEF LocalState, Expected
    <3> QED
      BY <3>2 DEF WorkOK
  <2> QED
    BY <1>3, <2>1, <2>2 DEF Check
<1>4. CASE Upsert(r)
  <2>1. PICK k \in req[r].todo :
          /\ entry' = [entry EXCEPT ![k] = StampOf(r)]
          /\ req' = [req EXCEPT ![r].todo = req[r].todo \ {k}]
    BY <1>4 DEF Upsert
  <2>2. req'[r] = [req[r] EXCEPT !.todo = req[r].todo \ {k}]
    BY <1>1, <2>1
  <2>3. /\ req'[r].pc = "upsert" /\ req'[r].todo = req[r].todo \ {k}
        /\ req'[r].lone = req[r].lone
        /\ Expected(r)' = Expected(r) /\ StampOf(r)' = StampOf(r)
    BY <1>1, <1>4, <2>2 DEF LocalState, Expected, StampOf, Upsert
  <2>4. Expected(r) \subseteq Key
    BY <1>1, <1>4, StampFact DEF Upsert
  <2>5. req[r].lone => \A j \in Expected(r) \ (req[r].todo \ {k}) : entry'[j] = StampOf(r)
    BY <1>1, <1>4, <2>1, <2>4 DEF WorkOK, Upsert
  <2> QED
    BY <2>3, <2>5 DEF WorkOK
<1>5. CASE Verify(r)
  <2>1. req'[r] = [req[r] EXCEPT !.pc = "delete"] /\ entry' = entry
    BY <1>1, <1>5 DEF Verify, Goto
  <2>2. /\ req'[r].pc = "delete" /\ req'[r].lone = req[r].lone
        /\ Expected(r)' = Expected(r) /\ Found(r)' = Found(r)
    BY <1>1, <2>1 DEF LocalState, Expected, StampOf, Found
  <2>3. req[r].lone => Expected(r) \subseteq Found(r)
    BY <1>1, <1>5, StampFact DEF WorkOK, Verify, Found
  <2>4. req[r].lone => Found(r) = Expected(r)
    BY <1>1, <1>5, <2>3, CompleteExact DEF Verify
  <2> QED
    BY <2>2, <2>4 DEF WorkOK
<1>6. CASE Delete(r) /\ ~req[r].lone
  <2>1. req'[r] = [req[r] EXCEPT !.pc = "finish"]
    BY <1>1, <1>6 DEF Delete, Goto
  <2>2. ~req'[r].lone
    BY <1>1, <1>6, <2>1 DEF LocalState
  <2> QED
    BY <2>2 DEF WorkOK
<1>7. CASE Delete(r) /\ req[r].lone
  <2>1. req'[r] = [req[r] EXCEPT !.pc = "finish"]
    BY <1>1, <1>7 DEF Delete, Goto
  <2>2. /\ req'[r].pc = "finish" /\ req'[r].version = req[r].version
        /\ Expected(r)' = Expected(r) /\ StampOf(r)' = StampOf(r)
    BY <1>1, <2>1 DEF LocalState, Expected, StampOf
  <2>3. Found(r) = Expected(r) /\ StampOf(r) # None
    BY <1>1, <1>7, StampFact DEF WorkOK, Delete
  <2>4. \A k \in Key : entry'[k] = IF Stale(r, k) THEN None ELSE entry[k]
    BY <1>7 DEF Delete
  <2>5. \A k \in Key : entry'[k] = StampOf(r) <=> entry[k] = StampOf(r)
    BY <2>3, <2>4 DEF Stale, StampOf
  <2>6. Found(r)' = Found(r)
    BY <2>2, <2>5 DEF Found
  <2>7. ASSUME NEW k \in Key, entry'[k] # None, entry'[k].version = req[r].version
        PROVE  entry'[k] = StampOf(r)
    <3>1. entry'[k] = entry[k] /\ entry[k].gen = req[r].gen
      BY <2>4, <2>7 DEF Stale
    <3>2. entry[k] \in Stamp
      BY <1>1, <2>7, <3>1
    <3> QED
      BY <2>7, <3>1, <3>2 DEF Stamp, StampOf
  <2>8. Owned(req[r].version)' = Found(r)'
    BY <2>2, <2>3, <2>7 DEF Owned, Found, StampOf
  <2> QED
    BY <2>2, <2>3, <2>6, <2>8 DEF WorkOK
<1> QED
  BY <1>2, <1>3, <1>4, <1>5, <1>6, <1>7 DEF Step

\* Deleting what is stale leaves the verified generation; nothing else deletes.
LEMMA StepNonEmpty ==
    ASSUME DisjointKeys, IInv, NEW r \in Request, Step(r)
    PROVE  NeverEmptied'
<1> SUFFICES ASSUME NEW v \in Version, v \in indexed', v \in clean' PROVE Owned(v)' # {}
  BY StepStore DEF NeverEmptied, IInv
<1>1. BasicInv /\ WorkOK(r) /\ (v \in indexed /\ v \in clean => Owned(v) # {})
      /\ (req[r].version \in clean => req[r].lone)
  BY DEF IInv, NeverEmptied, CleanOK
<1>2. CASE Delete(r)
  <2>1. v \in indexed /\ v \in clean
    BY <1>2 DEF Delete
  <2>2. PICK k \in Key : entry[k] # None /\ entry[k].version = v
    BY <1>1, <2>1 DEF Owned
  <2>3. CASE v # req[r].version
    <3>1. entry'[k] = entry[k]
      BY <2>2, <2>3, StepElsewhere DEF IInv
    <3> QED
      BY <2>2, <3>1 DEF Owned
  <2>4. CASE v = req[r].version
    <3>1. /\ Found(r) = Expected(r) /\ Expected(r) # {} /\ StampOf(r) # None
          /\ StampOf(r).version = v
      BY <1>1, <1>2, <2>1, <2>4, StampFact DEF WorkOK, Delete, StampOf
    <3>2. PICK j \in Key : entry[j] = StampOf(r)
      BY <3>1 DEF Found
    <3>3. entry'[j] = entry[j]
      BY <1>2, <3>2 DEF Delete, Stale, StampOf
    <3> QED
      BY <3>1, <3>2, <3>3 DEF Owned
  <2> QED
    BY <2>3, <2>4
<1>3. CASE Upsert(r)
  <2>1. v \in indexed /\ v \in clean
    BY <1>3 DEF Upsert
  <2>2. PICK k \in Key : entry[k] # None /\ entry[k].version = v
    BY <1>1, <2>1 DEF Owned
  <2>3. StampOf(r) # None /\ StampOf(r).version = req[r].version
    BY <1>1, <1>3, StampFact DEF Upsert, StampOf
  <2>4. entry'[k] # None /\ entry'[k].version = v
    <3>1. CASE entry'[k] = entry[k]
      BY <2>2, <3>1
    <3>2. CASE entry'[k] # entry[k]
      <4>1. req[r].version = v
        BY <1>1, <2>2, <3>2, StepKeeps
      <4>2. entry'[k] = StampOf(r)
        BY <1>1, <1>3, <3>2, StepEntry DEF Upsert, Delete
      <4> QED
        BY <2>3, <4>1, <4>2
    <3> QED
      BY <3>1, <3>2
  <2> QED
    BY <2>4 DEF Owned
<1>4. CASE Commit(r)
  <2>1. /\ entry' = entry /\ indexed' = indexed \cup {req[r].version}
        /\ clean' = IF req[r].lone THEN clean \cup {req[r].version} ELSE clean
    BY <1>4 DEF Commit
  <2>2. CASE v # req[r].version
    BY <1>1, <2>1, <2>2 DEF Owned
  <2>3. CASE v = req[r].version
    <3>1. StampOf(r) # None /\ StampOf(r).version = v /\ Expected(r) # {}
      BY <1>1, <1>4, <2>3, StampFact DEF Commit, StampOf
    <3>2. req[r].lone
      BY <1>1, <2>1, <2>3
    <3>3. Found(r) # {}
      BY <1>1, <1>4, <3>1, <3>2 DEF WorkOK, Commit
    <3> QED
      BY <2>1, <3>1, <3>3 DEF Owned, Found
  <2> QED
    BY <2>2, <2>3
<1>5. CASE Begin(r) \/ Fingerprint(r) \/ Check(r) \/ Verify(r) \/ Abort(r)
  BY <1>1, <1>5 DEF Begin, Fingerprint, Check, Verify, Abort, Owned
<1> QED
  BY <1>2, <1>3, <1>4, <1>5 DEF Step

\* IInv is inductive.
LEMMA NextInvariant ==
    ASSUME DisjointKeys
    PROVE  IInv /\ [Next]_vars => IInv'
<1> SUFFICES ASSUME IInv, [Next]_vars PROVE IInv'
  OBVIOUS
<1>1. BasicInv'
  BY NextBasic DEF IInv
<1>2. CASE UNCHANGED vars
  BY <1>1, <1>2 DEF vars, IInv, LoneOK, CleanOK, NeverEmptied, WorkOK, Found, Owned, Expected, StampOf
<1>3. ASSUME NEW r \in Request, Step(r) PROVE IInv'
  BY <1>1, <1>3, StepLone, StepNonEmpty, OwnWork, OthersWork DEF IInv
<1>4. ASSUME NEW v \in Version, Replace(v) PROVE IInv'
  BY <1>1, <1>4 DEF Replace, IInv, LoneOK, CleanOK, NeverEmptied, WorkOK, Found, Owned, Expected, StampOf
<1> QED
  BY <1>2, <1>3, <1>4 DEF Next

\* With disjoint keys, whatever fails partway and whatever overlapped before, a version
\* is never without entries once a request that ran alone has indexed it, until
\* requests overlap there again.
THEOREM NonEmpty == ASSUME DisjointKeys PROVE Spec => []NeverEmptied
<1>1. IInv => NeverEmptied
  BY DEF IInv
<1> QED
  BY <1>1, InitInvariant, NextInvariant, PTL DEF Spec

\* With disjoint keys a request that wrote the index and had no company at its version
\* succeeds only over exactly the entries of the artifact it read, also when
\* overlapping requests left the store in disorder before it.
THEOREM Exact == ASSUME DisjointKeys PROVE Spec => WorkIsExact
<1> DEFINE ExactCommit == \A r \in Request :
               req[r].lone /\ req[r].pc = "finish" /\ Commit(r)
                 => Owned(req[r].version) = Expected(r) /\ Found(r) = Expected(r)
<1>1. IInv => ExactCommit
  BY DEF IInv, WorkOK
<1>2. IInv /\ [Next]_vars => [ExactCommit]_vars
  BY <1>1
<1> QED
  BY <1>2, InitInvariant, NextInvariant, PTL DEF Spec, WorkIsExact
==============================================================================
