----------------------------- MODULE IndexScan -----------------------------
(***************************************************************************)
(* The daily comparison of the known pools with an external index          *)
(* (collectors/discovery_coverage.py): a durable scan of one chain's       *)
(* official contracts in bounded pages, the report made of it, the         *)
(* candidates it queues, the minute poll beside it and the turns of the    *)
(* chains.  The scan of every chain is the same code on facts of its own.  *)
(*                                                                         *)
(* Abstracted: a pool stands for its address and both of its sides; the    *)
(* shapes of an answer are a list of pools that is whole or not            *)
(* (malformed rows, a list at the provider's limit), or a failure.         *)
(***************************************************************************)
EXTENDS Integers, Sequences, FiniteSets

CONSTANTS
  Listed,       \* of each token: the pools the index may list
  Manifests,    \* the official contracts: a sequence of subjects per version
  PageLimit,    \* max_contracts
  FailureLimit, \* consecutive failures that end a page
  GapLimit,     \* MAX_QUEUED_CANDIDATES
  Lifetime,     \* CANDIDATE_TTL_MS, in days
  NumChains,
  MaxDay, MaxLocalChanges

Subject == DOMAIN Listed
Gaps == UNION {Listed[t] : t \in Subject}

IndexAssumption ==
  /\ \A t \in Subject : IsFiniteSet(Listed[t])
  /\ Manifests \in Seq(Seq(Subject)) /\ Manifests # <<>>
  /\ \A v \in DOMAIN Manifests :
       \A i, j \in DOMAIN Manifests[v] : Manifests[v][i] = Manifests[v][j] => i = j
  /\ PageLimit \in Nat \ {0} /\ FailureLimit \in Nat \ {0} /\ GapLimit \in Nat
  /\ Lifetime \in Nat /\ NumChains \in Nat \ {0}
  /\ MaxDay \in Nat \ {0} /\ MaxLocalChanges \in Nat

VARIABLES
  day,          \* from 1: day 0 is "never"
  manifest,     \* the present version
  localPools,   \* the pools whose sides are known and not orphaned
  gap,          \* of each pool: when its candidate was indexed last, 0 if none
  scanFact,     \* the fact discovery-scan
  coverage,     \* the fact discovery-coverage
  page,         \* the page being scanned
  chainTurn,    \* the fact discovery-chain-cursor
  since,        \* of each chain: the turns since its last one
  pollAt,       \* the fact stock-pair-minute
  localChanges

indexVars ==
  <<day, manifest, localPools, gap, scanFact, coverage, page, chainTurn, since,
    pollAt, localChanges>>

Versions == DOMAIN Manifests
Official(v) == Manifests[v]
Members(v) == {Official(v)[i] : i \in 1..Len(Official(v))}

\* What a subject has answered: the pools, those known when it was asked, if
\* the answer was whole, and the day.
Answers == [pools : SUBSET Gaps, known : SUBSET Gaps, whole : BOOLEAN, day : 1..MaxDay]
Unheard == [pools |-> {}, known |-> {}, whole |-> FALSE, day |-> 1]

\* A scan: how far it is, what it has been told, and when it was done; its
\* counters of failures, cut lists, malformed rows and overflows are one flag.
NewScan(v) ==
  [version |-> v, cursor |-> 0, indexed |-> {}, blemished |-> FALSE,
   heard |-> [t \in Subject |-> Unheard], done |-> 0]
Scans ==
  [version : {0} \cup Versions, cursor : Nat, indexed : SUBSET Gaps, blemished : BOOLEAN,
   heard : [Subject -> Answers], done : 0..MaxDay]

NoReport == [version |-> 1, complete |-> FALSE, indexed |-> {}, heard |-> [t \in Subject |-> Unheard]]
Reports == [version : Versions, complete : BOOLEAN, indexed : SUBSET Gaps, heard : [Subject -> Answers]]

NoPage ==
  [phase |-> "idle", version |-> 1, scan |-> NewScan(1), known |-> {}, queued |-> 0, left |-> 0,
   failures |-> 0, report |-> NoReport]
Pages ==
  [phase : {"idle", "begun", "asking", "saving", "reporting"}, version : Versions,
   scan : Scans, known : SUBSET Gaps, queued : Nat, left : 0..PageLimit, failures : Nat, report : Reports]

IndexTypeOK ==
  /\ day \in 1..MaxDay /\ manifest \in Versions /\ localPools \subseteq Gaps
  /\ gap \in [Gaps -> 0..MaxDay] /\ scanFact \in Scans /\ coverage \in Reports
  /\ page \in Pages /\ chainTurn \in 0..NumChains - 1
  /\ since \in [0..NumChains - 1 -> Nat] /\ pollAt \in Nat
  /\ localChanges \in 0..MaxLocalChanges

IndexInit ==
  /\ day = 1 /\ manifest = 1 /\ localPools = {} /\ gap = [p \in Gaps |-> 0]
  /\ scanFact = [NewScan(1) EXCEPT !.version = 0] /\ coverage = NoReport /\ page = NoPage
  /\ chainTurn = 0 /\ since = [c \in 0..NumChains - 1 |-> 0] /\ pollAt = 0
  /\ localChanges = 0

-----------------------------------------------------------------------------
scanVars == <<scanFact, coverage, page>>
turnVars == <<chainTurn, since, pollAt>>

PassDay ==
  /\ day < MaxDay /\ day' = day + 1
  /\ UNCHANGED <<manifest, localPools, gap, scanVars, turnVars, localChanges>>

PublishManifest ==
  /\ manifest + 1 \in Versions /\ manifest' = manifest + 1
  /\ UNCHANGED <<day, localPools, gap, scanVars, turnVars, localChanges>>

\* A pool is registered, or its creation orphaned.
ChangeLocal(p) ==
  /\ localChanges < MaxLocalChanges /\ localChanges' = localChanges + 1
  /\ localPools' = IF p \in localPools THEN localPools \ {p} ELSE localPools \cup {p}
  /\ UNCHANGED <<day, manifest, gap, scanVars, turnVars>>

\* Mutant: the turn is kept until the page is done.
TurnKept == chainTurn
\* The next chain's turn is stored before this one's page.
TurnAfter == (chainTurn + 1) % NumChains

\* reconcile_all_chains: one chain per turn; the pages of the other chains
\* leave this one's facts alone.
TakeTurn ==
  /\ page.phase = "idle"
  /\ chainTurn' = TurnAfter
  /\ since' = [c \in DOMAIN since |-> IF c = chainTurn THEN 0 ELSE since[c] + 1]
  /\ page' = IF chainTurn = 0 THEN [NoPage EXCEPT !.phase = "begun"] ELSE page
  /\ UNCHANGED <<day, manifest, localPools, gap, scanFact, coverage, pollAt, localChanges>>

Expired(p) == gap[p] # 0 /\ gap[p] + Lifetime < day
Queued(g) == {p \in Gaps : g[p] # 0}

Resumable == scanFact.version = manifest

Done(s, v) == s.cursor >= Len(Official(v))

\* A page of the scan begins: expired candidates go, the scan is taken up
\* unless the manifest has changed or a day has gone since it was done.
BeginPage ==
  /\ page.phase = "begun" /\ ~(Resumable /\ Done(scanFact, manifest) /\ scanFact.done = day)
  /\ gap' = [p \in Gaps |-> IF Expired(p) THEN 0 ELSE gap[p]]
  /\ page' = [NoPage EXCEPT !.phase = "asking", !.version = manifest, !.known = localPools,
                !.left = PageLimit, !.queued = Cardinality(Queued(gap')),
                !.scan = IF Resumable /\ ~Done(scanFact, manifest) THEN scanFact ELSE NewScan(manifest)]
  /\ UNCHANGED <<day, manifest, localPools, scanFact, coverage, turnVars, localChanges>>

SkipPage ==
  /\ page.phase = "begun" /\ Resumable /\ Done(scanFact, manifest) /\ scanFact.done = day
  /\ gap' = [p \in Gaps |-> IF Expired(p) THEN 0 ELSE gap[p]]
  /\ page' = NoPage
  /\ UNCHANGED <<day, manifest, localPools, scanFact, coverage, turnVars, localChanges>>

-----------------------------------------------------------------------------
Asked == Official(page.version)[page.scan.cursor + 1]
Wanted(pools) == {p \in pools \ page.known : gap[p] = 0}
Room == IF page.queued < GapLimit THEN GapLimit - page.queued ELSE 0

\* queue_indexed_gap: a candidate is new, or indexed again.
Marked(pools) == [p \in Gaps |-> IF p \in pools THEN day ELSE gap[p]]

\* collect: the pools of an answer that are not known become candidates as
\* long as there is room.  Of a known pool only a candidate that awaits its
\* classification is touched.
HearIndex ==
  /\ page.phase = "asking"
  /\ \E pools \in SUBSET Listed[Asked], whole \in BOOLEAN :
     \E new \in SUBSET Wanted(pools), awaiting \in {{}, Queued(gap) \cap pools \cap page.known} :
       /\ Cardinality(new) <= Room
       /\ new # Wanted(pools) => Cardinality(new) = Room
       /\ gap' = Marked(new \cup ((pools \ page.known) \cap Queued(gap)) \cup awaiting)
       /\ page' = [page EXCEPT
            !.phase = "saving", !.failures = 0, !.queued = @ + Cardinality(new),
            !.scan.cursor = @ + 1, !.scan.indexed = @ \cup pools,
            !.scan.blemished = @ \/ ~whole \/ new # Wanted(pools),
            !.scan.heard = [@ EXCEPT ![Asked] =
               [pools |-> pools, known |-> page.known, whole |-> whole, day |-> day]]]
  /\ UNCHANGED <<day, manifest, localPools, scanFact, coverage, turnVars, localChanges>>

\* Mutant: a failed request leaves no trace in the report.
FailedQuietly == page.scan.blemished
Failed == TRUE

\* A failed request is counted and the scan goes on to the next subject.
MissIndex ==
  /\ page.phase = "asking"
  /\ page' = [page EXCEPT !.phase = "saving", !.failures = @ + 1, !.scan.cursor = @ + 1, !.scan.blemished = Failed]
  /\ UNCHANGED <<day, manifest, localPools, gap, scanFact, coverage, turnVars, localChanges>>

Complete(s) == Done(s, page.version) /\ s.indexed # {} /\ ~s.blemished

\* save: the cursor first, with the report in it ...
SaveScan ==
  /\ page.phase = "saving"
  /\ LET s == [page.scan EXCEPT !.done = IF Done(page.scan, page.version) THEN day ELSE 0] IN
     /\ scanFact' = s
     /\ page' = [page EXCEPT !.phase = "reporting", !.scan = s, !.left = @ - 1,
           !.report = [version |-> s.version, complete |-> Complete(s), indexed |-> s.indexed, heard |-> s.heard]]
  /\ UNCHANGED <<day, manifest, localPools, gap, coverage, turnVars, localChanges>>

\* ... then the report; a crash between the two leaves the report behind.
SaveReport ==
  /\ page.phase = "reporting"
  /\ coverage' = page.report
  /\ page' = IF Done(page.scan, page.version) \/ page.left = 0 \/ page.failures >= FailureLimit
             THEN NoPage ELSE [page EXCEPT !.phase = "asking"]
  /\ UNCHANGED <<day, manifest, localPools, gap, scanFact, turnVars, localChanges>>

\* poll_active_stock_pairs, beside the scan: the next subject's pools; the
\* cursor is stored at the end, or not at all.
PollPairs ==
  /\ LET t == Official(manifest)[(pollAt % Len(Official(manifest))) + 1] IN
     \E pools \in SUBSET Listed[t] : gap' = Marked(pools)
  /\ pollAt' \in {pollAt, (pollAt + 1) % Len(Official(manifest))}
  /\ UNCHANGED <<day, manifest, localPools, scanVars, chainTurn, since, localChanges>>

\* The task is cancelled or the process dies.
StopPage ==
  /\ page.phase # "idle"
  /\ page' = NoPage
  /\ UNCHANGED <<day, manifest, localPools, gap, scanFact, coverage, turnVars, localChanges>>

IndexNext ==
  \/ PassDay \/ PublishManifest \/ \E p \in Gaps : ChangeLocal(p)
  \/ TakeTurn \/ BeginPage \/ SkipPage \/ HearIndex \/ MissIndex
  \/ SaveScan \/ SaveReport \/ PollPairs \/ StopPage

IndexSpec == IndexInit /\ [][IndexNext]_indexVars

-----------------------------------------------------------------------------
\* A complete report has heard every official contract of its version, each in
\* full, and counts exactly the pools it was told of.
CompleteHeard ==
  coverage.complete =>
    /\ \A t \in Members(coverage.version) : coverage.heard[t].whole
    /\ coverage.indexed = UNION {coverage.heard[t].pools : t \in Members(coverage.version)}

\* No pool of a complete report is forgotten: it was known when its token was
\* asked, or it is a candidate until its lifetime is over.
NonePassedOver ==
  coverage.complete =>
    \A t \in Members(coverage.version) :
      LET h == coverage.heard[t] IN
      \A p \in h.pools \ h.known : gap[p] >= h.day \/ h.day + Lifetime < day

\* No chain waits longer than one round of all chains.
ChainsTurn == \A c \in DOMAIN since : since[c] <= NumChains - 1

IndexSound == CompleteHeard /\ NonePassedOver /\ ChainsTurn

=============================================================================
