------------------------------ MODULE ReadModel ------------------------------
(*************************************************************************)
(* The shared read model of the dashboard's publications.  A bridge      *)
(* (read_model_worker.py) reads the publication from storage, commits it *)
(* to PostgreSQL, and only then puts it into Redis; while storage is     *)
(* unchanged it renews the time of verification.  The query processes    *)
(* (realtime_projection.py, read_projection_json, with the merging of    *)
(* projection_query_cache.py) look for the manifest in Redis or          *)
(* PostgreSQL, fetch the body it names, and keep one prepared body per   *)
(* view; without a valid manifest they read storage themselves.          *)
(*                                                                       *)
(* A publication stands for its four views, their hashes and entities:   *)
(* they are read in one snapshot and written in one transaction, and a   *)
(* body is taken only if it has the hash of its manifest.  One view of   *)
(* one process is modelled; what is over in a thread is taken over by    *)
(* the event loop at once.                                               *)
(*************************************************************************)
EXTENDS Integers, FiniteSets

CONSTANTS
  NoCopy,
  MaxVerifiedAge,   \* how old a verification may be (maxVerifiedAgeMs)
  Grace,            \* how long a body may be served while the next is prepared (3 s)
  SlowRead,         \* longest time between a read of storage and its time stamp
  MaxReplacements,  \* bound: publications and replacements of the database
  MaxModelClock, MaxModelFaults  \* bounds: the clock; crashes and lost answers

VARIABLES
  modelClock,
  source,    \* the publication in storage
  left,      \* history: when storage last held each publication
  bridge,    \* the bridge's turn, what it knows, its manifest
  postgres,  \* the committed manifest and its bodies, or None
  redis,     \* the cached manifest, or None
  cached,    \* the prepared body of the process, or None
  waiting,   \* a read is in flight
  refresh,      \* the refresh at work, or None
  served,    \* how long ago storage held the last answer
  modelFaults

storageVars == <<source, left>>
queryVars == <<cached, waiting, refresh, served>>
modelVars == <<modelClock, storageVars, bridge, postgres, redis, queryVars, modelFaults>>

Publications == [epoch : 0..MaxReplacements, revision : 1..(MaxReplacements + 1)]
Manifest(p, at) == [publication |-> p, checkedAt |-> at]
Manifests == [publication : Publications, checkedAt : 0..MaxModelClock]

ModelAssumption ==
  /\ MaxVerifiedAge \in Nat /\ SlowRead \in Nat
  /\ MaxReplacements \in Nat /\ MaxModelClock \in Nat /\ MaxModelFaults \in Nat
  /\ NoCopy \notin Manifests

Rest == [pc |-> "idle", known |-> NoCopy, manifest |-> NoCopy, seen |-> NoCopy, readAt |-> 0]
NeverLeft == -1

ModelTypeOK ==
  /\ modelClock \in 0..MaxModelClock /\ source \in Publications
  /\ left \in [Publications -> -1..MaxModelClock]
  /\ bridge.pc \in {"idle", "captured", "stamped", "committed"}
  /\ bridge.known \in Publications \cup {NoCopy} /\ bridge.manifest \in Manifests \cup {NoCopy}
  /\ postgres \in Manifests \cup {NoCopy}
  /\ redis \in Manifests \cup {NoCopy}
  /\ cached # NoCopy => cached.publication \in Publications /\ cached.shared \in BOOLEAN
  /\ waiting \in BOOLEAN
  /\ refresh # NoCopy => refresh.manifest \in Manifests /\ refresh.pc \in {"body", "prepare"}
  /\ served \in 0..(MaxModelClock + 1)

ModelInit ==
  /\ modelClock = 0 /\ source = [epoch |-> 0, revision |-> 1]
  /\ left = [p \in Publications |-> NeverLeft]
  /\ bridge = Rest /\ postgres = NoCopy /\ redis = NoCopy
  /\ cached = NoCopy /\ waiting = FALSE /\ refresh = NoCopy /\ served = 0 /\ modelFaults = 0

ModelFault == modelFaults < MaxModelFaults /\ modelFaults' = modelFaults + 1
Valid(m) == m # NoCopy => modelClock - m.checkedAt <= MaxVerifiedAge
UsableManifest(m) == m # NoCopy /\ Valid(m)

\* A read of storage is not much older than its time stamp.
ModelTick ==
  /\ modelClock < MaxModelClock
  /\ bridge.pc = "captured" => modelClock - bridge.readAt < SlowRead
  /\ modelClock' = modelClock + 1
  /\ UNCHANGED <<storageVars, bridge, postgres, redis, queryVars, modelFaults>>

Replacements == Cardinality({p \in Publications : left[p] # NeverLeft})

Replace(p) ==
  /\ Replacements < MaxReplacements
  /\ left' = [left EXCEPT ![source] = modelClock] /\ source' = p
  /\ UNCHANGED <<modelClock, bridge, postgres, redis, queryVars, modelFaults>>

\* The projection publishes.
NewRevision == Replace([source EXCEPT !.revision = @ + 1])

\* The database is replaced by another one, which may be behind.
NewDatabase(r) == r <= source.revision /\ Replace([epoch |-> source.epoch + 1, revision |-> r])

------------------------------------------------------------------------------
(* The bridge                                                             *)

\* capture_publication: the four views in one snapshot.
CapturePublication ==
  /\ bridge.pc = "idle"
  /\ bridge' = [bridge EXCEPT !.pc = "captured", !.seen = source, !.readAt = modelClock]
  /\ UNCHANGED <<modelClock, storageVars, postgres, redis, queryVars, modelFaults>>

SameRevision(p, known) == known # NoCopy => p.revision = known.revision
\* The epoch of the database is part of what has not changed.
SamePublication(p, known) == p = known

Unchanged == bridge.known # NoCopy /\ SamePublication(bridge.seen, bridge.known)

\* Bodies are hashed and the manifest stamped, or the known one stamped again.
StampManifest ==
  /\ bridge.pc = "captured"
  /\ bridge' = [bridge EXCEPT !.pc = "stamped", !.readAt = 0,
                  !.manifest = Manifest(IF Unchanged THEN bridge.known ELSE bridge.seen, modelClock)]
  /\ UNCHANGED <<modelClock, storageVars, postgres, redis, queryVars, modelFaults>>

\* Within one database a publication never goes back.
Regression ==
  /\ postgres # NoCopy /\ postgres.publication.epoch = bridge.manifest.publication.epoch
  /\ bridge.manifest.publication.revision < postgres.publication.revision

Renewable == postgres # NoCopy /\ postgres.publication = bridge.manifest.publication
Committable == IF Unchanged THEN Renewable ELSE ~Regression

\* publish or verify_unchanged, one transaction; known follows the commit.  As
\* there is one bridge and a database does not go back, neither refuses here.
CommitPostgres ==
  /\ bridge.pc = "stamped" /\ Committable
  /\ postgres' = bridge.manifest
  /\ bridge' = [bridge EXCEPT !.pc = "committed", !.known = bridge.manifest.publication]
  /\ UNCHANGED <<modelClock, storageVars, redis, queryVars, modelFaults>>

\* The turn ends with an error, or its answer is lost after the commit.
TurnFails ==
  /\ bridge.pc \in {"captured", "stamped"} /\ ModelFault
  /\ \/ UNCHANGED postgres
     \/ bridge.pc = "stamped" /\ Committable /\ postgres' = bridge.manifest
  /\ bridge' = [Rest EXCEPT !.known = bridge.known]
  /\ UNCHANGED <<modelClock, storageVars, redis, queryVars>>

\* cache_publication: bodies and manifest at once, if Redis is there.
CacheRedis ==
  /\ bridge.pc = "committed"
  /\ redis' \in {bridge.manifest, redis}
  /\ bridge' = [Rest EXCEPT !.known = bridge.known]
  /\ UNCHANGED <<modelClock, storageVars, postgres, queryVars, modelFaults>>

\* A new bridge knows nothing; the lock file leaves one at a time.
BridgeCrashes ==
  /\ bridge # Rest /\ ModelFault
  /\ bridge' = Rest
  /\ UNCHANGED <<modelClock, storageVars, postgres, redis, queryVars>>

\* The key expires, is evicted, or Redis is started anew.
RedisForgets ==
  /\ redis # NoCopy /\ redis' = NoCopy
  /\ UNCHANGED <<modelClock, storageVars, bridge, postgres, queryVars, modelFaults>>

------------------------------------------------------------------------------
(* A query process                                                        *)

Age(p) == IF p = source THEN 0 ELSE modelClock - left[p]
Answer(p) == served' = Age(p)
Prepared(m) == [publication |-> m.publication, shared |-> TRUE, verifiedAt |-> m.checkedAt]

\* Without the read model: the publication in storage, read and kept.
ReadStorage ==
  /\ Answer(source)
  /\ cached' = [publication |-> source, shared |-> FALSE, verifiedAt |-> NeverLeft]

\* shared_manifest: Redis, or PostgreSQL when Redis has none or fails.
Found == {m \in {redis, postgres} : UsableManifest(m)}

Later(p, q) == p.epoch = q.epoch /\ p.revision >= q.revision

\* A recently verified publication is served while the next is prepared, not
\* across another database and not for long.
CanFinishPrevious(m, started) ==
  /\ cached # NoCopy /\ cached.shared /\ Later(m.publication, cached.publication)
  /\ modelClock - cached.verifiedAt <= MaxVerifiedAge
  /\ modelClock - started < Grace

\* A request; others that come while it is in flight share its answer.
Request ==
  /\ ~waiting
  /\ \/ ReadStorage /\ UNCHANGED <<waiting, refresh>>
     \/ \E m \in Found :
          \/ /\ cached # NoCopy /\ cached.shared /\ cached.publication = m.publication
             /\ cached' = Prepared(m) /\ Answer(m.publication) /\ UNCHANGED <<waiting, refresh>>
          \/ /\ cached # NoCopy /\ cached.shared => cached.publication # m.publication
             /\ refresh' = IF refresh = NoCopy THEN [manifest |-> m, pc |-> "body", started |-> modelClock] ELSE refresh
             /\ UNCHANGED cached
             /\ IF CanFinishPrevious(m, refresh'.started)
                THEN Answer(cached.publication) /\ UNCHANGED waiting
                ELSE waiting' = TRUE /\ UNCHANGED served
  /\ UNCHANGED <<modelClock, storageVars, bridge, postgres, redis, modelFaults>>

\* The refresh found no body: whoever waits reads storage.
NoShared ==
  /\ refresh' = NoCopy /\ waiting' = FALSE
  /\ IF waiting THEN ReadStorage ELSE UNCHANGED <<cached, served>>

\* shared_body: a body is found by its publication and taken if it has the hash
\* of the manifest, so it is the right one or none: from Redis, or from
\* PostgreSQL as long as that holds this publication.
FetchBody ==
  /\ refresh # NoCopy /\ refresh.pc = "body"
  /\ \/ /\ Valid(refresh.manifest)
        /\ refresh' = [refresh EXCEPT !.pc = "prepare"]
        /\ UNCHANGED <<cached, waiting, served>>
     \/ NoShared
  /\ UNCHANGED <<modelClock, storageVars, bridge, postgres, redis, modelFaults>>

ValidAlways(m) == TRUE
\* Preparing takes time: the manifest is checked once more.
StillValid(m) == Valid(m)

FinishRefresh ==
  /\ refresh # NoCopy /\ refresh.pc = "prepare"
  /\ IF StillValid(refresh.manifest)
     THEN /\ cached' = Prepared(refresh.manifest)
          /\ refresh' = NoCopy /\ waiting' = FALSE
          /\ IF waiting THEN Answer(refresh.manifest.publication) ELSE UNCHANGED served
     ELSE NoShared
  /\ UNCHANGED <<modelClock, storageVars, bridge, postgres, redis, modelFaults>>

\* The bodies of other views take the room (the budget is for all views).
Evicted ==
  /\ cached # NoCopy /\ cached' = NoCopy
  /\ UNCHANGED <<modelClock, storageVars, bridge, postgres, redis, waiting, refresh, served, modelFaults>>

ModelNext ==
  \/ ModelTick \/ NewRevision \/ \E r \in 1..MaxReplacements : NewDatabase(r)
  \/ CapturePublication \/ StampManifest \/ CommitPostgres \/ TurnFails \/ CacheRedis
  \/ BridgeCrashes \/ RedisForgets
  \/ Request \/ FetchBody \/ FinishRefresh \/ Evicted

ModelSpec == ModelInit /\ [][ModelNext]_modelVars

------------------------------------------------------------------------------
Copies ==
  {m \in {postgres, redis, bridge.manifest} : m # NoCopy} \cup
  (IF cached # NoCopy /\ cached.shared THEN {Manifest(cached.publication, cached.verifiedAt)} ELSE {}) \cup
  (IF refresh # NoCopy THEN {refresh.manifest} ELSE {})

\* Whoever holds a publication with a time of verification: storage held it at
\* that time, but for the duration of a read.  No answer is older than a
\* verification may be, whatever is cached, prepared, renewed or replaced on
\* the way ("only a separately verified, committed copy can be served").
AnswersVerified ==
  /\ \A m \in Copies : m.checkedAt - SlowRead <= modelClock - Age(m.publication)
  /\ served <= MaxVerifiedAge + SlowRead
=============================================================================
