-------------------------- MODULE Deploying_proofs --------------------------
(***************************************************************************)
(* Theorems about the parts that change what is deployed: MigrationStore,  *)
(* for any number of deployers, installers, tables and definitions, and    *)
(* Deploy, for any number of runs at a time, any configurations and any    *)
(* failures, kills and lost answers.                                       *)
(***************************************************************************)
EXTENDS MigrationStore, Deploy, FiniteSetTheorems, TLAPS

(***************************************************************************)
(* The inductive invariant.  What a deployer read, or a request carries,   *)
(* may be out of date, but it is current whenever its version is: that is  *)
(* what the compare-and-set tests.                                         *)
(***************************************************************************)
SnapshotsCurrent ==
  \A d \in Deployers :
    /\ token[d] <= version
    /\ token[d] = version => base[d] = settings.tables
    /\ listed[d] \subseteq rows

RequestsCurrent ==
  \A q \in requests :
    /\ q.token <= version
    /\ q.token = version => q.base = settings.tables

StampsIssued ==
  /\ \A r \in rows : r.mig.stamp <= clock
  /\ \A a \in archive : a.stamp <= clock
  /\ \A q \in requests : 1 <= q.stamp /\ q.stamp <= clock
  /\ \A d \in Deployers : pc[d] \in {"waiting", "failed"} =>
       /\ 1 <= stamp[d] /\ stamp[d] <= clock
       /\ \A r \in listed[d] : r.mig.stamp < stamp[d]

(* A stamp found in the database belongs to a deployment that is over.     *)
Used(s) == (\E r \in rows : r.mig.stamp = s) \/ (\E a \in archive : a.stamp = s)

UsedIsOver ==
  /\ \A q \in requests : Used(q.stamp) => q.token < version
  /\ \A d \in Deployers :
       pc[d] \in {"waiting", "failed"} /\ Used(stamp[d]) => token[d] < version

(* The migrations of a request are the ones listed before, all of them     *)
(* applied, and its own, one for each table that changes.                  *)
Own(q) == {m \in q.migrations : m.stamp = q.stamp}

OwnParts(q) ==
  /\ \A m \in Own(q) : m.table \in Tables /\ m.to = q.goal[m.table]
  /\ \A m, n \in Own(q) : m.table = n.table => m = n
  /\ \A t \in Tables : q.goal[t] # q.base[t] => \E m \in Own(q) : m.table = t

OldParts(q, rs) ==
  \A m \in q.migrations \ Own(q) : \E r \in rs : SameName(m, r.mig)

ListedParts(q) ==
  q.step = "batch" =>
    /\ q.last \subseteq rows
    /\ OldParts(q, q.last)
    /\ \A m \in q.migrations, r \in q.last : SameName(m, r.mig) => m.stamp = r.mig.stamp

RequestParts ==
  \A q \in requests : OwnParts(q) /\ OldParts(q, rows) /\ ListedParts(q)

(* While no version is stored, the configuration is the empty one.         *)
NoneIsEmpty == version = -1 => settings.tables = EmptyConfig

StoreInv ==
  /\ TypeOK
  /\ NoneIsEmpty
  /\ StampMatchesBlob
  /\ SchemaFollowsSettings
  /\ SnapshotsCurrent
  /\ RequestsCurrent
  /\ StampsIssued
  /\ UsedIsOver
  /\ RequestParts

-----------------------------------------------------------------------------
(* Facts about the operators.                                              *)

(* The next index is a natural number, whatever rows were listed.          *)
LEMMA NextIndexNat ==
  ASSUME NEW rs \in SUBSET Row
  PROVE  nextUserIndex(rs) \in Nat
<1>1. CASE LastUserRows(rs) = {}
  BY <1>1 DEF nextUserIndex, USER_MIGRATION_START
<1>2. CASE LastUserRows(rs) # {}
  <2>1. (CHOOSE r \in LastUserRows(rs) : TRUE) \in LastUserRows(rs)
    BY <1>2
  <2>2. (CHOOSE r \in LastUserRows(rs) : TRUE) \in Row
    BY <2>1 DEF LastUserRows
  <2>3. (CHOOSE r \in LastUserRows(rs) : TRUE).mig.index \in Nat
    BY <2>2 DEF Row, Migration
  <2>. QED  BY <1>2, <2>3 DEF nextUserIndex
<1>. QED  BY <1>1, <1>2

(* Generated migrations carry the stamp they are given, lead each changed  *)
(* table, and no other, to its definition in the goal.                     *)
LEMMA GenerateFacts ==
  ASSUME NEW next \in Config, NEW before \in Config, NEW first \in Nat, NEW now \in Nat
  PROVE  LET G == generateMigrations(next, before, first, now)
         IN  /\ G \subseteq Migration
             /\ \A m \in G : m.stamp = now /\ m.table \in Tables /\ m.to = next[m.table]
             /\ \A m, n \in G : m.table = n.table => m = n
             /\ \A t \in Tables : next[t] # before[t] => \E m \in G : m.table = t
<1>. DEFINE C == Changed(next, before)
            Mig(t) == [index |-> first + Cardinality(GeneratedBefore(next, before, t)),
                       op |-> OpOf(next, before, t), table |-> t,
                       stamp |-> now, revert |-> FALSE, to |-> next[t]]
<1>1. ASSUME NEW t \in Tables  PROVE  Cardinality(GeneratedBefore(next, before, t)) \in Nat
  <2>1. GeneratedBefore(next, before, t) \in SUBSET Tables
    BY DEF GeneratedBefore, Changed
  <2>. QED  BY <2>1, FS_Subset, FS_CardinalityType, StoreAssumption
<1>2. \A t \in Tables : OpOf(next, before, t) \in {"create", "drop", "alter"}
  BY DEF OpOf
<1>3. C \subseteq Tables /\ \A t \in Tables : next[t] # before[t] => t \in C
  BY DEF Changed
<1>4. \A t \in Tables : next[t] \in Defs \cup {NoTable}
  BY DEF Config
<1>5. \A t \in Tables :
        /\ Mig(t) \in Migration
        /\ Mig(t).stamp = now /\ Mig(t).table = t /\ Mig(t).to = next[t]
  BY <1>1, <1>2, <1>4 DEF Migration
<1>6. generateMigrations(next, before, first, now) = {Mig(t) : t \in C}
  BY DEF generateMigrations
<1>. HIDE DEF Mig, C
<1>. QED  BY <1>3, <1>5, <1>6

(* What a deployer posts.                                                  *)
LEMMA PostedFacts ==
  ASSUME TypeOK, NEW d \in Deployers, NEW g \in Config, NEW now \in Nat,
         \A r \in listed[d] : r.mig.stamp < now
  PROVE  LET P == Posted(d, g, now)
             own == {m \in P : m.stamp = now}
         IN  /\ P \subseteq Migration
             /\ \A m \in own : m.table \in Tables /\ m.to = g[m.table]
             /\ \A m, n \in own : m.table = n.table => m = n
             /\ \A t \in Tables : g[t] # base[d][t] => \E m \in own : m.table = t
             /\ \A m \in P \ own : \E r \in listed[d] : SameName(m, r.mig)
<1>. DEFINE G == generateMigrations(g, base[d], nextUserIndex(listed[d]), now)
            O == IF d \in FolderUsers THEN readMigrationsFolder(Migs(listed[d]))
                                      ELSE Migs(listed[d])
<1>1. listed[d] \in SUBSET Row /\ base[d] \in Config
  BY DEF TypeOK
<1>2. /\ G \subseteq Migration
      /\ \A m \in G : m.stamp = now /\ m.table \in Tables /\ m.to = g[m.table]
      /\ \A m, n \in G : m.table = n.table => m = n
      /\ \A t \in Tables : g[t] # base[d][t] => \E m \in G : m.table = t
  BY <1>1, NextIndexNat, GenerateFacts
<1>3. \A m \in Migs(listed[d]) : m \in Migration /\ m.stamp < now /\ \E r \in listed[d] : SameName(m, r.mig)
  BY <1>1 DEF Migs, Row, SameName
<1>4. \A m \in O : m \in Migration /\ m.stamp < now /\ \E r \in listed[d] : SameName(m, r.mig)
  <2>1. CASE d \notin FolderUsers
    BY <2>1, <1>3
  <2>2. CASE d \in FolderUsers
    <3>1. \A m \in Migration : LET n == [m EXCEPT !.revert = FALSE]
            IN  n \in Migration /\ n.stamp = m.stamp /\ \A k : SameName(m, k) => SameName(n, k)
      BY DEF Migration, SameName
    <3>2. O = {[m EXCEPT !.revert = FALSE] : m \in Migs(listed[d])}
      BY <2>2 DEF readMigrationsFolder
    <3>. HIDE DEF O
    <3>. SUFFICES ASSUME NEW m \in O
                  PROVE  m \in Migration /\ m.stamp < now /\ \E r \in listed[d] : SameName(m, r.mig)
      OBVIOUS
    <3>3. PICK k \in Migs(listed[d]) : m = [k EXCEPT !.revert = FALSE]
      BY <3>2
    <3>4. PICK r \in listed[d] : SameName(k, r.mig)
      BY <1>3
    <3>5. m \in Migration /\ m.stamp = k.stamp /\ SameName(m, r.mig)
      BY <1>3, <3>1, <3>3, <3>4
    <3>. QED  BY <1>3, <3>3, <3>4, <3>5
  <2>. QED  BY <2>1, <2>2
<1>5. Posted(d, g, now) = O \cup G
  BY DEF Posted
<1>6. \A m \in O : m.stamp # now
  BY <1>4 DEF Migration
<1>. HIDE DEF G, O
<1>. QED  BY <1>2, <1>4, <1>5, <1>6

-----------------------------------------------------------------------------
(* The invariant holds initially.                                          *)
LEMMA StoreInit == Init => StoreInv
<1>. SUFFICES ASSUME Init PROVE StoreInv
  OBVIOUS
<1>. USE DEF Init, DeployersInit, InstallersInit
<1>1. EmptyConfig \in Config
  BY DEF EmptyConfig, Config
<1>2. TypeOK
  BY <1>1, StoreAssumption DEF TypeOK, NoSettings, Settings
<1>3. StampMatchesBlob /\ SchemaFollowsSettings /\ NoneIsEmpty
  BY DEF StampMatchesBlob, SchemaFollowsSettings, NoSettings, NoneIsEmpty
<1>4. SnapshotsCurrent
  BY DEF SnapshotsCurrent, NoSettings
<1>5. RequestsCurrent /\ StampsIssued /\ UsedIsOver /\ RequestParts
  BY DEF RequestsCurrent, StampsIssued, UsedIsOver, RequestParts
<1>. QED  BY <1>2, <1>3, <1>4, <1>5 DEF StoreInv

(* Steps that touch neither the database nor the requests and leave each   *)
(* deployer as it was or back at its start keep the invariant.             *)
LEMMA ResetKeeps ==
  ASSUME StoreInv, NEW d \in Deployers, Reset(d),
         UNCHANGED <<dbVars, clock, requests, installerVars>>
  PROVE  StoreInv'
<1>. USE DEF dbVars, installerVars
<1>1. EmptyConfig \in Config
  BY DEF EmptyConfig, Config
<1>2. TypeOK'
  BY <1>1 DEF StoreInv, TypeOK, Reset
<1>3. (StampMatchesBlob /\ SchemaFollowsSettings /\ RequestsCurrent /\ NoneIsEmpty)'
  BY DEF StoreInv, NoneIsEmpty, StampMatchesBlob, SchemaFollowsSettings, RequestsCurrent
<1>4. SnapshotsCurrent'
  BY DEF StoreInv, TypeOK, SnapshotsCurrent, Reset, NoneIsEmpty
<1>5. StampsIssued'
  BY DEF StoreInv, TypeOK, StampsIssued, Reset
<1>6. UsedIsOver'
  BY DEF StoreInv, TypeOK, UsedIsOver, Used, Reset
<1>7. RequestParts'
  BY DEF StoreInv, RequestParts, OwnParts, OldParts, ListedParts, Own
<1>. QED  BY <1>2, <1>3, <1>4, <1>5, <1>6, <1>7 DEF StoreInv

LEMMA FetchListKeeps ==
  ASSUME StoreInv, NEW d \in Deployers, FetchList(d)
  PROVE  StoreInv'
<1>. USE DEF dbVars, installerVars, FetchList
<1>1. TypeOK'
  BY DEF StoreInv, TypeOK
<1>2. (StampMatchesBlob /\ SchemaFollowsSettings /\ RequestsCurrent /\ NoneIsEmpty)'
  BY DEF StoreInv, StampMatchesBlob, SchemaFollowsSettings, RequestsCurrent, NoneIsEmpty
<1>3. SnapshotsCurrent'
  BY DEF StoreInv, TypeOK, SnapshotsCurrent
<1>4. StampsIssued'
  BY DEF StoreInv, TypeOK, StampsIssued
<1>5. UsedIsOver'
  BY DEF StoreInv, TypeOK, UsedIsOver, Used
<1>6. RequestParts'
  BY DEF StoreInv, RequestParts, OwnParts, OldParts, ListedParts, Own
<1>. QED  BY <1>1, <1>2, <1>3, <1>4, <1>5, <1>6 DEF StoreInv

LEMMA FetchSettingsKeeps ==
  ASSUME StoreInv, NEW d \in Deployers, FetchSettings(d)
  PROVE  StoreInv'
<1>. USE DEF dbVars, installerVars
<1>1. CASE "kv" \notin created
  BY <1>1, ResetKeeps DEF FetchSettings
<1>2. CASE "kv" \in created
  <2>1. /\ pc' = [pc EXCEPT ![d] = "read"]
        /\ base' = [base EXCEPT ![d] = settings.tables]
        /\ token' = [token EXCEPT ![d] = version]
        /\ UNCHANGED <<listed, stamp, goal, route, dbVars, clock, requests, installerVars>>
    BY <1>2 DEF FetchSettings
  <2>2. TypeOK'
    BY <2>1 DEF StoreInv, TypeOK, Settings
  <2>3. (StampMatchesBlob /\ SchemaFollowsSettings /\ RequestsCurrent /\ NoneIsEmpty)'
    BY <2>1 DEF StoreInv, StampMatchesBlob, SchemaFollowsSettings, RequestsCurrent, NoneIsEmpty
  <2>4. SnapshotsCurrent'
    BY <2>1 DEF StoreInv, TypeOK, SnapshotsCurrent
  <2>5. StampsIssued'
    BY <2>1 DEF StoreInv, TypeOK, StampsIssued
  <2>6. UsedIsOver'
    BY <2>1 DEF StoreInv, TypeOK, UsedIsOver, Used
  <2>7. RequestParts'
    BY <2>1 DEF StoreInv, RequestParts, OwnParts, OldParts, ListedParts, Own
  <2>. QED  BY <2>2, <2>3, <2>4, <2>5, <2>6, <2>7 DEF StoreInv
<1>. QED  BY <1>1, <1>2

LEMMA TimeoutKeeps ==
  ASSUME StoreInv, NEW d \in Deployers, Timeout(d)
  PROVE  StoreInv'
<1>. USE DEF dbVars, installerVars, Timeout
<1>1. TypeOK'
  BY DEF StoreInv, TypeOK
<1>2. (StampMatchesBlob /\ SchemaFollowsSettings /\ RequestsCurrent /\ NoneIsEmpty)'
  BY DEF StoreInv, StampMatchesBlob, SchemaFollowsSettings, RequestsCurrent, NoneIsEmpty
<1>3. SnapshotsCurrent'
  BY DEF StoreInv, TypeOK, SnapshotsCurrent
<1>4. StampsIssued'
  BY DEF StoreInv, TypeOK, StampsIssued
<1>5. UsedIsOver'
  BY DEF StoreInv, TypeOK, UsedIsOver, Used
<1>6. RequestParts'
  BY DEF StoreInv, RequestParts, OwnParts, OldParts, ListedParts, Own
<1>. QED  BY <1>1, <1>2, <1>3, <1>4, <1>5, <1>6 DEF StoreInv

(* A new request satisfies what the invariant says of requests.            *)
LEMMA NewRequest ==
  ASSUME StoreInv, NEW d \in Deployers, NEW g \in Config, NEW now \in Nat,
         NEW rt \in {"direct", "worker"},
         \A r \in listed[d] : r.mig.stamp < now,
         NEW q, q = RequestOf(d, g, now, rt)
  PROVE  /\ q \in Request
         /\ q.stamp = now /\ q.token = token[d] /\ q.base = base[d] /\ q.goal = g
         /\ OwnParts(q) /\ OldParts(q, rows) /\ ListedParts(q)
<1>. DEFINE P == Posted(d, g, now)
            own == {m \in P : m.stamp = now}
<1>1. /\ P \subseteq Migration
      /\ \A m \in own : m.table \in Tables /\ m.to = g[m.table]
      /\ \A m, n \in own : m.table = n.table => m = n
      /\ \A t \in Tables : g[t] # base[d][t] => \E m \in own : m.table = t
      /\ \A m \in P \ own : \E r \in listed[d] : SameName(m, r.mig)
  BY PostedFacts DEF StoreInv
<1>2. q = [by |-> d, route |-> rt, stamp |-> now, step |-> "list",
           token |-> token[d], base |-> base[d], goal |-> g,
           migrations |-> P, last |-> {}]
  BY DEF RequestOf
<1>. HIDE DEF P
<1>3. q \in Request
  BY <1>1, <1>2 DEF StoreInv, TypeOK, Request
<1>4. /\ q.stamp = now /\ q.token = token[d] /\ q.base = base[d] /\ q.goal = g
      /\ q.step = "list" /\ q.migrations = P
  BY <1>2
<1>5. Own(q) = own
  BY <1>4 DEF Own
<1>6. OwnParts(q)
  BY <1>1, <1>4, <1>5 DEF OwnParts
<1>7. OldParts(q, rows)
  BY <1>1, <1>4, <1>5 DEF OldParts, StoreInv, SnapshotsCurrent
<1>8. ListedParts(q)
  BY <1>4 DEF ListedParts
<1>. QED  BY <1>3, <1>4, <1>6, <1>7, <1>8

LEMMA PostKeeps ==
  ASSUME StoreInv, NEW d \in Deployers, Post(d)
  PROVE  StoreInv'
<1>. USE DEF dbVars, installerVars
<1>1. PICK g \in Config :
        /\ goal' = [goal EXCEPT ![d] = g]
        /\ requests' = requests \cup {RequestOf(d, g, clock', "direct")}
  BY DEF Post
<1>2. /\ clock < MaxStamp /\ clock' = clock + 1
      /\ stamp' = [stamp EXCEPT ![d] = clock']
      /\ pc' = [pc EXCEPT ![d] = "waiting"]
      /\ UNCHANGED <<dbVars, listed, base, token, route, installerVars>>
  BY DEF Post
<1>3. clock \in Nat /\ clock' \in Nat /\ clock' \in 0 .. MaxStamp /\ clock < clock'
  BY <1>2, StoreAssumption DEF StoreInv, TypeOK
<1>4. \A r \in rows : r.mig.stamp \in Nat /\ r.mig.stamp <= clock
  BY DEF StoreInv, StampsIssued, TypeOK, Row, Migration
<1>5. \A r \in listed[d] : r.mig.stamp < clock'
  BY <1>3, <1>4 DEF StoreInv, SnapshotsCurrent
<1>. DEFINE q == RequestOf(d, g, clock', "direct")
<1>6. /\ q \in Request
      /\ q.stamp = clock' /\ q.token = token[d] /\ q.base = base[d] /\ q.goal = g
      /\ OwnParts(q) /\ OldParts(q, rows) /\ ListedParts(q)
  BY <1>3, <1>5, NewRequest
<1>. HIDE DEF q
<1>7. requests' = requests \cup {q}
  BY <1>1 DEF q
<1>8. TypeOK'
  BY <1>1, <1>2, <1>3, <1>6, <1>7 DEF StoreInv, TypeOK
<1>9. (StampMatchesBlob /\ SchemaFollowsSettings /\ NoneIsEmpty)'
  BY <1>2 DEF StoreInv, StampMatchesBlob, SchemaFollowsSettings, NoneIsEmpty
<1>10. SnapshotsCurrent'
  BY <1>2 DEF StoreInv, TypeOK, SnapshotsCurrent
<1>11. RequestsCurrent'
  BY <1>2, <1>6, <1>7 DEF StoreInv, SnapshotsCurrent, RequestsCurrent
<1>12. ~Used(clock')
  <2>1. \A a \in archive : a.stamp \in Nat /\ a.stamp <= clock
    BY DEF StoreInv, StampsIssued, TypeOK
  <2>. QED  BY <2>1, <1>3, <1>4 DEF Used
<1>13. StampsIssued'
  <2>1. \A x \in Nat : x <= clock => x <= clock'
    BY <1>3
  <2>2. (\A r \in rows : r.mig.stamp <= clock)'
    BY <1>2, <1>4, <2>1
  <2>3. (\A a \in archive : a.stamp <= clock)'
    BY <1>2, <2>1 DEF StoreInv, StampsIssued, TypeOK
  <2>4. (\A x \in requests : 1 <= x.stamp /\ x.stamp <= clock)'
    BY <1>3, <1>6, <1>7, <2>1 DEF StoreInv, StampsIssued, TypeOK, Request
  <2>5. (\A e \in Deployers : pc[e] \in {"waiting", "failed"} =>
           /\ 1 <= stamp[e] /\ stamp[e] <= clock
           /\ \A r \in listed[e] : r.mig.stamp < stamp[e])'
    <3>. SUFFICES ASSUME NEW e \in Deployers, pc'[e] \in {"waiting", "failed"}
                  PROVE  /\ 1 <= stamp'[e] /\ stamp'[e] <= clock'
                         /\ \A r \in listed[e] : r.mig.stamp < stamp'[e]
      BY <1>2
    <3>1. CASE e = d
      BY <3>1, <1>2, <1>3, <1>5 DEF StoreInv, TypeOK
    <3>2. CASE e # d
      BY <3>2, <1>2, <2>1 DEF StoreInv, TypeOK, StampsIssued
    <3>. QED  BY <3>1, <3>2
  <2>. QED  BY <2>2, <2>3, <2>4, <2>5 DEF StampsIssued
<1>14. UsedIsOver'
  <2>1. \A x : Used(x)' <=> Used(x)
    BY <1>2 DEF Used
  <2>2. \A x \in requests' : Used(x.stamp) => x.token < version
    BY <1>6, <1>7, <1>12 DEF StoreInv, UsedIsOver
  <2>3. \A e \in Deployers : pc'[e] \in {"waiting", "failed"} /\ Used(stamp'[e]) => token[e] < version
    <3>. SUFFICES ASSUME NEW e \in Deployers, pc'[e] \in {"waiting", "failed"}, Used(stamp'[e])
                  PROVE  token[e] < version
      OBVIOUS
    <3>1. e # d
      BY <1>2, <1>12 DEF StoreInv, TypeOK
    <3>. QED  BY <3>1, <1>2 DEF StoreInv, TypeOK, UsedIsOver
  <2>. QED  BY <1>2, <2>1, <2>2, <2>3 DEF UsedIsOver, Used
<1>15. RequestParts'
  <2>. SUFFICES ASSUME NEW x \in requests'
                PROVE  (OwnParts(x) /\ OldParts(x, rows) /\ ListedParts(x))'
    BY DEF RequestParts
  <2>1. OwnParts(x) /\ OldParts(x, rows) /\ ListedParts(x)
    BY <1>6, <1>7 DEF StoreInv, RequestParts
  <2>. QED  BY <1>2, <2>1 DEF OwnParts, OldParts, ListedParts, Own
<1>. QED  BY <1>8, <1>9, <1>10, <1>11, <1>13, <1>14, <1>15 DEF StoreInv

LEMMA FallbackKeeps ==
  ASSUME StoreInv, NEW d \in Deployers, Fallback(d)
  PROVE  StoreInv'
<1>. USE DEF dbVars, installerVars
<1>. DEFINE q == RequestOf(d, goal[d], stamp[d], "worker")
<1>1. /\ pc[d] = "failed"
      /\ requests' = requests \cup {q}
      /\ route' = [route EXCEPT ![d] = "worker"]
      /\ pc' = [pc EXCEPT ![d] = "waiting"]
      /\ UNCHANGED <<dbVars, clock, listed, base, token, stamp, goal, installerVars>>
  BY DEF Fallback
<1>2. stamp[d] \in Nat /\ goal[d] \in Config /\ \A r \in listed[d] : r.mig.stamp < stamp[d]
  BY <1>1 DEF StoreInv, TypeOK, StampsIssued
<1>3. /\ q \in Request
      /\ q.stamp = stamp[d] /\ q.token = token[d] /\ q.base = base[d] /\ q.goal = goal[d]
      /\ OwnParts(q) /\ OldParts(q, rows) /\ ListedParts(q)
  BY <1>2, NewRequest
<1>. HIDE DEF q
<1>4. TypeOK'
  BY <1>1, <1>3 DEF StoreInv, TypeOK
<1>5. (StampMatchesBlob /\ SchemaFollowsSettings /\ NoneIsEmpty)'
  BY <1>1 DEF StoreInv, StampMatchesBlob, SchemaFollowsSettings, NoneIsEmpty
<1>6. SnapshotsCurrent'
  BY <1>1 DEF StoreInv, TypeOK, SnapshotsCurrent
<1>7. RequestsCurrent'
  BY <1>1, <1>3 DEF StoreInv, SnapshotsCurrent, RequestsCurrent
<1>8. StampsIssued'
  BY <1>1, <1>3 DEF StoreInv, TypeOK, StampsIssued
<1>9. UsedIsOver'
  <2>1. \A x \in requests' : Used(x.stamp) => x.token < version
    BY <1>1, <1>3 DEF StoreInv, UsedIsOver
  <2>2. \A e \in Deployers : pc'[e] \in {"waiting", "failed"} /\ Used(stamp[e]) => token[e] < version
    BY <1>1 DEF StoreInv, TypeOK, UsedIsOver
  <2>. QED  BY <1>1, <2>1, <2>2 DEF UsedIsOver, Used
<1>10. RequestParts'
  <2>. SUFFICES ASSUME NEW x \in requests'
                PROVE  (OwnParts(x) /\ OldParts(x, rows) /\ ListedParts(x))'
    BY DEF RequestParts
  <2>1. OwnParts(x) /\ OldParts(x, rows) /\ ListedParts(x)
    BY <1>1, <1>3 DEF StoreInv, RequestParts
  <2>. QED  BY <1>1, <2>1 DEF OwnParts, OldParts, ListedParts, Own
<1>. QED  BY <1>4, <1>5, <1>6, <1>7, <1>8, <1>9, <1>10 DEF StoreInv

LEMMA AbandonKeeps ==
  ASSUME StoreInv, NEW d \in Deployers, Abandon(d)
  PROVE  StoreInv'
BY ResetKeeps DEF Abandon

(* Whatever the answer and whether it arrives, a deployer keeps what it    *)
(* read or starts again.                                                   *)
After(d) ==
  /\ token'[d] = token[d] /\ base'[d] = base[d] /\ listed'[d] = listed[d]
  /\ stamp'[d] = stamp[d]
  /\ pc'[d] \in {"waiting", "failed"} => pc[d] \in {"waiting", "failed"}

Restarted(d) ==
  token'[d] = -1 /\ base'[d] = EmptyConfig /\ listed'[d] = {} /\ pc'[d] = "idle"

DeployersTyped ==
  /\ pc \in [Deployers -> {"idle", "listed", "read", "waiting", "failed"}]
  /\ listed \in [Deployers -> SUBSET Row]
  /\ base \in [Deployers -> Config]
  /\ token \in [Deployers -> Int]
  /\ stamp \in [Deployers -> Nat]
  /\ goal \in [Deployers -> Config]
  /\ route \in [Deployers -> {"direct", "worker"}]

LEMMA ReturnFacts ==
  ASSUME TypeOK, NEW q \in requests, NEW ok, Return(q, ok)
  PROVE  /\ requests' = requests \ {q}
         /\ DeployersTyped'
         /\ \A d \in Deployers : After(d) \/ Restarted(d)
<1>1. q.by \in Deployers
  BY DEF TypeOK, Request
<1>2. EmptyConfig \in Config
  BY DEF EmptyConfig, Config
<1>3. requests' = requests \ {q}
  BY DEF Return
<1>4. CASE UNCHANGED deployerVars
  BY <1>3, <1>4 DEF deployerVars, TypeOK, DeployersTyped, After
<1>5. CASE Reset(q.by)
  BY <1>1, <1>2, <1>3, <1>5 DEF Reset, TypeOK, DeployersTyped, After, Restarted
<1>6. CASE /\ Awaited(q)
           /\ pc' = [pc EXCEPT ![q.by] = "failed"]
           /\ UNCHANGED <<listed, base, token, stamp, goal, route>>
  BY <1>1, <1>3, <1>6 DEF Awaited, TypeOK, DeployersTyped, After
<1>. QED  BY <1>4, <1>5, <1>6 DEF Return

LEMMA ReturnKeeps ==
  ASSUME StoreInv, NEW q \in requests, NEW ok, Return(q, ok),
         UNCHANGED <<dbVars, clock, installerVars>>
  PROVE  StoreInv'
<1>. USE DEF dbVars, installerVars
<1>1. /\ requests' = requests \ {q}
      /\ DeployersTyped'
      /\ \A d \in Deployers : After(d) \/ Restarted(d)
  BY ReturnFacts DEF StoreInv
<1>2. TypeOK'
  BY <1>1 DEF StoreInv, TypeOK, DeployersTyped
<1>3. (StampMatchesBlob /\ SchemaFollowsSettings /\ NoneIsEmpty)'
  BY DEF StoreInv, StampMatchesBlob, SchemaFollowsSettings, NoneIsEmpty
<1>4. SnapshotsCurrent'
  BY <1>1 DEF StoreInv, TypeOK, SnapshotsCurrent, NoneIsEmpty, After, Restarted
<1>5. RequestsCurrent'
  BY <1>1 DEF StoreInv, RequestsCurrent
<1>6. StampsIssued'
  BY <1>1 DEF StoreInv, StampsIssued, After, Restarted
<1>7. UsedIsOver'
  BY <1>1 DEF StoreInv, UsedIsOver, Used, After, Restarted
<1>8. RequestParts'
  BY <1>1 DEF StoreInv, RequestParts, OwnParts, OldParts, ListedParts, Own
<1>. QED  BY <1>2, <1>3, <1>4, <1>5, <1>6, <1>7, <1>8 DEF StoreInv

LEMMA ApplyListKeeps ==
  ASSUME StoreInv, NEW q \in requests, ApplyList(q)
  PROVE  StoreInv'
<1>. USE DEF dbVars, installerVars
<1>1. CASE Return(q, FALSE)
  BY <1>1, ReturnKeeps DEF ApplyList
<1>2. CASE ~Mismatch(q) /\ requests' = (requests \ {q})
               \cup {[q EXCEPT !.step = "batch", !.last = rows]} /\ UNCHANGED deployerVars
  <2>. DEFINE p == [q EXCEPT !.step = "batch", !.last = rows]
  <2>1. UNCHANGED <<dbVars, clock, installerVars, deployerVars>>
    BY <1>2 DEF ApplyList
  <2>. USE <2>1 DEF deployerVars
  <2>2. q \in Request
    BY DEF StoreInv, TypeOK
  <2>3. /\ p \in Request
        /\ p.stamp = q.stamp /\ p.token = q.token /\ p.base = q.base /\ p.goal = q.goal
        /\ p.migrations = q.migrations /\ p.last = rows
    BY <2>2 DEF StoreInv, TypeOK, Request
  <2>. HIDE DEF p
  <2>4. requests' = (requests \ {q}) \cup {p}
    BY <1>2 DEF p
  <2>5. TypeOK'
    BY <2>3, <2>4 DEF StoreInv, TypeOK
  <2>6. (StampMatchesBlob /\ SchemaFollowsSettings /\ NoneIsEmpty)'
    BY DEF StoreInv, StampMatchesBlob, SchemaFollowsSettings, NoneIsEmpty
  <2>7. SnapshotsCurrent'
    BY DEF StoreInv, SnapshotsCurrent
  <2>8. RequestsCurrent'
    BY <2>3, <2>4 DEF StoreInv, RequestsCurrent
  <2>9. StampsIssued'
    BY <2>3, <2>4 DEF StoreInv, StampsIssued
  <2>10. UsedIsOver'
    BY <2>3, <2>4 DEF StoreInv, UsedIsOver, Used
  <2>11. RequestParts'
    <3>1. OwnParts(q) /\ OldParts(q, rows)
      BY DEF StoreInv, RequestParts
    <3>2. OwnParts(p) /\ OldParts(p, rows)
      BY <3>1, <2>3 DEF OwnParts, OldParts, Own
    <3>3. ListedParts(p)
      BY <3>2, <2>3, <1>2 DEF ListedParts, Mismatch, Migs
    <3>4. \A x \in requests' : OwnParts(x) /\ OldParts(x, rows) /\ ListedParts(x)
      BY <3>2, <3>3, <2>4 DEF StoreInv, RequestParts
    <3>. QED  BY <3>4 DEF RequestParts, OwnParts, OldParts, ListedParts, Own
  <2>. QED  BY <2>5, <2>6, <2>7, <2>8, <2>9, <2>10, <2>11 DEF StoreInv
<1>. QED  BY <1>1, <1>2 DEF ApplyList

(* A batch that passes the compare-and-set creates exactly the tables that *)
(* lead from the stored configuration to its goal.                         *)
LEMMA CommitFacts ==
  ASSUME StoreInv, NEW q \in requests, q.step = "batch", casVerify(q), Commit(q)
  PROVE  /\ Fresh(q) \subseteq Own(q)
         /\ q.base = settings.tables
         /\ schema' = q.goal /\ q.goal \in Config
         /\ version \in Int /\ version >= -1 /\ version' = version + 1
         /\ settings' = [tables |-> q.goal, version |-> version + 1]
         /\ archive' = archive \cup {[settings |-> settings', stamp |-> q.stamp]}
<1>1. q \in Request /\ version \in Int /\ version >= -1 /\ q.token = version
  BY DEF StoreInv, TypeOK, casVerify
<1>2. q.goal \in Config /\ q.base = settings.tables /\ q.base = schema
  BY <1>1 DEF Request, StoreInv, RequestsCurrent, SchemaFollowsSettings
<1>3. OwnParts(q) /\ OldParts(q, q.last)
      /\ \A m \in q.migrations, r \in q.last : SameName(m, r.mig) => m.stamp = r.mig.stamp
      /\ q.last \subseteq rows
  BY DEF StoreInv, RequestParts, ListedParts
<1>4. Fresh(q) \subseteq Own(q)
  BY <1>3 DEF Fresh, OldParts
<1>5. ~Used(q.stamp)
  BY <1>1 DEF StoreInv, UsedIsOver
<1>6. Own(q) \subseteq Fresh(q)
  BY <1>3, <1>5 DEF Own, Fresh, Used
<1>7. ASSUME NEW t \in Tables
      PROVE  (IF \E m \in Fresh(q) : m.table = t
                THEN (CHOOSE m \in Fresh(q) : m.table = t).to ELSE schema[t]) = q.goal[t]
  <2>1. CASE \E m \in Fresh(q) : m.table = t
    <3>. DEFINE c == CHOOSE m \in Fresh(q) : m.table = t
    <3>1. c \in Fresh(q) /\ c.table = t
      BY <2>1
    <3>2. c.to = q.goal[t]
      BY <3>1, <1>3, <1>4 DEF OwnParts
    <3>. QED  BY <2>1, <3>2
  <2>2. CASE ~ \E m \in Fresh(q) : m.table = t
    <3>1. q.goal[t] = q.base[t]
      BY <2>2, <1>3, <1>6 DEF OwnParts
    <3>. QED  BY <2>2, <3>1, <1>2
  <2>. QED  BY <2>1, <2>2
<1>8. schema' = [t \in Tables |-> q.goal[t]]
  BY <1>7 DEF Commit
<1>9. schema' = q.goal
  BY <1>2, <1>8 DEF Config
<1>10. /\ settings' = [tables |-> q.goal, version |-> version + 1]
       /\ archive' = archive \cup {[settings |-> settings', stamp |-> q.stamp]}
       /\ version' = version + 1
  BY <1>1 DEF Commit, ExpectedVersion
<1>. QED  BY <1>1, <1>2, <1>4, <1>9, <1>10

LEMMA CommitKeeps ==
  ASSUME StoreInv, NEW q \in requests, q.step = "batch", casVerify(q), Commit(q),
         NEW ok, Return(q, ok), UNCHANGED <<clock, installerVars>>
  PROVE  StoreInv'
<1>. USE DEF installerVars
<1>. DEFINE new == {[mig |-> m, batch |-> batches + 1] : m \in Fresh(q)}
<1>1. /\ Fresh(q) \subseteq Own(q)
      /\ schema' = q.goal /\ q.goal \in Config
      /\ version \in Int /\ version >= -1 /\ version' = version + 1
      /\ settings' = [tables |-> q.goal, version |-> version + 1]
      /\ archive' = archive \cup {[settings |-> settings', stamp |-> q.stamp]}
  BY CommitFacts
<1>2. /\ requests' = requests \ {q}
      /\ DeployersTyped'
      /\ \A d \in Deployers : After(d) \/ Restarted(d)
  BY ReturnFacts DEF StoreInv
<1>3. /\ rows' = rows \cup new
      /\ batches' = IF Fresh(q) = {} THEN batches ELSE batches + 1
      /\ UNCHANGED created
  BY DEF Commit
<1>4. q \in Request
  BY DEF StoreInv, TypeOK
<1>5. new \subseteq Row /\ \A r \in new : r.mig.stamp = q.stamp
  <2>1. \A m \in Fresh(q) : m \in Migration /\ m.stamp = q.stamp
    BY <1>1, <1>4 DEF Fresh, Request, Own
  <2>2. batches + 1 \in Nat
    BY DEF StoreInv, TypeOK
  <2>. QED  BY <2>1, <2>2 DEF Row
<1>. HIDE DEF new
<1>6. TypeOK'
  <2>1. rows' \subseteq Row /\ batches' \in Nat
    BY <1>3, <1>5 DEF StoreInv, TypeOK
  <2>2. settings' \in Settings /\ version' \in Int /\ version' >= -1
    BY <1>1 DEF Settings
  <2>3. archive' \subseteq [settings : Settings, stamp : Nat]
    BY <2>2, <1>1, <1>4 DEF StoreInv, TypeOK, Request
  <2>4. requests' \subseteq Request
    BY <1>2 DEF StoreInv, TypeOK
  <2>5. created' \subseteq InfraEntries \cup {"migrations"} /\ clock' \in 0 .. MaxStamp
        /\ ipc' \in [Installers -> {"idle", "creating", "recording"}]
    BY <1>3 DEF StoreInv, TypeOK
  <2>6. ilisted' \in [Installers -> SUBSET Row]
    BY DEF StoreInv, TypeOK
  <2>7. schema' \in Config
    BY <1>1
  <2>. QED  BY <1>2, <2>1, <2>2, <2>3, <2>4, <2>5, <2>6, <2>7 DEF TypeOK, DeployersTyped
<1>7. (StampMatchesBlob /\ SchemaFollowsSettings /\ NoneIsEmpty)'
  BY <1>1 DEF StampMatchesBlob, SchemaFollowsSettings, NoneIsEmpty
<1>8. SnapshotsCurrent'
  <2>. SUFFICES ASSUME NEW d \in Deployers
                PROVE  /\ token'[d] < version'
                       /\ listed'[d] \subseteq rows'
    BY <1>1, <1>2 DEF SnapshotsCurrent, DeployersTyped
  <2>1. token[d] \in Int /\ token[d] <= version /\ listed[d] \subseteq rows
    BY DEF StoreInv, TypeOK, SnapshotsCurrent
  <2>. QED  BY <2>1, <1>1, <1>2, <1>3 DEF After, Restarted
<1>9. RequestsCurrent'
  <2>. SUFFICES ASSUME NEW p \in requests'  PROVE  p.token < version' /\ p.token \in Int
    BY <1>1 DEF RequestsCurrent
  <2>1. p.token \in Int /\ p.token <= version
    BY <1>2 DEF StoreInv, TypeOK, Request, RequestsCurrent
  <2>. QED  BY <2>1, <1>1
<1>10. StampsIssued'
  <2>1. q.stamp <= clock
    BY DEF StoreInv, StampsIssued
  <2>2. \A r \in rows' : r.mig.stamp <= clock
    BY <2>1, <1>3, <1>5 DEF StoreInv, StampsIssued
  <2>3. \A a \in archive' : a.stamp <= clock
    BY <2>1, <1>1 DEF StoreInv, StampsIssued
  <2>. QED  BY <2>2, <2>3, <1>2 DEF StoreInv, StampsIssued, After, Restarted
<1>11. UsedIsOver'
  <2>1. \A p \in requests' : p.token < version'
    BY <1>1, <1>2 DEF StoreInv, TypeOK, Request, RequestsCurrent
  <2>2. \A d \in Deployers : token'[d] < version'
    BY <1>1, <1>2 DEF StoreInv, TypeOK, SnapshotsCurrent, After, Restarted
  <2>. QED  BY <2>1, <2>2 DEF UsedIsOver
<1>12. RequestParts'
  <2>. SUFFICES ASSUME NEW p \in requests'
                PROVE  (OwnParts(p) /\ OldParts(p, rows) /\ ListedParts(p))'
    BY DEF RequestParts
  <2>1. OwnParts(p) /\ OldParts(p, rows) /\ ListedParts(p)
    BY <1>2 DEF StoreInv, RequestParts
  <2>2. OwnParts(p)'
    BY <2>1 DEF OwnParts, Own
  <2>3. OldParts(p, rows)'
    BY <2>1, <1>3 DEF OldParts, Own
  <2>4. ListedParts(p)'
    BY <2>1, <1>3 DEF ListedParts, OldParts, Own
  <2>. QED  BY <2>2, <2>3, <2>4
<1>. QED  BY <1>6, <1>7, <1>8, <1>9, <1>10, <1>11, <1>12 DEF StoreInv

LEMMA ApplyBatchKeeps ==
  ASSUME StoreInv, NEW q \in requests, ApplyBatch(q)
  PROVE  StoreInv'
<1>1. CASE casVerify(q) /\ Commit(q) /\ Return(q, TRUE)
  BY <1>1, CommitKeeps DEF ApplyBatch
<1>2. CASE UNCHANGED dbVars /\ Return(q, FALSE)
  BY <1>2, ReturnKeeps DEF ApplyBatch
<1>. QED  BY <1>1, <1>2 DEF ApplyBatch

(* Setup touches no deployment: it adds rows with no stamp of one.         *)
LEMMA InstallKeeps ==
  ASSUME StoreInv, TypeOK', rows \subseteq rows',
         \A r \in rows' \ rows : r.mig.stamp = 0,
         UNCHANGED <<settings, version, archive, schema, clock, requests, deployerVars>>
  PROVE  StoreInv'
<1>. USE DEF deployerVars
<1>1. (StampMatchesBlob /\ SchemaFollowsSettings /\ RequestsCurrent /\ NoneIsEmpty)'
  BY DEF StoreInv, StampMatchesBlob, SchemaFollowsSettings, RequestsCurrent, NoneIsEmpty
<1>2. SnapshotsCurrent'
  BY DEF StoreInv, SnapshotsCurrent
<1>3. StampsIssued'
  <2>1. clock >= 0
    BY StoreAssumption DEF StoreInv, TypeOK
  <2>2. \A r \in rows' : r.mig.stamp <= clock
    BY <2>1 DEF StoreInv, StampsIssued
  <2>. QED  BY <2>2 DEF StoreInv, StampsIssued
<1>4. UsedIsOver'
  <2>1. \A x : x # 0 /\ Used(x)' => Used(x)
    BY DEF Used
  <2>2. \A q \in requests : q.stamp # 0
    BY DEF StoreInv, StampsIssued
  <2>3. \A d \in Deployers : pc[d] \in {"waiting", "failed"} => stamp[d] # 0
    BY DEF StoreInv, StampsIssued
  <2>4. \A q \in requests : Used(q.stamp)' => q.token < version
    BY <2>1, <2>2 DEF StoreInv, UsedIsOver
  <2>5. \A d \in Deployers : pc[d] \in {"waiting", "failed"} /\ Used(stamp[d])' => token[d] < version
    BY <2>1, <2>3 DEF StoreInv, UsedIsOver
  <2>. QED  BY <2>4, <2>5 DEF UsedIsOver, Used
<1>5. RequestParts'
  <2>. SUFFICES ASSUME NEW p \in requests
                PROVE  (OwnParts(p) /\ OldParts(p, rows) /\ ListedParts(p))'
    BY DEF RequestParts
  <2>1. OwnParts(p) /\ OldParts(p, rows) /\ ListedParts(p)
    BY DEF StoreInv, RequestParts
  <2>2. OwnParts(p)'
    BY <2>1 DEF OwnParts, Own
  <2>3. OldParts(p, rows)'
    BY <2>1 DEF OldParts, Own
  <2>4. ListedParts(p)'
    BY <2>1 DEF ListedParts, OldParts, Own
  <2>. QED  BY <2>2, <2>3, <2>4
<1>. QED  BY <1>1, <1>2, <1>3, <1>4, <1>5 DEF StoreInv

LEMMA SetupKeeps ==
  ASSUME StoreInv, NEW i \in Installers, Setup(i)
  PROVE  StoreInv'
<1>. USE DEF dbVars, deployerVars
<1>0. TypeOK
  BY DEF StoreInv
<1>1. CASE SetupStart(i)
  <2>1. TypeOK'
    BY <1>0, <1>1 DEF SetupStart, TypeOK
  <2>. QED  BY <1>1, <2>1, InstallKeeps DEF SetupStart
<1>2. CASE SetupList(i)
  <2>1. TypeOK'
    BY <1>0, <1>2 DEF SetupList, TypeOK
  <2>. QED  BY <1>2, <2>1, InstallKeeps DEF SetupList
<1>3. CASE SetupStop(i)
  <2>1. TypeOK'
    BY <1>0, <1>3 DEF SetupStop, TypeOK
  <2>. QED  BY <1>3, <2>1, InstallKeeps DEF SetupStop
<1>4. ASSUME NEW t \in InfraEntries \cup {"migrations"}, SetupCreate(i, t)
      PROVE  StoreInv'
  <2>1. TypeOK'
    BY <1>0, <1>4 DEF SetupCreate, installerVars, TypeOK
  <2>. QED  BY <1>4, <2>1, InstallKeeps DEF SetupCreate
<1>5. CASE SetupRecord(i)
  <2>. DEFINE new == {m \in {infraEntry(e) : e \in InfraEntries} :
                        \A r \in ilisted[i] : ~SameName(m, r.mig)}
              added == {[mig |-> m, batch |-> batches + 1] : m \in new}
  <2>1. /\ \/ rows' = rows /\ batches' = batches
           \/ rows' = rows \cup added /\ batches' = batches + 1
        /\ ipc' = [ipc EXCEPT ![i] = "idle"]
        /\ ilisted' = [ilisted EXCEPT ![i] = {}]
        /\ UNCHANGED <<created, settings, version, archive, schema, clock,
                       requests, deployerVars>>
    BY <1>5 DEF SetupRecord
  <2>2. \A m \in new : m \in Migration /\ m.stamp = 0
    <3>1. \A e \in InfraEntries : infraEntry(e) \in Migration /\ infraEntry(e).stamp = 0
      BY DEF infraEntry, Migration
    <3>. QED  BY <3>1
  <2>3. added \subseteq Row /\ \A r \in added : r.mig.stamp = 0
    <3>1. batches + 1 \in Nat
      BY <1>0 DEF TypeOK
    <3>. QED  BY <2>2, <3>1 DEF Row
  <2>. HIDE DEF added, new
  <2>4. TypeOK'
    <3>1. rows' \subseteq Row /\ batches' \in Nat
      BY <1>0, <2>1, <2>3 DEF TypeOK
    <3>. QED  BY <1>0, <2>1, <3>1 DEF TypeOK
  <2>. QED  BY <2>1, <2>3, <2>4, InstallKeeps
<1>. QED  BY <1>1, <1>2, <1>3, <1>4, <1>5 DEF Setup

-----------------------------------------------------------------------------
LEMMA StoreStep ==
  ASSUME StoreInv, [Next]_vars
  PROVE  StoreInv'
<1>1. ASSUME NEW d \in Deployers, Deploy(d)  PROVE  StoreInv'
  BY <1>1, FetchListKeeps, FetchSettingsKeeps, PostKeeps, FallbackKeeps, TimeoutKeeps,
     AbandonKeeps DEF Deploy
<1>2. ASSUME NEW q \in requests, Apply(q)  PROVE  StoreInv'
  BY <1>2, ApplyListKeeps, ApplyBatchKeeps DEF Apply
<1>3. ASSUME NEW i \in Installers, Setup(i)  PROVE  StoreInv'
  BY <1>3, SetupKeeps
<1>4. CASE UNCHANGED vars
  <2>1. TypeOK'
    BY <1>4 DEF vars, dbVars, deployerVars, installerVars, StoreInv, TypeOK
  <2>. QED  BY <1>4, <2>1, InstallKeeps DEF vars, dbVars
<1>. QED  BY <1>1, <1>2, <1>3, <1>4 DEF Next

(* The strengthening of the invariants below is inductive.                 *)
THEOREM StoreInvariant == Spec => []StoreInv
<1>1. Init => StoreInv
  BY StoreInit
<1>2. StoreInv /\ [Next]_vars => StoreInv'
  BY StoreStep
<1>. QED  BY <1>1, <1>2, PTL DEF Spec

(* Every variable keeps its type.                                          *)
THEOREM TypeCorrect == Spec => []TypeOK
<1>1. StoreInv => TypeOK
  BY DEF StoreInv
<1>. QED  BY <1>1, StoreInvariant, PTL

(* The settings blob and the version counter never disagree.               *)
THEOREM StampCorrect == Spec => []StampMatchesBlob
<1>1. StoreInv => StampMatchesBlob
  BY DEF StoreInv
<1>. QED  BY <1>1, StoreInvariant, PTL

(* The schema of the database is the one the stored settings declare, for  *)
(* any number of deployers, whatever interleaving, loss or repetition.     *)
THEOREM NoDrift == Spec => []SchemaFollowsSettings
<1>1. StoreInv => SchemaFollowsSettings
  BY DEF StoreInv
<1>. QED  BY <1>1, StoreInvariant, PTL

(* A change of the counter adds one, and commits a post generated from the *)
(* configuration it replaces.                                              *)
THEOREM UpdatesNotLost == Spec => NoLostUpdate
<1>1. StoreInv /\ [Next]_vars => [CommitReplacesItsBase]_vars
  <2>. SUFFICES ASSUME StoreInv, Next, version' # version
                PROVE  CommitReplacesItsBase
    BY DEF vars, dbVars, CommitReplacesItsBase
  <2>1. PICK q \in requests : ApplyBatch(q)
    BY DEF Next, Deploy, Apply, Setup, FetchList, FetchSettings, Post, Fallback, Timeout,
       Abandon, ApplyList, SetupStart, SetupCreate, SetupList, SetupRecord, SetupStop, dbVars
  <2>2. q.step = "batch" /\ casVerify(q) /\ Commit(q) /\ Return(q, TRUE)
    BY <2>1 DEF ApplyBatch, dbVars
  <2>3. /\ q.base = settings.tables /\ version' = version + 1
        /\ settings'.tables = q.goal
    BY <2>2, CommitFacts
  <2>4. q \in requests \ requests'
    BY <2>2 DEF Return
  <2>. QED  BY <2>3, <2>4 DEF CommitReplacesItsBase
<1>. QED  BY <1>1, StoreInvariant, PTL DEF Spec, NoLostUpdate

-----------------------------------------------------------------------------
(* The refinement.                                                         *)

Proposed(rs) == {[base |-> q.base, goal |-> q.goal] : q \in rs}

(* Without a request, its proposal is gone or another request carries it.  *)
LEMMA ProposedWithout ==
  ASSUME NEW rs, NEW q \in rs
  PROVE  LET p == [base |-> q.base, goal |-> q.goal]
         IN  Proposed(rs \ {q}) \in {Proposed(rs), Proposed(rs) \ {p}}
<1>. DEFINE P(x) == [base |-> x.base, goal |-> x.goal]
<1>1. CASE \E x \in rs \ {q} : P(x) = P(q)
  BY <1>1 DEF Proposed
<1>2. CASE ~ \E x \in rs \ {q} : P(x) = P(q)
  BY <1>2 DEF Proposed
<1>. QED  BY <1>1, <1>2

(* A request more is a proposal made.                                      *)
LEMMA NewRequestProposes ==
  ASSUME NEW r, r.base \in Config, r.goal \in Config, requests' = requests \cup {r},
         UNCHANGED <<settings, version, schema>>
  PROVE  Atomic!ANext
<1>. DEFINE p == [base |-> r.base, goal |-> r.goal]
<1>1. p \in Atomic!Proposal
  BY DEF Atomic!Proposal
<1>2. Proposed(requests') = Proposed(requests) \cup {p}
  BY DEF Proposed
<1>3. Atomic!Propose(p)
  BY <1>2 DEF Atomic!Propose, Proposed
<1>. QED  BY <1>1, <1>3 DEF Atomic!ANext

(* A request that ends without a change is a proposal withdrawn, unless    *)
(* another request proposes the same.                                      *)
LEMMA EndedRequestWithdraws ==
  ASSUME TypeOK, NEW q \in requests, requests' = requests \ {q},
         UNCHANGED <<settings, version, schema>>
  PROVE  [Atomic!ANext]_Atomic!avars
<1>. DEFINE p == [base |-> q.base, goal |-> q.goal]
<1>1. p \in Atomic!Proposal
  BY DEF TypeOK, Request, Atomic!Proposal
<1>2. Proposed(requests') \in {Proposed(requests), Proposed(requests) \ {p}}
  BY ProposedWithout
<1>3. CASE Proposed(requests') = Proposed(requests)
  BY <1>3 DEF Atomic!avars, Proposed
<1>4. CASE Proposed(requests') = Proposed(requests) \ {p}
  <2>1. Atomic!Withdraw(p)
    BY <1>4 DEF Atomic!Withdraw, Proposed
  <2>. QED  BY <1>1, <2>1 DEF Atomic!ANext
<1>. QED  BY <1>2, <1>3, <1>4

(* A commit is a proposal that takes effect as a whole.                    *)
LEMMA CommitTakesEffect ==
  ASSUME StoreInv, NEW q \in requests, q.step = "batch", casVerify(q), Commit(q),
         requests' = requests \ {q}
  PROVE  Atomic!ANext
<1>. DEFINE p == [base |-> q.base, goal |-> q.goal]
<1>1. p \in Atomic!Proposal
  BY DEF StoreInv, TypeOK, Request, Atomic!Proposal
<1>2. /\ q.base = settings.tables /\ schema' = q.goal
      /\ version' = version + 1
      /\ settings' = [tables |-> q.goal, version |-> version + 1]
  BY CommitFacts
<1>3. Proposed(requests') \in {Proposed(requests), Proposed(requests) \ {p}}
  BY ProposedWithout
<1>4. p \in Proposed(requests)
  BY DEF Proposed
<1>5. Atomic!TakeEffect(p)
  BY <1>2, <1>3, <1>4 DEF Atomic!TakeEffect, Proposed
<1>. QED  BY <1>1, <1>5 DEF Atomic!ANext

LEMMA ApplyRefines ==
  ASSUME StoreInv, NEW q \in requests, Apply(q)
  PROVE  [Atomic!ANext]_Atomic!avars
<1>1. CASE ApplyBatch(q) /\ casVerify(q) /\ Commit(q) /\ Return(q, TRUE)
  BY <1>1, CommitTakesEffect DEF ApplyBatch, Return
<1>2. CASE UNCHANGED dbVars /\ Return(q, FALSE)
  BY <1>2, EndedRequestWithdraws DEF StoreInv, dbVars, Return
<1>3. CASE UNCHANGED dbVars /\ requests' = (requests \ {q})
                \cup {[q EXCEPT !.step = "batch", !.last = rows]}
  <2>. DEFINE r == [q EXCEPT !.step = "batch", !.last = rows]
  <2>1. r.base = q.base /\ r.goal = q.goal
    BY DEF StoreInv, TypeOK, Request
  <2>. HIDE DEF r
  <2>2. Proposed(requests') = Proposed(requests)
    BY <1>3, <2>1 DEF Proposed, r
  <2>. QED  BY <1>3, <2>2 DEF Atomic!avars, Proposed, dbVars
<1>. QED  BY <1>1, <1>2, <1>3 DEF Apply, ApplyList, ApplyBatch

LEMMA DeployRefines ==
  ASSUME StoreInv, NEW d \in Deployers, Deploy(d)
  PROVE  [Atomic!ANext]_Atomic!avars
<1>1. CASE FetchList(d) \/ FetchSettings(d) \/ Timeout(d) \/ Abandon(d)
  BY <1>1 DEF FetchList, FetchSettings, Timeout, Abandon, dbVars, Atomic!avars
<1>2. CASE Post(d)
  <2>1. PICK g \in Config : requests' = requests \cup {RequestOf(d, g, clock', "direct")}
    BY <1>2 DEF Post
  <2>2. LET r == RequestOf(d, g, clock', "direct")
        IN  r.base \in Config /\ r.goal \in Config
    BY DEF StoreInv, TypeOK, RequestOf
  <2>. QED  BY <1>2, <2>1, <2>2, NewRequestProposes DEF Post, dbVars
<1>3. CASE Fallback(d)
  <2>1. LET r == RequestOf(d, goal[d], stamp[d], "worker")
        IN  r.base \in Config /\ r.goal \in Config
    BY DEF StoreInv, TypeOK, RequestOf
  <2>. QED  BY <1>3, <2>1, NewRequestProposes DEF Fallback, dbVars
<1>. QED  BY <1>1, <1>2, <1>3 DEF Deploy

LEMMA SetupRefines ==
  ASSUME NEW i \in Installers, Setup(i)
  PROVE  UNCHANGED Atomic!avars
BY DEF Setup, SetupStart, SetupCreate, SetupList, SetupRecord, SetupStop, dbVars, Atomic!avars

(* The store is an atomic deployment store: what several deployers, lost   *)
(* answers and repeated posts do to it is a sequence of whole deployments, *)
(* each made while the configuration it was proposed against was current.  *)
THEOREM StoreIsAtomic == Spec => ImplementsAtomicDeploy
<1>1. Init => Atomic!AInit
  BY DEF Init, NoSettings, Atomic!AInit
<1>2. StoreInv /\ [Next]_vars => [Atomic!ANext]_Atomic!avars
  <2>. SUFFICES ASSUME StoreInv, [Next]_vars  PROVE  [Atomic!ANext]_Atomic!avars
    OBVIOUS
  <2>1. CASE UNCHANGED vars
    BY <2>1 DEF vars, dbVars, Atomic!avars
  <2>2. ASSUME NEW d \in Deployers, Deploy(d)  PROVE  [Atomic!ANext]_Atomic!avars
    BY <2>2, DeployRefines
  <2>3. ASSUME NEW q \in requests, Apply(q)  PROVE  [Atomic!ANext]_Atomic!avars
    BY <2>3, ApplyRefines
  <2>4. ASSUME NEW i \in Installers, Setup(i)  PROVE  [Atomic!ANext]_Atomic!avars
    BY <2>4, SetupRefines
  <2>. QED  BY <2>1, <2>2, <2>3, <2>4 DEF Next
<1>. QED  BY <1>1, <1>2, StoreInvariant, PTL DEF Spec, ImplementsAtomicDeploy, Atomic!ASpec

-----------------------------------------------------------------------------
(* The record of the migrations.                                           *)

(* Ids grow: a batch inserts behind every row there is.                    *)
BatchesBound == \A r \in rows : r.batch <= batches

ReplayInv == StoreInv /\ BatchesBound /\ ReplayByIdGivesSchema

(* Rows about no user table leave the replay as it was.                    *)
LEMMA OtherRowsKeepReplay ==
  ASSUME ReplayByIdGivesSchema, NEW rs, rows' = rows \cup rs, schema' = schema,
         \A r \in rs : r.mig.table \notin Tables
  PROVE  ReplayByIdGivesSchema'
<1>1. \A t \in Tables : LastAbout(t)' = LastAbout(t)
  BY DEF LastAbout
<1>. QED  BY <1>1 DEF ReplayByIdGivesSchema

(* The new rows of a commit are the last about the tables it changes.      *)
LEMMA CommitReplays ==
  ASSUME ReplayInv, NEW q \in requests, q.step = "batch", casVerify(q), Commit(q)
  PROVE  ReplayByIdGivesSchema' /\ BatchesBound'
<1>. DEFINE new == {[mig |-> m, batch |-> batches + 1] : m \in Fresh(q)}
<1>1. /\ rows' = rows \cup new
      /\ batches' = IF Fresh(q) = {} THEN batches ELSE batches + 1
  BY DEF Commit
<1>2. /\ batches \in Nat /\ \A r \in rows : r.batch \in Nat /\ r.batch <= batches
  BY DEF ReplayInv, StoreInv, TypeOK, Row, BatchesBound
<1>3. BatchesBound'
  BY <1>1, <1>2 DEF BatchesBound
<1>4. Fresh(q) \subseteq Own(q) /\ OwnParts(q) /\ schema' = q.goal
  BY CommitFacts DEF ReplayInv, StoreInv, RequestParts
<1>5. \A m \in Fresh(q) : m.index \in Nat
  BY DEF ReplayInv, StoreInv, TypeOK, Request, Migration, Fresh
<1>6. ASSUME NEW t \in Tables
      PROVE  \/ LastAbout(t)' = {} /\ schema'[t] = NoTable
             \/ \E r \in LastAbout(t)' : r.mig.to = schema'[t]
  <2>1. CASE \E m \in Fresh(q) : m.table = t
    <3>1. PICK m \in Fresh(q) : m.table = t
      BY <2>1
    <3>2. m.to = schema'[t]
      BY <3>1, <1>4 DEF OwnParts
    <3>. DEFINE r == [mig |-> m, batch |-> batches + 1]
    <3>3. r \in rows' /\ r.mig = m /\ r.batch = batches + 1
      BY <1>1, <3>1
    <3>. HIDE DEF r
    <3>4. ASSUME NEW s \in rows', s.mig.table = t  PROVE  ~Earlier(r, s)
      <4>1. CASE s \in rows
        BY <4>1, <1>2, <3>3 DEF Earlier
      <4>2. CASE s \in new
        <5>1. s.batch = batches + 1 /\ s.mig \in Fresh(q)
          BY <4>2
        <5>2. s.mig = m
          BY <5>1, <3>1, <3>4, <1>4 DEF OwnParts
        <5>. QED  BY <5>1, <5>2, <3>3, <1>2, <1>5, <3>1 DEF Earlier
      <4>. QED  BY <4>1, <4>2, <1>1
    <3>5. r \in LastAbout(t)'
      BY <3>3, <3>4, <3>1 DEF LastAbout, Earlier
    <3>. QED  BY <3>5, <3>3, <3>2
  <2>2. CASE ~ \E m \in Fresh(q) : m.table = t
    <3>1. schema'[t] = schema[t]
      BY <2>2 DEF Commit
    <3>2. \A r \in new : r.mig.table # t
      BY <2>2
    <3>3. LastAbout(t)' = LastAbout(t)
      BY <1>1, <3>2 DEF LastAbout, Earlier
    <3>. QED  BY <3>1, <3>3 DEF ReplayInv, ReplayByIdGivesSchema
  <2>. QED  BY <2>1, <2>2
<1>. QED  BY <1>3, <1>6 DEF ReplayByIdGivesSchema

LEMMA ReplayStep ==
  ASSUME ReplayInv, [Next]_vars
  PROVE  ReplayInv'
<1>0. StoreInv'
  BY StoreStep DEF ReplayInv
<1>1. CASE UNCHANGED <<rows, batches, schema>>
  BY <1>0, <1>1 DEF ReplayInv, BatchesBound, ReplayByIdGivesSchema, LastAbout
<1>2. ASSUME NEW q \in requests, q.step = "batch", casVerify(q), Commit(q)
      PROVE  ReplayInv'
  BY <1>0, <1>2, CommitReplays DEF ReplayInv
<1>3. ASSUME NEW i \in Installers, SetupRecord(i), rows' # rows
      PROVE  ReplayInv'
  <2>. DEFINE new == {m \in {infraEntry(e) : e \in InfraEntries} :
                        \A r \in ilisted[i] : ~SameName(m, r.mig)}
              added == {[mig |-> m, batch |-> batches + 1] : m \in new}
  <2>1. rows' = rows \cup added /\ batches' = batches + 1 /\ schema' = schema
    BY <1>3 DEF SetupRecord
  <2>2. \A r \in added : r.mig.table \notin Tables /\ r.batch = batches + 1
    BY StoreAssumption DEF infraEntry
  <2>3. batches \in Nat /\ \A r \in rows : r.batch \in Nat
    BY DEF ReplayInv, StoreInv, TypeOK, Row
  <2>. HIDE DEF added
  <2>4. BatchesBound'
    BY <2>1, <2>2, <2>3 DEF ReplayInv, BatchesBound
  <2>5. ReplayByIdGivesSchema'
    BY <2>1, <2>2, OtherRowsKeepReplay DEF ReplayInv
  <2>. QED  BY <1>0, <2>4, <2>5 DEF ReplayInv
<1>4. CASE UNCHANGED vars
  BY <1>1, <1>4 DEF vars, dbVars
<1>5. ASSUME NEW d \in Deployers, Deploy(d)  PROVE  ReplayInv'
  BY <1>1, <1>5 DEF Deploy, FetchList, FetchSettings, Post, Fallback, Timeout, Abandon, dbVars
<1>6. ASSUME NEW q \in requests, Apply(q)  PROVE  ReplayInv'
  BY <1>1, <1>2, <1>6 DEF Apply, ApplyList, ApplyBatch, dbVars
<1>7. ASSUME NEW i \in Installers, Setup(i)  PROVE  ReplayInv'
  <2>1. CASE SetupRecord(i)
    <3>1. CASE rows' # rows
      BY <2>1, <3>1, <1>3
    <3>2. CASE rows' = rows
      <4>1. schema' = schema /\ batches' \in {batches, batches + 1}
        BY <2>1 DEF SetupRecord
      <4>2. BatchesBound'
        BY <3>2, <4>1 DEF ReplayInv, StoreInv, TypeOK, Row, BatchesBound
      <4>3. ReplayByIdGivesSchema'
        BY <3>2, <4>1 DEF ReplayInv, ReplayByIdGivesSchema, LastAbout
      <4>. QED  BY <1>0, <4>2, <4>3 DEF ReplayInv
    <3>. QED  BY <3>1, <3>2
  <2>2. CASE ~SetupRecord(i)
    BY <1>1, <1>7, <2>2 DEF Setup, SetupStart, SetupCreate, SetupList, SetupStop, dbVars
  <2>. QED  BY <2>1, <2>2
<1>. QED  BY <1>4, <1>5, <1>6, <1>7 DEF Next

(* The migrations recorded, replayed in the order of their ids on an empty *)
(* database, give the schema the database has.                             *)
THEOREM ReplayGivesSchema == Spec => []ReplayByIdGivesSchema
<1>1. Init => ReplayInv
  <2>1. Init => BatchesBound /\ ReplayByIdGivesSchema
    BY DEF Init, BatchesBound, ReplayByIdGivesSchema, LastAbout, EmptyConfig
  <2>. QED  BY <2>1, StoreInit DEF ReplayInv
<1>2. ReplayInv /\ [Next]_vars => ReplayInv'
  BY ReplayStep
<1>3. ReplayInv => ReplayByIdGivesSchema
  BY DEF ReplayInv
<1>. QED  BY <1>1, <1>2, <1>3, PTL DEF Spec
-----------------------------------------------------------------------------
(***************************************************************************)
(* The deploy command.                                                     *)
(***************************************************************************)

(* The store only counts up, so a version is never given twice: what is    *)
(* committed next is newer than every copy.                                *)
OneConfigPerVersion ==
  /\ \A a, b \in copies : a.version = b.version => a = b
  /\ \A a \in copies : a.version <= stored.version

(* A configuration without tables, or none, or one that was committed.     *)
Harmless(bundle) == bundle.config \in {NoConfig, NoTables} \/ bundle \in copies

(* Settings that are stored have been committed, and while none are stored *)
(* none were; what a remote run has read serves no uncommitted table.      *)
ReadIsCommitted ==
  /\ stored \in copies \cup {Nothing}
  /\ stored = Nothing => copies = {}
  /\ target = "remote" => \A r \in Runners : Harmless(last[r])

(* A run about to deploy the final worker has applied what it bundles.     *)
SavedIsCommitted ==
  \A r \in Runners :
    /\ at[r] # "idle" => chosen[r] \in Declared
    /\ at[r] = "saved" /\ Differs(r) => deploySettings(r) \in copies

RemoteServesCommitted ==
  target = "remote" => Harmless(running)

DeployInv ==
  /\ DeployTypeOK
  /\ OneConfigPerVersion /\ ReadIsCommitted /\ SavedIsCommitted
  /\ RemoteServesCommitted

-----------------------------------------------------------------------------
LEMMA NothingFields ==
  /\ Nothing \in Bundle /\ Nothing.config = NoConfig /\ Nothing.version = -1
  /\ \A config, v : Stamped(config, v).config = config /\ Stamped(config, v).version = v
  /\ \A config \in Declared \cup {NoConfig, NoTables}, v \in Int : Stamped(config, v) \in Bundle
BY DEF Nothing, Stamped, Bundle

LEMMA DeployInitInv == DeployInit => DeployInv
<1>. SUFFICES ASSUME DeployInit  PROVE DeployInv
  OBVIOUS
<1>. USE NothingFields, DeployAssumption DEF DeployInit, Harmless
<1>1. DeployTypeOK
  <2>1. /\ at \in [Runners -> {"idle"}] /\ chosen \in [Runners -> {NoConfig}]
        /\ last \in [Runners -> {Nothing}]
    OBVIOUS
  <2>2. edits \in 0 .. MaxEdits /\ unheard \in 0 .. MaxUnheard
    OBVIOUS
  <2>. QED
    BY <2>1, <2>2 DEF DeployTypeOK
<1>2. OneConfigPerVersion /\ ReadIsCommitted /\ SavedIsCommitted /\ RemoteServesCommitted
  BY DEF OneConfigPerVersion, ReadIsCommitted, SavedIsCommitted, RemoteServesCommitted
<1>. QED
  BY <1>1, <1>2 DEF DeployInv

(* A step that leaves the store alone, moves one run forward and leaves    *)
(* the worker what it may serve.                                           *)
LEMMA StepKeeps ==
  ASSUME DeployInv, NEW r \in Runners, at[r] # "idle",
         NEW step \in {"secrets", "new", "setup", "apply", "fallback", "saved"}, DeployStep(r, step),
         step = "saved" => ~Differs(r) \/ deploySettings(r) \in copies',
         UNCHANGED <<target, wanted, stored, copies, edits, unheard>>,
         infra' \in {"none", "created", "recorded"}, secrets' \in BOOLEAN, running' \in Bundle, RemoteServesCommitted'
  PROVE  DeployInv'
<1>. USE DEF DeployInv, DeployStep, Harmless
<1>1. at' \in [Runners -> {"idle", "read", "new", "secrets", "setup", "apply", "fallback", "saved"}]
      /\ at'[r] = step /\ \A q \in Runners \ {r} : at'[q] = at[q]
  BY DEF DeployTypeOK
<1>2. DeployTypeOK'
  BY <1>1 DEF DeployTypeOK
<1>3. OneConfigPerVersion' /\ ReadIsCommitted'
  BY DEF OneConfigPerVersion, ReadIsCommitted
<1>4. SavedIsCommitted'
  BY <1>1 DEF SavedIsCommitted, Differs, deploySettings
<1>. QED
  BY <1>2, <1>3, <1>4

(* A run that is over has read and chosen nothing.                         *)
LEMMA OverKeeps ==
  ASSUME DeployInv, NEW r \in Runners, Over(r),
         UNCHANGED <<target, wanted, stored, copies, secrets, edits, unheard>>,
         infra' \in {"none", "created", "recorded"}, running' \in Bundle, RemoteServesCommitted'
  PROVE  DeployInv'
<1>. USE NothingFields DEF DeployInv, Over, Harmless
<1>1. /\ at'[r] = "idle" /\ last'[r] = Nothing
      /\ \A q \in Runners \ {r} : at'[q] = at[q] /\ chosen'[q] = chosen[q] /\ last'[q] = last[q]
  BY DEF DeployTypeOK
<1>2. DeployTypeOK'
  BY DEF DeployTypeOK
<1>3. OneConfigPerVersion' /\ ReadIsCommitted'
  BY <1>1 DEF OneConfigPerVersion, ReadIsCommitted
<1>4. SavedIsCommitted'
  BY <1>1 DEF SavedIsCommitted, Differs, deploySettings
<1>. QED
  BY <1>2, <1>3, <1>4

(* A commit of run r is newer than every copy, and leaves the copies that  *)
(* runs have read or applied where they are.                               *)
LEMMA FinalCommitKeeps ==
  ASSUME DeployInv, NEW r \in Runners, at[r] # "idle", CommitSettings(r)
  PROVE  /\ OneConfigPerVersion'
         /\ stored' \in Bundle /\ copies' \subseteq Bundle
         /\ stored' \in copies' /\ copies \subseteq copies'
         /\ deploySettings(r) \in copies' /\ stored' # Nothing
<1>. USE NothingFields DEF DeployInv, CommitSettings
<1>1. /\ chosen[r] \in Declared /\ last[r] \in Bundle /\ last[r].version \in Int
      /\ \A a \in copies : a.version \in Int
  BY DEF SavedIsCommitted, DeployTypeOK, Bundle
<1>2. /\ deploySettings(r) \in Bundle
      /\ deploySettings(r).version = stored.version + 1
  BY <1>1 DEF deploySettings
<1>3. \A a \in copies : a.version < deploySettings(r).version
  BY <1>1, <1>2 DEF OneConfigPerVersion
<1>4. OneConfigPerVersion'
  BY <1>1, <1>2, <1>3 DEF OneConfigPerVersion
<1>5. stored' # Nothing
  BY <1>1, DeployAssumption DEF deploySettings
<1>. QED
  BY <1>2, <1>4, <1>5 DEF DeployTypeOK

-----------------------------------------------------------------------------
(* The same steps with a commit before them.                               *)
LEMMA MigrateKeeps ==
  ASSUME DeployInv, NEW r \in Runners, Migrate(r)  PROVE DeployInv'
<1>. USE DEF DeployInv, Migrate, Reached, DeployStep, Harmless
<1>1. /\ at[r] # "idle" /\ at'[r] = "saved"
      /\ at' \in [Runners -> {"idle", "read", "new", "secrets", "setup", "apply", "fallback", "saved"}]
      /\ \A q \in Runners \ {r} : at'[q] = at[q]
  BY DEF DeployTypeOK
<1>2. /\ OneConfigPerVersion' /\ stored' \in Bundle /\ copies' \subseteq Bundle
      /\ stored' \in copies' /\ copies \subseteq copies' /\ deploySettings(r) \in copies'
      /\ stored' # Nothing
  BY <1>1, FinalCommitKeeps
<1>3. DeployTypeOK'
  BY <1>1, <1>2 DEF DeployTypeOK
<1>4. ReadIsCommitted' /\ RemoteServesCommitted'
  BY <1>2 DEF ReadIsCommitted, RemoteServesCommitted
<1>5. SavedIsCommitted'
  BY <1>1, <1>2 DEF SavedIsCommitted, Differs, deploySettings
<1>. QED
  BY <1>2, <1>3, <1>4, <1>5

LEMMA UnheardKeeps ==
  ASSUME DeployInv, NEW r \in Runners, ApplyUnheard(r)  PROVE DeployInv'
<1>. USE NothingFields DEF DeployInv, ApplyUnheard, Reached, Harmless
<1>1. at[r] # "idle"
  OBVIOUS
<1>2. /\ OneConfigPerVersion' /\ stored' \in Bundle /\ copies' \subseteq Bundle
      /\ stored' \in copies' /\ copies \subseteq copies' /\ stored' # Nothing
  BY <1>1, FinalCommitKeeps
<1>3. /\ at'[r] \in {"idle", "fallback"}
      /\ at' \in [Runners -> {"idle", "read", "new", "secrets", "setup", "apply", "fallback", "saved"}]
      /\ chosen' \in [Runners -> Declared \cup {NoConfig}] /\ last' \in [Runners -> Bundle]
      /\ folder' \in [Runners -> BOOLEAN]
      /\ at'[r] = "idle" \/ chosen'[r] = chosen[r]
      /\ last'[r] \in {last[r], Nothing}
      /\ \A q \in Runners \ {r} : at'[q] = at[q] /\ chosen'[q] = chosen[q] /\ last'[q] = last[q]
  BY DEF DeployTypeOK, DeployStep, Over
<1>4. running' \in Bundle /\ (target = "remote" => running' = running)
  <2>1. running' = running \/ (target # "remote" /\ running' = last[r])
    BY DEF Revert, DeployTypeOK
  <2>. QED
    BY <2>1 DEF DeployTypeOK
<1>5. DeployTypeOK'
  BY <1>2, <1>3, <1>4, DeployAssumption DEF DeployTypeOK
<1>6. ReadIsCommitted' /\ RemoteServesCommitted'
  BY <1>2, <1>3, <1>4 DEF ReadIsCommitted, RemoteServesCommitted
<1>7. SavedIsCommitted'
  BY <1>1, <1>2, <1>3 DEF SavedIsCommitted, Differs, deploySettings
<1>. QED
  BY <1>2, <1>5, <1>6, <1>7

LEMMA GenerateKeeps ==
  ASSUME DeployInv, NEW r \in Runners, Generate(r)  PROVE DeployInv'
<1>. USE NothingFields DEF DeployInv, Generate, Harmless
<1>1. /\ Deployed \in Bundle
      /\ target = "remote" => Harmless(Deployed)
  <2>1. CASE AssumedFresh \/ infra = "none"
    BY <2>1 DEF Deployed
  <2>2. CASE ~(AssumedFresh \/ infra = "none") /\ AsksWorker
    <3>1. Deployed = Stamped(running.config, -1) /\ stored = Nothing
      BY <2>2 DEF Deployed, AsksWorker
    <3>2. running.config \in Declared \cup {NoConfig, NoTables}
      BY DEF DeployTypeOK, Bundle
    <3>3. target = "remote" => running.config \in {NoConfig, NoTables}
      BY <3>1 DEF RemoteServesCommitted, ReadIsCommitted
    <3>. QED
      BY <3>1, <3>2, <3>3
  <2>3. CASE ~(AssumedFresh \/ infra = "none") /\ ~AsksWorker
    BY <2>3 DEF Deployed, ReadIsCommitted, DeployTypeOK
  <2>. QED
    BY <2>1, <2>2, <2>3
<1>2. /\ at'[r] = "read" /\ chosen'[r] = wanted /\ last'[r] = Deployed
      /\ \A q \in Runners \ {r} : at'[q] = at[q] /\ chosen'[q] = chosen[q] /\ last'[q] = last[q]
  BY DEF DeployTypeOK
<1>3. DeployTypeOK'
  <2>1. folder' \in [Runners -> BOOLEAN]
    BY DEF DeployTypeOK
  <2>. QED
    BY <1>1, <2>1 DEF DeployTypeOK
<1>4. OneConfigPerVersion' /\ ReadIsCommitted' /\ RemoteServesCommitted'
  BY <1>1, <1>2 DEF OneConfigPerVersion, ReadIsCommitted, RemoteServesCommitted
<1>5. SavedIsCommitted'
  BY <1>2 DEF SavedIsCommitted, Differs, deploySettings, DeployTypeOK
<1>. QED
  BY <1>3, <1>4, <1>5

-----------------------------------------------------------------------------
LEMMA DeployNextInv == DeployInv /\ [DeployNext]_deployVars => DeployInv'
<1>. SUFFICES ASSUME DeployInv, [DeployNext]_deployVars  PROVE DeployInv'
  OBVIOUS
<1>. USE NothingFields DEF DeployInv, Harmless
<1>1. CASE Edit
  <2>1. DeployTypeOK'
    BY <1>1, DeployAssumption DEF Edit, runnerVars, DeployTypeOK
  <2>. QED
    BY <1>1, <2>1 DEF Edit, runnerVars, OneConfigPerVersion, ReadIsCommitted, SavedIsCommitted,
         RemoteServesCommitted, Differs, deploySettings
<1>2. ASSUME NEW r \in Runners, Generate(r)  PROVE DeployInv'
  BY <1>2, GenerateKeeps
<1>3. ASSUME NEW r \in Runners, ListDeployments(r)  PROVE DeployInv'
  <2>. DEFINE step == IF ~Differs(r) THEN "saved"
                      ELSE IF target = "local" \/ running = Nothing THEN "new" ELSE "setup"
  <2>1. /\ running' \in Bundle /\ RemoteServesCommitted' /\ secrets' \in BOOLEAN
        /\ infra' \in {"none", "created", "recorded"}
    BY <1>3 DEF ListDeployments, RemoteServesCommitted, DeployTypeOK
  <2>2. step \in {"secrets", "new", "setup", "apply", "fallback", "saved"} /\ (step = "saved" => ~Differs(r))
    OBVIOUS
  <2>3. DeployStep(r, step) /\ at[r] # "idle"
    BY <1>3 DEF ListDeployments
  <2>. HIDE DEF step
  <2>. QED
    BY <1>3, <2>1, <2>2, <2>3, StepKeeps DEF ListDeployments
<1>4. ASSUME NEW r \in Runners, FirstDeploy(r)  PROVE DeployInv'
  <2>1. CASE target = "remote"
    <3>1. running' = Stamped(NoTables, -1) /\ UNCHANGED <<target, infra, secrets>>
      BY <1>4, <2>1 DEF FirstDeploy
    <3>2. running' \in Bundle /\ RemoteServesCommitted'
      BY <3>1 DEF RemoteServesCommitted
    <3>. QED
      BY <1>4, <2>1, <3>1, <3>2, StepKeeps DEF FirstDeploy, DeployTypeOK
  <2>2. CASE target # "remote"
    <3>1. /\ running' = Stamped(chosen[r], -1) /\ chosen[r] \in Declared \cup {NoConfig}
          /\ UNCHANGED <<target, infra, secrets>>
      BY <1>4, <2>2 DEF FirstDeploy, DeployTypeOK
    <3>2. running' \in Bundle
      BY <3>1, NothingFields
    <3>3. /\ RemoteServesCommitted' /\ secrets' \in BOOLEAN
          /\ infra' \in {"none", "created", "recorded"}
      BY <2>2, <3>1 DEF RemoteServesCommitted, DeployTypeOK
    <3>. QED
      BY <1>4, <2>2, <3>2, <3>3, StepKeeps DEF FirstDeploy
  <2>. QED
    BY <2>1, <2>2
<1>5. ASSUME NEW r \in Runners, DeploySecrets(r)  PROVE DeployInv'
  <2>1. /\ running' \in Bundle /\ RemoteServesCommitted' /\ secrets' \in BOOLEAN
        /\ infra' \in {"none", "created", "recorded"}
    BY <1>5 DEF DeploySecrets, RemoteServesCommitted, DeployTypeOK
  <2>. QED
    BY <1>5, <2>1, StepKeeps DEF DeploySecrets
<1>10. ASSUME NEW r \in Runners, SetupDatabase(r)  PROVE DeployInv'
  <2>1. /\ running' \in Bundle /\ RemoteServesCommitted' /\ secrets' \in BOOLEAN
        /\ infra' \in {"none", "created", "recorded"}
    BY <1>10 DEF SetupDatabase, RemoteServesCommitted, DeployTypeOK
  <2>. QED
    BY <1>10, <2>1, StepKeeps DEF SetupDatabase
<1>6. ASSUME NEW r \in Runners, ApplyFails(r)  PROVE DeployInv'
  <2>1. /\ running' \in Bundle /\ RemoteServesCommitted' /\ secrets' \in BOOLEAN
        /\ infra' \in {"none", "created", "recorded"}
    BY <1>6 DEF ApplyFails, RemoteServesCommitted, DeployTypeOK
  <2>. QED
    BY <1>6, <2>1, StepKeeps DEF ApplyFails
<1>7. ASSUME NEW r \in Runners, FinalDeploy(r)  PROVE DeployInv'
  <2>1. Bundled(r) \in copies \/ ~(target = "remote" \/ Differs(r))
    <3>1. chosen[r] \in Declared /\ (Differs(r) => deploySettings(r) \in copies)
      BY <1>7 DEF FinalDeploy, SavedIsCommitted
    <3>2. ~Differs(r) /\ target = "remote" => last[r] \in copies
      BY <3>1, DeployAssumption DEF ReadIsCommitted, Differs
    <3>. QED
      BY <3>1, <3>2 DEF Bundled
  <2>2. /\ running' \in Bundle /\ RemoteServesCommitted'
        /\ infra' \in {"none", "created", "recorded"}
    BY <1>7, <2>1 DEF FinalDeploy, RemoteServesCommitted, DeployTypeOK
  <2>. QED
    BY <1>7, <2>2, OverKeeps DEF FinalDeploy
<1>8. ASSUME NEW r \in Runners,
             FinalDeployFails(r) \/ Killed(r) \/ Throw(r) \/ SetupStops(r)
      PROVE  DeployInv'
  <2>1. /\ Over(r) /\ UNCHANGED <<target, wanted, stored, copies, secrets, edits, unheard>>
        /\ infra' \in {"none", "created", "recorded"}
        /\ running' = running \/ Revert(r)
    BY <1>8 DEF FinalDeployFails, Killed, Throw, SetupStops, DeployTypeOK
  <2>2. running' \in Bundle /\ RemoteServesCommitted'
    BY <2>1 DEF Revert, RemoteServesCommitted, DeployTypeOK
  <2>. QED
    BY <2>1, <2>2, OverKeeps
<1>9. CASE UNCHANGED deployVars
  BY <1>9 DEF deployVars, runnerVars, DeployTypeOK, OneConfigPerVersion, ReadIsCommitted,
       SavedIsCommitted, RemoteServesCommitted, Differs, deploySettings
<1>. QED
  BY <1>1, <1>2, <1>3, <1>4, <1>5, <1>6, <1>7, <1>8, <1>9, <1>10, MigrateKeeps, UnheardKeeps
     DEF DeployNext, Run

(* Only committed settings are read and deployed, and a version is given   *)
(* once.                                                                   *)
THEOREM DeployInvariant == DeploySpec => []DeployInv
<1>. QED
  BY DeployInitInv, DeployNextInv, PTL DEF DeploySpec

(* Every variable of the deploy command keeps to its type.                 *)
THEOREM DeployTypeCorrect == DeploySpec => []DeployTypeOK
<1>1. DeployInv => DeployTypeOK
  BY DEF DeployInv
<1>. QED
  BY <1>1, DeployInvariant, PTL

(* Whatever fails, is killed or overlaps, a remote worker serves settings  *)
(* that were committed, and no version stands for two configurations.      *)
THEOREM DeployServesCommitted == DeploySpec => []WorkerServesCommitted
<1>1. DeployInv => WorkerServesCommitted
  BY DEF DeployInv, OneConfigPerVersion, RemoteServesCommitted, Harmless,
       WorkerServesCommitted
<1>. QED
  BY <1>1, DeployInvariant, PTL
=============================================================================
