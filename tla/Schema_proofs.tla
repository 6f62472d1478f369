---------------------------- MODULE Schema_proofs ----------------------------
(***************************************************************************)
(* Theorems about SchemaDiff: what the statements of alterTable do to a    *)
(* database that holds the last table, for tables with any names and any   *)
(* number of columns, indexes and triggers.  First what single statements  *)
(* do, then those of a set in whatever order they come, then the parts of  *)
(* alterTable one after the other; what the difference of two tables says  *)
(* of their columns (Coherent) puts these together.                        *)
(***************************************************************************)
EXTENDS SchemaDiff, FiniteSetTheorems, TLAPS

(* A set of numbers has a least one.                                       *)
LEMMA LeastNat ==
  ASSUME NEW S, S \subseteq Nat, S # {}
  PROVE  \E x \in S : \A y \in S : x <= y
<1>. DEFINE R == {p \in Nat \X Nat : p[1] < p[2]}
<1>1. IsWellFoundedOn(R, Nat)
  BY NatLessThanWellFounded, Zenon DEF OpToRel
<1>2. \E x \in S : \A y \in S : <<y, x>> \notin R
  <2>. HIDE DEF R
  <2>. QED
    BY <1>1, WFMin, Zenon
<1>3. \A x, y \in Nat : y < x => <<y, x>> \in R
  OBVIOUS
<1>. HIDE DEF R
<1>4. PICK x \in S : \A y \in S : <<y, x>> \notin R
  BY <1>2
<1>5. ASSUME NEW y \in S  PROVE x <= y
  <2>1. x \in Nat /\ y \in Nat
    OBVIOUS
  <2>2. ~ (y < x)
    BY <1>3, <1>4, <2>1, Zenon
  <2>. QED
    BY <2>1, <2>2
<1>. QED
  BY <1>5

(* What holds at first and from step to step holds at the end.             *)
LEMMA UpTo ==
  ASSUME NEW n \in Nat, NEW Good, 0 \in Good,
         \A k \in 1 .. n : k - 1 \in Good => k \in Good
  PROVE  n \in Good
<1>. DEFINE S == {k \in 0 .. n : k \notin Good}
<1>1. SUFFICES ASSUME S # {}  PROVE FALSE
  OBVIOUS
<1>2. S \subseteq Nat
  OBVIOUS
<1>3. PICK k \in S : \A j \in S : k <= j
  <2>. HIDE DEF S
  <2>. QED
    BY <1>1, <1>2, LeastNat
<1>4. k \in 1 .. n /\ k - 1 \in 0 .. n
  BY <1>3
<1>5. k - 1 \in Good
  BY <1>3, <1>4
<1>. QED
  BY <1>3, <1>4, <1>5

-----------------------------------------------------------------------------
(***************************************************************************)
(* Running statements.                                                     *)
(***************************************************************************)
Ready(db) == [ok |-> TRUE, db |-> db]

Leads(so, statements, end) ==
  \E run : /\ run[0] = so /\ run[Len(statements)] = end
           /\ \A k \in 1 .. Len(statements) : run[k] = Step(run[k - 1], statements[k])

Running(run, db, statements, n) ==
  run = [k \in 0 .. n |-> IF k = 0 THEN Ready(db) ELSE Step(run[k - 1], statements[k])]

LEMMA CanRun ==
  ASSUME NEW db, NEW statements, NEW n \in Nat
  PROVE  \E run : Running(run, db, statements, n)
<1>. DEFINE Good == {k \in Nat : \E run : Running(run, db, statements, k)}
            first == [k \in 0 .. 0 |-> Ready(db)]
<1>1. 0 \in Good
  <2>1. Running(first, db, statements, 0)
    BY DEF Running
  <2>. QED
    BY <2>1
<1>2. ASSUME NEW k \in 1 .. n, k - 1 \in Good  PROVE k \in Good
  <2>1. PICK run : Running(run, db, statements, k - 1)
    BY <1>2
  <2>. DEFINE next == [m \in 0 .. k |-> IF m = k THEN Step(run[k - 1], statements[k]) ELSE run[m]]
  <2>2. ASSUME NEW m \in 0 .. k
        PROVE  next[m] = IF m = 0 THEN Ready(db) ELSE Step(next[m - 1], statements[m])
    <3>1. CASE m = k
      BY <3>1
    <3>2. CASE m # k
      <4>1. m \in 0 .. (k - 1) /\ next[m] = run[m]
        BY <3>2
      <4>2. run[m] = IF m = 0 THEN Ready(db) ELSE Step(run[m - 1], statements[m])
        BY <2>1, <4>1 DEF Running
      <4>3. m # 0 => next[m - 1] = run[m - 1]
        BY <3>2
      <4>. QED
        BY <4>1, <4>2, <4>3
    <3>. QED
      BY <3>1, <3>2
  <2>3. next = [m \in 0 .. k |-> next[m]]
    OBVIOUS
  <2>. HIDE DEF next
  <2>4. next = [m \in 0 .. k |-> IF m = 0 THEN Ready(db) ELSE Step(next[m - 1], statements[m])]
    BY <2>2, <2>3
  <2>. QED
    BY <2>4 DEF Running
<1>. HIDE DEF Good
<1>3. n \in Good
  BY <1>1, <1>2, UpTo
<1>. QED
  BY <1>3 DEF Good

LEMMA ExecutedLeads ==
  ASSUME NEW db, NEW statements, Len(statements) \in Nat
  PROVE  Leads(Ready(db), statements, Executed(db, statements))
<1>. DEFINE First(run, k) == IF k = 0 THEN [ok |-> TRUE, db |-> db] ELSE Step(run[k - 1], statements[k])
            run == CHOOSE run : run = [k \in 0 .. Len(statements) |-> First(run, k)]
<1>0. Len(statements) \in Nat
  OBVIOUS
<1>1. \E other : other = [k \in 0 .. Len(statements) |-> First(other, k)]
  <2>1. PICK other : Running(other, db, statements, Len(statements))
    BY <1>0, CanRun
  <2>2. other = [k \in 0 .. Len(statements) |-> First(other, k)]
    BY <2>1 DEF Running, Ready
  <2>. QED
    BY <2>2
<1>2. run = [k \in 0 .. Len(statements) |-> First(run, k)]
  BY <1>1
<1>3. Executed(db, statements) = run[Len(statements)]
  BY DEF Executed
<1>. HIDE DEF run
<1>4. /\ run[0] = Ready(db)
      /\ \A k \in 1 .. Len(statements) : run[k] = Step(run[k - 1], statements[k])
  <2>1. run[0] = Ready(db)
    BY <1>0, <1>2 DEF Ready
  <2>2. ASSUME NEW k \in 1 .. Len(statements)  PROVE run[k] = Step(run[k - 1], statements[k])
    <3>1. k \in 0 .. Len(statements) /\ k # 0
      BY <1>0
    <3>2. run[k] = First(run, k)
      BY <1>2, <3>1
    <3>. QED
      BY <3>1, <3>2
  <2>. QED
    BY <2>1, <2>2
<1>. QED
  BY <1>3, <1>4 DEF Leads

Listed(s) == s \in Seq({s[i] : i \in DOMAIN s})

LEMMA IsListed ==
  ASSUME NEW A, NEW s \in Seq(A)
  PROVE  Listed(s)
<1>1. s = [i \in 1 .. Len(s) |-> s[i]] /\ Len(s) \in Nat /\ DOMAIN s = 1 .. Len(s)
  OBVIOUS
<1>2. \A i \in 1 .. Len(s) : s[i] \in {s[j] : j \in DOMAIN s}
  BY <1>1
<1>3. [i \in 1 .. Len(s) |-> s[i]] \in Seq({s[j] : j \in DOMAIN s})
  BY <1>1, <1>2
<1>. QED
  BY <1>1, <1>3 DEF Listed

LEMMA Split ==
  ASSUME NEW s, NEW t, Listed(s), Listed(t)
  PROVE  /\ Listed(s \o t)
         /\ \A so, end : Leads(so, s \o t, end) => \E mid : Leads(so, s, mid) /\ Leads(mid, t, end)
<1>. DEFINE A == {s[i] : i \in DOMAIN s} \cup {t[i] : i \in DOMAIN t}
<1>1. s \in Seq(A) /\ t \in Seq(A)
  BY DEF Listed
<1>. HIDE DEF A
<1>2. s \o t \in Seq(A) /\ Len(s \o t) = Len(s) + Len(t) /\ Len(s) \in Nat /\ Len(t) \in Nat
  BY <1>1
<1>3. Listed(s \o t)
  BY <1>2, IsListed
<1>4. ASSUME NEW so, NEW end, Leads(so, s \o t, end)
      PROVE  \E mid : Leads(so, s, mid) /\ Leads(mid, t, end)
  <2>1. PICK run : /\ run[0] = so /\ run[Len(s) + Len(t)] = end
                   /\ \A k \in 1 .. Len(s) + Len(t) : run[k] = Step(run[k - 1], (s \o t)[k])
    BY <1>2, <1>4 DEF Leads
  <2>. DEFINE rest == [k \in 0 .. Len(t) |-> run[Len(s) + k]]
  <2>2. Leads(so, s, run[Len(s)])
    <3>1. \A k \in 1 .. Len(s) : run[k] = Step(run[k - 1], s[k])
      <4>1. \A k \in 1 .. Len(s) : k \in 1 .. Len(s) + Len(t) /\ (s \o t)[k] = s[k]
        BY <1>1, <1>2
      <4>. QED
        BY <2>1, <4>1
    <3>. QED
      BY <2>1, <3>1 DEF Leads
  <2>3. Leads(run[Len(s)], t, end)
    <3>1. rest[0] = run[Len(s)] /\ rest[Len(t)] = end
      BY <1>2, <2>1
    <3>2. ASSUME NEW k \in 1 .. Len(t)  PROVE rest[k] = Step(rest[k - 1], t[k])
      <4>1. /\ Len(s) + k \in 1 .. Len(s) + Len(t) /\ (s \o t)[Len(s) + k] = t[k]
            /\ (Len(s) + k) - 1 = Len(s) + (k - 1)
        BY <1>1, <1>2
      <4>2. run[Len(s) + k] = Step(run[Len(s) + (k - 1)], t[k])
        BY <2>1, <4>1
      <4>3. rest[k] = run[Len(s) + k] /\ rest[k - 1] = run[Len(s) + (k - 1)]
        BY <1>2
      <4>. QED
        BY <4>2, <4>3
    <3>. HIDE DEF rest
    <3>. QED
      BY <3>1, <3>2 DEF Leads
  <2>. QED
    BY <2>2, <2>3
<1>. QED
  BY <1>3, <1>4

LEMMA OneOrNone ==
  /\ Listed(<<>>) /\ \A so, end : Leads(so, <<>>, end) => end = so
  /\ \A s : Listed(<<s>>) /\ \A so, end : Leads(so, <<s>>, end) => end = Step(so, s)
<1>1. Listed(<<>>) /\ \A so, end : Leads(so, <<>>, end) => end = so
  BY DEF Listed, Leads
<1>2. ASSUME NEW s  PROVE Listed(<<s>>) /\ \A so, end : Leads(so, <<s>>, end) => end = Step(so, s)
  <2>1. Len(<<s>>) = 1 /\ <<s>>[1] = s /\ DOMAIN <<s>> = {1}
    OBVIOUS
  <2>2. Listed(<<s>>)
    BY <2>1 DEF Listed
  <2>3. 1 \in 1 .. 1 /\ 1 - 1 = 0
    OBVIOUS
  <2>. QED
    BY <2>1, <2>2, <2>3 DEF Leads
<1>. QED
  BY <1>1, <1>2

(* The statements of a set, run one by one: Of[k] are those run by then.   *)
Sweeps(f, so, end, n, run, Of) ==
  /\ run[0] = so /\ run[n] = end
  /\ Of[0] = {} /\ Of[n] = DOMAIN f
  /\ \A k \in 1 .. n : \E x \in DOMAIN f \ Of[k - 1] :
       Of[k] = Of[k - 1] \cup {x} /\ run[k] = Step(run[k - 1], f[x])

LEMMA EachSweeps ==
  ASSUME NEW f, IsFiniteSet(DOMAIN f)
  PROVE  /\ Listed(Each(f))
         /\ \A so, end : Leads(so, Each(f), end) =>
              \E n \in Nat : \E run, Of : Sweeps(f, so, end, n, run, Of)
<1>. DEFINE S == DOMAIN f
            n == Cardinality(S)
            seq == SetToSeq(S)
<1>1. n \in Nat /\ \E g : g \in Bijection(1 .. n, S)
  BY FS_CardinalityType DEF ExistsBijection
<1>2. seq \in [1 .. n -> S] /\ IsInjective(seq)
  BY <1>1 DEF SetToSeq, Bijection, Injection
<1>3. IsFiniteSet(1 .. n) /\ Cardinality(1 .. n) = n
  BY <1>1, FS_Interval
<1>4. seq \in Surjection(1 .. n, S)
  <2>1. seq \in Injection(1 .. n, S)
    BY <1>2 DEF Injection
  <2>. HIDE DEF seq
  <2>. QED
    BY <1>3, <2>1, FS_Injection
<1>. HIDE DEF seq
<1>5. \A x \in S : \E i \in 1 .. n : seq[i] = x
  BY <1>4 DEF Surjection
<1>. DEFINE each == [i \in 1 .. n |-> f[seq[i]]]
<1>6. Each(f) = each
  BY <1>2 DEF Each, seq
<1>7. Listed(each) /\ Len(each) = n /\ \A i \in 1 .. n : each[i] = f[seq[i]]
  BY <1>1 DEF Listed
<1>8. ASSUME NEW so, NEW end, Leads(so, each, end)
      PROVE  \E run, Of : Sweeps(f, so, end, n, run, Of)
  <2>1. PICK run : /\ run[0] = so /\ run[n] = end
                   /\ \A k \in 1 .. n : run[k] = Step(run[k - 1], each[k])
    BY <1>7, <1>8 DEF Leads
  <2>. DEFINE Of == [k \in 0 .. n |-> {seq[i] : i \in 1 .. k}]
  <2>2. Of[0] = {}
    BY <1>1
  <2>3. Of[n] = S
    <3>1. Of[n] = {seq[i] : i \in 1 .. n}
      BY <1>1
    <3>. QED
      <4>. HIDE DEF Of
      <4>. QED
        <5>1. \A x \in {seq[i] : i \in 1 .. n} : x \in S
          BY <1>2
        <5>2. \A x \in S : x \in {seq[i] : i \in 1 .. n}
          BY <1>5
        <5>. HIDE DEF S, n
        <5>. QED
          BY <3>1, <5>1, <5>2
  <2>4. ASSUME NEW k \in 1 .. n
        PROVE  seq[k] \in S \ Of[k - 1] /\ Of[k] = Of[k - 1] \cup {seq[k]}
    <3>1. Of[k] = {seq[i] : i \in 1 .. k} /\ Of[k - 1] = {seq[i] : i \in 1 .. (k - 1)}
      BY <1>1
    <3>2. \A i \in 1 .. (k - 1) : i \in 1 .. n /\ i # k
      BY <1>1
    <3>3. \A i \in 1 .. (k - 1) : seq[i] # seq[k]
      BY <1>2, <3>2 DEF IsInjective
    <3>4. 1 .. k = (1 .. (k - 1)) \cup {k}
      BY <1>1
    <3>. QED
      BY <1>2, <3>1, <3>3, <3>4
  <2>. HIDE DEF Of
  <2>5. Sweeps(f, so, end, n, run, Of)
    BY <1>7, <2>1, <2>2, <2>3, <2>4 DEF Sweeps
  <2>. QED
    BY <2>5
<1>. QED
  BY <1>1, <1>6, <1>7, <1>8

LEMMA Stepped ==
  ASSUME NEW so, NEW s, NEW end, end = Step(so, s)
  PROVE  /\ end.ok => so.ok /\ Possible(so.db, s) /\ end.db = Done(so.db, s)
         /\ so.ok /\ Possible(so.db, s) => end.ok
BY DEF Step

(* From the first statement that fails on nothing is done.                 *)
LEMMA OkBefore ==
  ASSUME NEW so, NEW statements, Listed(statements), NEW end, Leads(so, statements, end), end.ok
  PROVE  so.ok
<1>. DEFINE n == Len(statements)
<1>1. PICK run : run[0] = so /\ run[n] = end /\ \A k \in 1 .. n : run[k] = Step(run[k - 1], statements[k])
  BY DEF Leads
<1>2. n \in Nat
  BY DEF Listed
<1>. DEFINE Good == {k \in 0 .. n : run[k].ok => so.ok}
<1>. HIDE DEF n
<1>3. 0 \in Good
  BY <1>1, <1>2
<1>4. ASSUME NEW k \in 1 .. n, k - 1 \in Good  PROVE k \in Good
  <2>1. run[k].ok => run[k - 1].ok
    BY <1>1, Stepped
  <2>. QED
    BY <1>2, <1>4, <2>1
<1>. HIDE DEF Good
<1>5. n \in Good
  BY <1>2, <1>3, <1>4, UpTo
<1>. QED
  BY <1>1, <1>5 DEF Good

-----------------------------------------------------------------------------
(***************************************************************************)
(* What single statements do.                                              *)
(***************************************************************************)
Fcn(f) == f = [x \in DOMAIN f |-> f[x]]

LEMMA SameFcn ==
  ASSUME NEW f, NEW g, Fcn(f), Fcn(g), DOMAIN f = DOMAIN g, \A x \in DOMAIN f : f[x] = g[x]
  PROVE  f = g
BY DEF Fcn

Parts == {"name", "cols", "idx", "trg", "fts", "hooks"}
IsDb(db) == DOMAIN db = Parts /\ Fcn(db.cols) /\ Fcn(db.idx) /\ Fcn(db.trg) /\ Fcn(db.hooks)

SameBut(db, e, K) == IsDb(e) /\ \A k \in Parts \ K : e[k] = db[k]

LEMMA WithFacts ==
  ASSUME NEW f, NEW k, NEW v
  PROVE  /\ Fcn(With(f, k, v)) /\ DOMAIN With(f, k, v) = DOMAIN f \cup {k}
         /\ With(f, k, v)[k] = v /\ \A x \in DOMAIN f : x # k => With(f, k, v)[x] = f[x]
         /\ Fcn(Without(f, k)) /\ DOMAIN Without(f, k) = DOMAIN f \ {k}
         /\ \A x \in DOMAIN f : x # k => Without(f, k)[x] = f[x]
BY DEF Fcn, With, Without

Removes(db, s, K, k) == SameBut(db, Done(db, s), {K}) /\ Done(db, s)[K] = Without(db[K], k)
Puts(db, s, K, k, v) == SameBut(db, Done(db, s), {K}) /\ Done(db, s)[K] = With(db[K], k, v)

Droppable(db, k) ==
  /\ k \in DOMAIN db.cols /\ db.cols[k].def # "unique"
  /\ \A i \in DOMAIN db.idx : db.idx[i] # k
  /\ \A h \in DOMAIN db.hooks : k \notin db.hooks[h]

LEMMA DropIndex ==
  ASSUME NEW db, IsDb(db), NEW k, NEW s, s = [do |-> "drop index", key |-> k]
  PROVE  Possible(db, s) /\ Removes(db, s, "idx", k)
BY WithFacts DEF Possible, Done, Removes, SameBut, IsDb, Parts

LEMMA DropTrigger ==
  ASSUME NEW db, IsDb(db), NEW k, NEW s, s = [do |-> "drop trigger", key |-> k]
  PROVE  Possible(db, s) /\ Removes(db, s, "trg", k)
BY WithFacts DEF Possible, Done, Removes, SameBut, IsDb, Parts

DropsSearch(db, s, k) ==
  /\ Possible(db, s) /\ SameBut(db, Done(db, s), {"fts", "hooks"})
  /\ Done(db, s).fts = Without(db.fts, k) /\ Done(db, s).hooks = Without(db.hooks, k)

LEMMA DropSearch ==
  ASSUME NEW db, IsDb(db), NEW k, NEW s, s = [do |-> "drop fts", table |-> k]
  PROVE  DropsSearch(db, s, k)
BY WithFacts DEF Possible, Done, SameBut, IsDb, Parts, DropsSearch

CreatesIndex(db, s, k, v) ==
  /\ Possible(db, s) <=> k \notin DOMAIN db.idx /\ v \in DOMAIN db.cols /\ k[1] = db.name
  /\ Puts(db, s, "idx", k, v)

LEMMA CreateIndex ==
  ASSUME NEW db, IsDb(db), NEW k, NEW v, NEW s, s = [do |-> "create index", key |-> k, col |-> v]
  PROVE  CreatesIndex(db, s, k, v)
BY WithFacts DEF CreatesIndex, Possible, Done, Puts, SameBut, IsDb, Parts

LEMMA CreateTrigger ==
  ASSUME NEW db, IsDb(db), NEW k, NEW v, NEW s, s = [do |-> "create trigger", key |-> k, body |-> v]
  PROVE  /\ Possible(db, s) <=> k \notin DOMAIN db.trg /\ k[1] = db.name
         /\ Puts(db, s, "trg", k, v)
BY WithFacts DEF Possible, Done, Puts, SameBut, IsDb, Parts

CreatesSearch(db, s, k, v) ==
  /\ Possible(db, s) <=> k \notin DOMAIN db.fts /\ k = db.name /\ v \subseteq DOMAIN db.cols
  /\ SameBut(db, Done(db, s), {"fts", "hooks"})
  /\ Done(db, s).fts = With(db.fts, k, v) /\ Done(db, s).hooks = With(db.hooks, k, v)

LEMMA CreateSearch ==
  ASSUME NEW db, IsDb(db), NEW k, NEW v, NEW s, s = [do |-> "create fts", table |-> k, cols |-> v]
  PROVE  CreatesSearch(db, s, k, v)
BY WithFacts DEF Possible, Done, SameBut, IsDb, Parts, CreatesSearch

RenamesTable(db, s, k) == Possible(db, s) /\ SameBut(db, Done(db, s), {"name"}) /\ Done(db, s).name = k

LEMMA RenameTable ==
  ASSUME NEW db, IsDb(db), NEW k, NEW s, s = [do |-> "rename table", to |-> k]
  PROVE  RenamesTable(db, s, k)
BY WithFacts DEF Possible, Done, SameBut, IsDb, Parts, RenamesTable

LEMMA DropColumn ==
  ASSUME NEW db, IsDb(db), NEW k, NEW s, s = [do |-> "drop column", col |-> k]
  PROVE  (Possible(db, s) <=> Droppable(db, k)) /\ Removes(db, s, "cols", k)
BY WithFacts DEF Possible, Done, Removes, Droppable, SameBut, IsDb, Parts

LEMMA AddColumn ==
  ASSUME NEW db, IsDb(db), NEW k, NEW v, NEW s, s = [do |-> "add column", col |-> k, def |-> v]
  PROVE  (Possible(db, s) <=> k \notin DOMAIN db.cols) /\ Puts(db, s, "cols", k, NewColumn(v))
BY WithFacts DEF Possible, Done, Puts, SameBut, IsDb, Parts

(* Renaming a column leaves alone the indexes and searches without it.     *)
Kept(db, e, k) ==
  /\ (\A i \in DOMAIN db.idx : db.idx[i] # k) => e.idx = db.idx
  /\ (\A h \in DOMAIN db.hooks : k \notin db.hooks[h]) => e.hooks = db.hooks

RenamesTo(db, s, k, v) ==
  /\ Possible(db, s) <=> k \in DOMAIN db.cols /\ v \notin DOMAIN db.cols
  /\ SameBut(db, Done(db, s), {"cols", "idx", "hooks"})
  /\ Done(db, s).cols = With(Without(db.cols, k), v, db.cols[k])
  /\ Kept(db, Done(db, s), k)

LEMMA RenameColumn ==
  ASSUME NEW db, IsDb(db), NEW k, NEW v, NEW s, s = [do |-> "rename column", col |-> k, to |-> v]
  PROVE  RenamesTo(db, s, k, v)
<1>. DEFINE e == Done(db, s)
<1>1. /\ Possible(db, s) <=> k \in DOMAIN db.cols /\ v \notin DOMAIN db.cols
      /\ e = [db EXCEPT !.cols = With(Without(@, k), v, @[k]),
                        !.idx = [i \in DOMAIN @ |-> ToName(@[i], s)],
                        !.hooks = [h \in DOMAIN @ |-> {ToName(c, s) : c \in @[h]}]]
  BY DEF Possible, Done
<1>. HIDE DEF e
<1>2. /\ SameBut(db, e, {"cols", "idx", "hooks"})
      /\ e.cols = With(Without(db.cols, k), v, db.cols[k])
      /\ e.idx = [i \in DOMAIN db.idx |-> ToName(db.idx[i], s)]
      /\ e.hooks = [h \in DOMAIN db.hooks |-> {ToName(c, s) : c \in db.hooks[h]}]
  <2>1. /\ DOMAIN e = Parts /\ \A p \in Parts \ {"cols", "idx", "hooks"} : e[p] = db[p]
        /\ e.cols = With(Without(db.cols, k), v, db.cols[k])
        /\ e.idx = [i \in DOMAIN db.idx |-> ToName(db.idx[i], s)]
        /\ e.hooks = [h \in DOMAIN db.hooks |-> {ToName(c, s) : c \in db.hooks[h]}]
    <3>. QED
      BY <1>1 DEF IsDb, Parts
  <2>2. Fcn(e.cols) /\ Fcn(e.idx) /\ Fcn(e.hooks) /\ Fcn(e.trg)
    <3>1. Fcn(e.cols)
      <4>1. e.cols = With(Without(db.cols, k), v, db.cols[k])
        BY <2>1
      <4>. QED
        BY <4>1 DEF Fcn, With
    <3>2. Fcn(e.idx) /\ Fcn(e.hooks)
      <4>. QED
        BY <2>1 DEF Fcn
    <3>3. Fcn(e.trg)
      BY <2>1 DEF IsDb, Parts
    <3>. QED
      BY <3>1, <3>2, <3>3
  <2>. QED
    BY <2>1, <2>2 DEF SameBut, IsDb
<1>3. ASSUME \A i \in DOMAIN db.idx : db.idx[i] # k  PROVE e.idx = db.idx
  <2>1. \A i \in DOMAIN db.idx : ToName(db.idx[i], s) = db.idx[i]
    BY <1>3 DEF ToName
  <2>. QED
    BY <1>2, <2>1 DEF IsDb, Fcn
<1>4. ASSUME \A h \in DOMAIN db.hooks : k \notin db.hooks[h]  PROVE e.hooks = db.hooks
  <2>1. \A h \in DOMAIN db.hooks : {ToName(c, s) : c \in db.hooks[h]} = db.hooks[h]
    BY <1>4 DEF ToName
  <2>. QED
    BY <1>2, <2>1 DEF IsDb, Fcn
<1>. QED
  BY <1>1, <1>2, <1>3, <1>4 DEF e, Kept, RenamesTo

-----------------------------------------------------------------------------
(***************************************************************************)
(* What the statements of a set do, whatever their order.                  *)
(***************************************************************************)
(* Entries with the given keys are taken from part K of the database.      *)
Less(db, e, K, keys) ==
  /\ SameBut(db, e, {K})
  /\ DOMAIN e[K] = DOMAIN db[K] \ keys
  /\ \A k \in DOMAIN e[K] : e[K][k] = db[K][k]

Drops(f, S, K, key) ==
  DOMAIN f = S /\ \A db, x : IsDb(db) /\ x \in S => Removes(db, f[x], K, key[x])

AllDrop(f, S, K, key, db) ==
  \A e, D, x : D \subseteq S /\ x \in S \ D /\ Less(db, e, K, {key[y] : y \in D}) => Possible(e, f[x])

LEMMA DropsEffect ==
  ASSUME NEW f, NEW S, IsFiniteSet(S), NEW K \in Parts, NEW key, Drops(f, S, K, key),
         NEW so, IsDb(so.db), NEW end, Leads(so, Each(f), end)
  PROVE  /\ end.ok => so.ok /\ Less(so.db, end.db, K, {key[x] : x \in S})
         /\ so.ok /\ AllDrop(f, S, K, key, so.db) => end.ok
<1>0. DOMAIN f = S
  BY DEF Drops
<1>1. PICK n \in Nat : \E run, Of : Sweeps(f, so, end, n, run, Of)
  BY <1>0, EachSweeps
<1>2. PICK run, Of : Sweeps(f, so, end, n, run, Of)
  BY <1>1
<1>. DEFINE Keys(D) == {key[x] : x \in D}
            Lucky == so.ok /\ AllDrop(f, S, K, key, so.db)
            Good == {k \in 0 .. n : /\ Of[k] \subseteq S
                                    /\ run[k].ok => so.ok /\ Less(so.db, run[k].db, K, Keys(Of[k]))
                                    /\ Lucky => run[k].ok}
<1>3. 0 \in Good
  <2>1. run[0] = so /\ Of[0] = {}
    BY <1>2 DEF Sweeps
  <2>2. Less(so.db, so.db, K, Keys({}))
    BY DEF Less, SameBut
  <2>3. Lucky => so.ok
    OBVIOUS
  <2>. HIDE DEF Lucky, Keys
  <2>. QED
    BY <2>1, <2>2, <2>3
<1>4. ASSUME NEW k \in 1 .. n, k - 1 \in Good  PROVE k \in Good
  <2>. DEFINE was == run[k - 1]
              D == Of[k - 1]
  <2>1. PICK x \in S : x \notin D /\ Of[k] = D \cup {x} /\ run[k] = Step(was, f[x])
    BY <1>0, <1>2 DEF Sweeps
  <2>2. D \subseteq S /\ (was.ok => so.ok /\ Less(so.db, was.db, K, Keys(D))) /\ (Lucky => was.ok)
    <3>. HIDE DEF Lucky, Keys
    <3>. QED
      BY <1>4
  <2>. HIDE DEF was, D, Good
  <2>3. /\ run[k].ok => was.ok /\ run[k].db = Done(was.db, f[x])
        /\ was.ok /\ Possible(was.db, f[x]) => run[k].ok
    BY <2>1, Stepped
  <2>4. was.ok => Removes(was.db, f[x], K, key[x])
    <3>1. was.ok => IsDb(was.db)
      BY <2>2 DEF Less, SameBut
    <3>. QED
      BY <2>1, <3>1 DEF Drops
  <2>5. ASSUME run[k].ok  PROVE so.ok /\ Less(so.db, run[k].db, K, Keys(Of[k]))
    <3>1. so.ok /\ Less(so.db, was.db, K, Keys(D))
      BY <2>2, <2>3, <2>5
    <3>2. SameBut(was.db, run[k].db, {K}) /\ run[k].db[K] = Without(was.db[K], key[x])
      BY <2>3, <2>4, <2>5 DEF Removes
    <3>3. SameBut(so.db, run[k].db, {K})
      BY <3>1, <3>2 DEF Less, SameBut
    <3>4. Keys(Of[k]) = Keys(D) \cup {key[x]}
      BY <2>1
    <3>5. /\ DOMAIN Without(was.db[K], key[x]) = DOMAIN was.db[K] \ {key[x]}
          /\ \A y \in DOMAIN was.db[K] : y # key[x] => Without(was.db[K], key[x])[y] = was.db[K][y]
      BY DEF Without
    <3>. HIDE DEF Keys
    <3>. QED
      BY <3>1, <3>2, <3>3, <3>4, <3>5 DEF Less
  <2>6. ASSUME Lucky  PROVE run[k].ok
    BY <2>1, <2>2, <2>3, <2>6 DEF AllDrop
  <2>7. k \in 0 .. n /\ Of[k] \subseteq S
    BY <2>1, <2>2
  <2>. HIDE DEF Lucky, Keys
  <2>. QED
    BY <2>5, <2>6, <2>7 DEF Good
<1>. HIDE DEF Good
<1>5. n \in Good
  BY <1>3, <1>4, UpTo
<1>6. run[n] = end /\ Of[n] = S
  BY <1>0, <1>2 DEF Sweeps
<1>. QED
  BY <1>5, <1>6 DEF Good

(* Entries with new keys are added to it.                                  *)
More(db, e, K, D, key, val) ==
  /\ SameBut(db, e, {K})
  /\ DOMAIN e[K] = DOMAIN db[K] \cup {key[x] : x \in D}
  /\ \A k \in DOMAIN db[K] : e[K][k] = db[K][k]
  /\ \A x \in D : e[K][key[x]] = val[x] /\ key[x] \notin DOMAIN db[K]
  /\ \A x, y \in D : key[x] = key[y] => x = y

Adds(f, S, K, key, val) ==
  DOMAIN f = S /\ \A db, x : IsDb(db) /\ x \in S =>
    Puts(db, f[x], K, key[x], val[x]) /\ (Possible(db, f[x]) => key[x] \notin DOMAIN db[K])

AllAdd(f, S, K, key, val, db) ==
  \A e, D, x : D \subseteq S /\ x \in S \ D /\ More(db, e, K, D, key, val) => Possible(e, f[x])

LEMMA OneMoreAdded ==
  ASSUME NEW K, NEW D, NEW x, x \notin D, NEW key, NEW val, NEW d, NEW w, NEW e,
         More(d, w, K, D, key, val), key[x] \notin DOMAIN w[K],
         SameBut(w, e, {K}), e[K] = With(w[K], key[x], val[x])
  PROVE  More(d, e, K, D \cup {x}, key, val)
<1>1. SameBut(d, e, {K})
  BY DEF More, SameBut
<1>2. {key[y] : y \in D \cup {x}} = {key[y] : y \in D} \cup {key[x]}
  OBVIOUS
<1>3. /\ DOMAIN e[K] = DOMAIN w[K] \cup {key[x]}
      /\ e[K][key[x]] = val[x]
      /\ \A y \in DOMAIN w[K] : y # key[x] /\ e[K][y] = w[K][y]
  BY DEF With
<1>4. \A y \in D : key[y] \in DOMAIN w[K]
  BY DEF More
<1>. QED
  BY <1>1, <1>2, <1>3, <1>4 DEF More

LEMMA AddsEffect ==
  ASSUME NEW f, NEW S, IsFiniteSet(S), NEW K \in Parts, NEW key, NEW val, Adds(f, S, K, key, val),
         NEW so, IsDb(so.db), NEW end, Leads(so, Each(f), end)
  PROVE  /\ end.ok => so.ok /\ More(so.db, end.db, K, S, key, val)
         /\ so.ok /\ AllAdd(f, S, K, key, val, so.db) => end.ok
<1>0. DOMAIN f = S
  BY DEF Adds
<1>1. PICK n \in Nat : \E run, Of : Sweeps(f, so, end, n, run, Of)
  BY <1>0, EachSweeps
<1>2. PICK run, Of : Sweeps(f, so, end, n, run, Of)
  BY <1>1
<1>. DEFINE Lucky == so.ok /\ AllAdd(f, S, K, key, val, so.db)
            Good == {k \in 0 .. n : /\ Of[k] \subseteq S
                                    /\ run[k].ok => so.ok /\ More(so.db, run[k].db, K, Of[k], key, val)
                                    /\ Lucky => run[k].ok}
<1>3. 0 \in Good
  <2>1. run[0] = so /\ Of[0] = {}
    BY <1>2 DEF Sweeps
  <2>2. More(so.db, so.db, K, {}, key, val)
    BY DEF More, SameBut
  <2>3. Lucky => so.ok
    OBVIOUS
  <2>. HIDE DEF Lucky
  <2>. QED
    BY <2>1, <2>2, <2>3
<1>4. ASSUME NEW k \in 1 .. n, k - 1 \in Good  PROVE k \in Good
  <2>. DEFINE was == run[k - 1]
              D == Of[k - 1]
  <2>1. PICK x \in S : x \notin D /\ Of[k] = D \cup {x} /\ run[k] = Step(was, f[x])
    BY <1>0, <1>2 DEF Sweeps
  <2>2. D \subseteq S /\ (was.ok => so.ok /\ More(so.db, was.db, K, D, key, val)) /\ (Lucky => was.ok)
    <3>. HIDE DEF Lucky
    <3>. QED
      BY <1>4
  <2>. HIDE DEF was, D, Good
  <2>3. /\ run[k].ok => was.ok /\ Possible(was.db, f[x]) /\ run[k].db = Done(was.db, f[x])
        /\ was.ok /\ Possible(was.db, f[x]) => run[k].ok
    BY <2>1, Stepped
  <2>4. was.ok => /\ Puts(was.db, f[x], K, key[x], val[x])
                  /\ Possible(was.db, f[x]) => key[x] \notin DOMAIN was.db[K]
    <3>1. was.ok => IsDb(was.db)
      BY <2>2 DEF More, SameBut
    <3>. QED
      BY <2>1, <3>1 DEF Adds
  <2>5. ASSUME run[k].ok  PROVE so.ok /\ More(so.db, run[k].db, K, Of[k], key, val)
    <3>1. /\ so.ok /\ More(so.db, was.db, K, D, key, val) /\ key[x] \notin DOMAIN was.db[K]
          /\ SameBut(was.db, run[k].db, {K}) /\ run[k].db[K] = With(was.db[K], key[x], val[x])
      BY <2>2, <2>3, <2>4, <2>5 DEF Puts
    <3>. QED
      BY <2>1, <3>1, OneMoreAdded
  <2>6. ASSUME Lucky  PROVE run[k].ok
    BY <2>1, <2>2, <2>3, <2>6 DEF AllAdd
  <2>7. k \in 0 .. n /\ Of[k] \subseteq S
    BY <2>1, <2>2
  <2>. HIDE DEF Lucky
  <2>. QED
    BY <2>5, <2>6, <2>7 DEF Good
<1>. HIDE DEF Good
<1>5. n \in Good
  BY <1>3, <1>4, UpTo
<1>6. run[n] = end /\ Of[n] = S
  BY <1>0, <1>2 DEF Sweeps
<1>. QED
  BY <1>5, <1>6 DEF Good

(* Columns are given other names, with their values.  Indexes and searches *)
(* without any of the columns S stay as they are.                          *)
Moved(db, e, S, D, from, to) ==
  /\ SameBut(db, e, {"cols", "idx", "hooks"})
  /\ DOMAIN e.cols = (DOMAIN db.cols \ {from[x] : x \in D}) \cup {to[x] : x \in D}
  /\ \A c \in DOMAIN db.cols \ {from[x] : x \in D} : e.cols[c] = db.cols[c] /\ \A x \in D : to[x] # c
  /\ \A x \in D : e.cols[to[x]] = db.cols[from[x]]
  /\ \A x, y \in D : to[x] = to[y] => x = y
  /\ (\A i \in DOMAIN db.idx : \A x \in S : db.idx[i] # from[x]) => e.idx = db.idx
  /\ (\A h \in DOMAIN db.hooks : \A x \in S : from[x] \notin db.hooks[h]) => e.hooks = db.hooks

LEMMA OneMoreMoved ==
  ASSUME NEW S, NEW D, D \subseteq S, NEW x \in S, x \notin D, NEW from, NEW to,
         \A y, z \in S : from[y] = from[z] => y = z,
         NEW d, NEW w, NEW e, from[x] \in DOMAIN d.cols, Moved(d, w, S, D, from, to),
         to[x] \notin DOMAIN w.cols, SameBut(w, e, {"cols", "idx", "hooks"}),
         e.cols = With(Without(w.cols, from[x]), to[x], w.cols[from[x]]), Kept(w, e, from[x])
  PROVE  Moved(d, e, S, D \cup {x}, from, to)
<1>. DEFINE Gone == {from[y] : y \in D}
            New == {to[y] : y \in D}
<1>1. /\ SameBut(d, w, {"cols", "idx", "hooks"})
      /\ DOMAIN w.cols = (DOMAIN d.cols \ Gone) \cup New
      /\ \A c \in DOMAIN d.cols \ Gone : w.cols[c] = d.cols[c] /\ \A y \in D : to[y] # c
      /\ \A y \in D : w.cols[to[y]] = d.cols[from[y]]
      /\ \A y, z \in D : to[y] = to[z] => y = z
  BY DEF Moved
<1>2. {from[y] : y \in D \cup {x}} = Gone \cup {from[x]} /\ {to[y] : y \in D \cup {x}} = New \cup {to[x]}
  OBVIOUS
<1>3. from[x] \notin Gone
  OBVIOUS
<1>4. /\ DOMAIN e.cols = (DOMAIN w.cols \ {from[x]}) \cup {to[x]}
      /\ e.cols[to[x]] = w.cols[from[x]]
      /\ \A c \in DOMAIN w.cols \ {from[x]} : c # to[x] /\ e.cols[c] = w.cols[c]
  BY DEF With, Without
<1>5. /\ \A y \in D : to[y] \in New
      /\ \A c \in New : \E y \in D : c = to[y]
  OBVIOUS
<1>. HIDE DEF Gone, New
<1>6. from[x] \notin New /\ to[x] \notin New /\ to[x] \notin DOMAIN d.cols \ Gone
  BY <1>1, <1>3, <1>5
<1>7. DOMAIN e.cols = (DOMAIN d.cols \ (Gone \cup {from[x]})) \cup New \cup {to[x]}
  BY <1>1, <1>4, <1>6
<1>8. \A c \in DOMAIN d.cols \ (Gone \cup {from[x]}) :
         e.cols[c] = d.cols[c] /\ \A y \in D \cup {x} : to[y] # c
  BY <1>1, <1>4, <1>6
<1>9. \A y \in D \cup {x} : e.cols[to[y]] = d.cols[from[y]]
  <2>1. e.cols[to[x]] = d.cols[from[x]]
    BY <1>1, <1>3, <1>4
  <2>2. ASSUME NEW y \in D  PROVE e.cols[to[y]] = d.cols[from[y]]
    <3>1. to[y] \in DOMAIN w.cols \ {from[x]}
      BY <1>1, <1>5, <1>6
    <3>. QED
      BY <1>1, <1>4, <3>1
  <2>. QED
    BY <2>1, <2>2
<1>10. \A y, z \in D \cup {x} : to[y] = to[z] => y = z
  BY <1>1, <1>5, <1>6
<1>11. SameBut(d, e, {"cols", "idx", "hooks"})
  BY <1>1 DEF SameBut
<1>12. (\A i \in DOMAIN d.idx : \A y \in S : d.idx[i] # from[y]) => e.idx = d.idx
  <2>1. ASSUME \A i \in DOMAIN d.idx : \A y \in S : d.idx[i] # from[y]  PROVE e.idx = d.idx
    <3>1. w.idx = d.idx
      BY <2>1, Zenon DEF Moved
    <3>. QED
      BY <2>1, <3>1 DEF Kept
  <2>. QED
    BY <2>1
<1>13. (\A h \in DOMAIN d.hooks : \A y \in S : from[y] \notin d.hooks[h]) => e.hooks = d.hooks
  <2>1. ASSUME \A h \in DOMAIN d.hooks : \A y \in S : from[y] \notin d.hooks[h]  PROVE e.hooks = d.hooks
    <3>1. w.hooks = d.hooks
      BY <2>1, Zenon DEF Moved
    <3>. QED
      BY <2>1, <3>1 DEF Kept
  <2>. QED
    BY <2>1
<1>. QED
  BY <1>2, <1>7, <1>8, <1>9, <1>10, <1>11, <1>12, <1>13 DEF Moved

Distinct(S, f) == \A x, y \in S : f[x] = f[y] => x = y
Within(S, f, T) == \A x \in S : f[x] \in T
Renames(f, S, from, to) ==
  DOMAIN f = S /\ \A x \in S : f[x] = [do |-> "rename column", col |-> from[x], to |-> to[x]]

(* No name given is one that a column has by then.                         *)
Unused(db, S, from, to) ==
  \A e, D, x : D \subseteq S /\ x \in S \ D /\ Moved(db, e, S, D, from, to) => to[x] \notin DOMAIN e.cols

LEMMA RenamesEffect ==
  ASSUME NEW f, NEW S, IsFiniteSet(S), NEW from, NEW to, Renames(f, S, from, to), Distinct(S, from),
         NEW so, IsDb(so.db), Within(S, from, DOMAIN so.db.cols),
         NEW end, Leads(so, Each(f), end)
  PROVE  /\ end.ok => so.ok /\ Moved(so.db, end.db, S, S, from, to)
         /\ so.ok /\ Unused(so.db, S, from, to) => end.ok
<1>0. DOMAIN f = S
  BY DEF Renames
<1>1. PICK n \in Nat : \E run, Of : Sweeps(f, so, end, n, run, Of)
  BY <1>0, EachSweeps
<1>2. PICK run, Of : Sweeps(f, so, end, n, run, Of)
  BY <1>1
<1>. DEFINE Lucky == so.ok /\ Unused(so.db, S, from, to)
            Good == {k \in 0 .. n : /\ Of[k] \subseteq S
                                    /\ run[k].ok => so.ok /\ Moved(so.db, run[k].db, S, Of[k], from, to)
                                    /\ Lucky => run[k].ok}
<1>3. 0 \in Good
  <2>1. run[0] = so /\ Of[0] = {}
    BY <1>2 DEF Sweeps
  <2>2. Moved(so.db, so.db, S, {}, from, to)
    BY DEF Moved, SameBut
  <2>3. Lucky => so.ok
    OBVIOUS
  <2>4. /\ Of[0] \subseteq S
        /\ run[0].ok => so.ok /\ Moved(so.db, run[0].db, S, Of[0], from, to)
        /\ Lucky => run[0].ok
    <3>. HIDE DEF Lucky
    <3>. QED
      BY <2>1, <2>2, <2>3
  <2>. HIDE DEF Lucky
  <2>. QED
    BY <2>4
<1>4. ASSUME NEW k \in 1 .. n, k - 1 \in Good  PROVE k \in Good
  <2>. DEFINE was == run[k - 1]
              D == Of[k - 1]
  <2>1. PICK x \in S : x \notin D /\ Of[k] = D \cup {x} /\ run[k] = Step(was, f[x])
    BY <1>0, <1>2 DEF Sweeps
  <2>. DEFINE s == f[x]
  <2>2. D \subseteq S /\ (was.ok => so.ok /\ Moved(so.db, was.db, S, D, from, to)) /\ (Lucky => was.ok)
    <3>. HIDE DEF Lucky
    <3>. QED
      BY <1>4
  <2>. HIDE DEF was, D, s, Good
  <2>3. /\ run[k].ok => was.ok /\ run[k].db = Done(was.db, s) /\ Possible(was.db, s)
        /\ was.ok /\ Possible(was.db, s) => run[k].ok
    <3>1. run[k] = Step(was, s)
      BY <2>1 DEF s
    <3>. QED
      BY <3>1, Stepped
  <2>4. ASSUME was.ok
        PROVE  /\ Possible(was.db, s) <=> from[x] \in DOMAIN was.db.cols /\ to[x] \notin DOMAIN was.db.cols
               /\ SameBut(was.db, Done(was.db, s), {"cols", "idx", "hooks"})
               /\ Done(was.db, s).cols = With(Without(was.db.cols, from[x]), to[x], was.db.cols[from[x]])
               /\ Kept(was.db, Done(was.db, s), from[x])
    <3>1. IsDb(was.db)
      BY <2>2, <2>4 DEF Moved, SameBut
    <3>2. s = [do |-> "rename column", col |-> from[x], to |-> to[x]]
      BY <2>1 DEF s, Renames
    <3>3. RenamesTo(was.db, s, from[x], to[x])
      BY <3>1, <3>2, RenameColumn, Zenon
    <3>. QED
      BY <3>3 DEF RenamesTo
  <2>5. ASSUME run[k].ok  PROVE so.ok /\ Moved(so.db, run[k].db, S, Of[k], from, to)
    <3>1. /\ was.ok /\ so.ok /\ Moved(so.db, was.db, S, D, from, to) /\ to[x] \notin DOMAIN was.db.cols
          /\ SameBut(was.db, run[k].db, {"cols", "idx", "hooks"})
          /\ run[k].db.cols = With(Without(was.db.cols, from[x]), to[x], was.db.cols[from[x]])
          /\ Kept(was.db, run[k].db, from[x])
      BY <2>2, <2>3, <2>4, <2>5
    <3>2. Moved(so.db, run[k].db, S, D \cup {x}, from, to)
      <4>1. from[x] \in DOMAIN so.db.cols /\ \A y, z \in S : from[y] = from[z] => y = z
        BY <2>1 DEF Within, Distinct
      <4>. QED
        BY <2>1, <2>2, <3>1, <4>1, OneMoreMoved
    <3>. QED
      BY <2>1, <3>1, <3>2
  <2>6. ASSUME Lucky  PROVE run[k].ok
    <3>1. was.ok /\ Moved(so.db, was.db, S, D, from, to)
      BY <2>2, <2>6
    <3>2. to[x] \notin DOMAIN was.db.cols
      BY <2>1, <2>2, <2>6, <3>1 DEF Unused
    <3>3. from[x] \in DOMAIN was.db.cols
      <4>1. from[x] \in DOMAIN so.db.cols \ {from[y] : y \in D}
        BY <2>1, <2>2 DEF Within, Distinct
      <4>. QED
        BY <3>1, <4>1 DEF Moved
    <3>. QED
      BY <2>3, <2>4, <3>1, <3>2, <3>3
  <2>7. Of[k] \subseteq S
    BY <2>1, <2>2
  <2>8. k \in 0 .. n
    OBVIOUS
  <2>. HIDE DEF Lucky
  <2>. QED
    BY <2>5, <2>6, <2>7, <2>8 DEF Good
<1>. HIDE DEF Good
<1>5. n \in Good
  BY <1>3, <1>4, UpTo
<1>6. run[n] = end /\ Of[n] = S
  BY <1>0, <1>2 DEF Sweeps
<1>. QED
  BY <1>5, <1>6 DEF Good

-----------------------------------------------------------------------------
(***************************************************************************)
(* What the difference of two tables says when it is accepted.             *)
(***************************************************************************)
Finite(S) == {T \in SUBSET S : IsFiniteSet(T)}
Maps(S, T) == UNION {[D -> T] : D \in Finite(S)}

AnyTable ==
  {t \in [name : STRING, was : STRING, r2Base : STRING, idx : Maps(STRING, ColumnNames),
          fields : Maps(ColumnNames, [def : STRING, was : STRING]), trg : Maps(STRING, STRING),
          fts : SUBSET ColumnNames, kept : SUBSET ColumnNames] :
     t.fts \subseteq DOMAIN t.fields /\ \A i \in DOMAIN t.idx : t.idx[i] \in DOMAIN t.fields}

LEMMA TableFacts ==
  ASSUME NEW t \in AnyTable
  PROVE  /\ IsFiniteSet(DOMAIN t.fields) /\ DOMAIN t.fields \subseteq ColumnNames
         /\ IsFiniteSet(DOMAIN t.idx) /\ IsFiniteSet(DOMAIN t.trg)
         /\ t.fts \subseteq DOMAIN t.fields /\ \A i \in DOMAIN t.idx : t.idx[i] \in DOMAIN t.fields
<1>1. /\ t.idx \in Maps(STRING, ColumnNames) /\ t.trg \in Maps(STRING, STRING)
      /\ t.fields \in Maps(ColumnNames, [def : STRING, was : STRING])
      /\ t.fts \subseteq DOMAIN t.fields /\ \A i \in DOMAIN t.idx : t.idx[i] \in DOMAIN t.fields
  BY DEF AnyTable
<1>2. \A S, T : \A m \in Maps(S, T) : IsFiniteSet(DOMAIN m) /\ DOMAIN m \subseteq S
  BY DEF Maps, Finite
<1>. QED
  BY <1>1, <1>2

(* At most one field says that it was l.                                   *)
LEMMA OneClaims ==
  ASSUME NEW next \in AnyTable, NEW last, ~AmbiguousFields(next, last), NEW l \in DOMAIN last.fields,
         NEW f \in DOMAIN next.fields, NEW g \in DOMAIN next.fields,
         next.fields[f].was = l, next.fields[g].was = l
  PROVE  f = g
<1>. DEFINE A == After(next, l)
            B == {h \in A : next.fields[h].was = l}
<1>1. /\ Cardinality(A) > 1 => Cardinality(A) = 2 /\ Cardinality(B) = 1
  BY DEF AmbiguousFields
<1>2. f \in B /\ g \in B /\ B \subseteq A /\ A \subseteq DOMAIN next.fields
  BY DEF After
<1>. HIDE DEF A, B
<1>3. IsFiniteSet(A) /\ IsFiniteSet(B)
  BY <1>2, TableFacts, FS_Subset
<1>4. Cardinality(A) \in Nat /\ Cardinality(A) # 0
  BY <1>2, <1>3, FS_CardinalityType, FS_EmptySet
<1>5. /\ Cardinality(A) = 1 => \E x : A = {x}
      /\ Cardinality(B) = 1 => \E x : B = {x}
  BY <1>3, FS_Singleton
<1>. QED
  BY <1>1, <1>2, <1>4, <1>5

LEMMA BeforeIsMeant ==
  ASSUME NEW next \in AnyTable, NEW last \in AnyTable, ~AmbiguousFields(next, last),
         NEW f \in DOMAIN next.fields
  PROVE  /\ Before(next, last, f) = Meant(next, last)[f]
         /\ Meant(next, last)[f] \in {NoName} \cup (DOMAIN last.fields \cap {f, next.fields[f].was})
<1>. DEFINE w == next.fields[f].was
            left == {l \in Named(next, last, f) : RenamedTo(next, l, f) \ {l} = {}}
<1>0. /\ Before(next, last, f) = CASE left = {} -> NoName [] w \in left -> w [] OTHER -> f
      /\ Meant(next, last)[f] =
           CASE w \in DOMAIN last.fields -> w
             [] w \notin DOMAIN last.fields /\ f \in DOMAIN last.fields /\ RenamedTo(next, f, f) = {} -> f
             [] OTHER -> NoName
  BY DEF Before, Meant
<1>1. CASE w \in DOMAIN last.fields
  <2>1. RenamedTo(next, w, f) \subseteq {w}
    BY <1>1, OneClaims DEF RenamedTo
  <2>2. w \in left
    BY <1>1, <2>1 DEF Named
  <2>. QED
    BY <1>0, <1>1, <2>2
<1>2. CASE w \notin DOMAIN last.fields /\ f \in DOMAIN last.fields
  <2>1. Named(next, last, f) = {f} /\ RenamedTo(next, f, f) \ {f} = RenamedTo(next, f, f)
    BY <1>2 DEF Named, RenamedTo
  <2>2. left = IF RenamedTo(next, f, f) = {} THEN {f} ELSE {}
    BY <2>1
  <2>3. w # f
    BY <1>2
  <2>. HIDE DEF left, w
  <2>4. CASE RenamedTo(next, f, f) = {}
    BY <1>0, <1>2, <2>2, <2>3, <2>4
  <2>5. CASE RenamedTo(next, f, f) # {}
    BY <1>0, <1>2, <2>2, <2>5
  <2>. QED
    BY <2>4, <2>5
<1>3. CASE w \notin DOMAIN last.fields /\ f \notin DOMAIN last.fields
  <2>1. left = {}
    BY <1>3 DEF Named
  <2>. HIDE DEF left, w
  <2>. QED
    BY <1>0, <1>3, <2>1
<1>. QED
  BY <1>1, <1>2, <1>3

(* Every column is dropped, keeps its name, or gets a name of its own.     *)
Coherent(next, last, ch) ==
  /\ ch.was = Meant(next, last)
  /\ ch.create = {f \in DOMAIN next.fields : ch.was[f] = NoName}
  /\ ch.rename = {f \in DOMAIN next.fields : ch.was[f] \notin {NoName, f}}
  /\ ch.alter = {f \in DOMAIN next.fields :
                   ch.was[f] # NoName /\ next.fields[f].def # last.fields[ch.was[f]].def}
  /\ \A f \in DOMAIN next.fields : ch.was[f] # NoName => ch.was[f] \in DOMAIN last.fields \ ch.drop
  /\ \A f, g \in DOMAIN next.fields : ch.was[f] = ch.was[g] /\ ch.was[f] # NoName => f = g
  /\ ch.drop \subseteq DOMAIN last.fields \ next.fts
  /\ \A l \in DOMAIN last.fields \ ch.drop : l \in ch.rename \/ \E f \in DOMAIN next.fields : ch.was[f] = l
  /\ \A f \in ch.create \cap DOMAIN last.fields : \E g \in ch.rename : ch.was[g] = f

(* An accepted difference accounts for every column.                       *)
LEMMA AcceptedIsCoherent ==
  ASSUME NEW next \in AnyTable, NEW last \in AnyTable, Accepted(next, last, Changes(next, last))
  PROVE  Coherent(next, last, Changes(next, last))
<1>. DEFINE ch == Changes(next, last)
            was == Meant(next, last)
            N == DOMAIN next.fields
            L == DOMAIN last.fields
<1>1. /\ N \subseteq ColumnNames /\ L \subseteq ColumnNames
      /\ NoName \notin N /\ NoName \notin L
  BY TableFacts, TempAssumption
<1>2. ~AmbiguousFields(next, last) /\ ch.refused = {}
  BY DEF Accepted
<1>3. was = [f \in N |-> Before(next, last, f)]
  <2>1. was = [f \in N |-> was[f]]
    BY DEF Meant
  <2>2. \A f \in N : was[f] = Before(next, last, f)
    BY <1>2, BeforeIsMeant
  <2>. HIDE DEF was
  <2>. QED
    BY <2>1, <2>2
<1>4. /\ ch.was = was
      /\ ch.create = {f \in N : validateFieldChange(next, last, f, was[f]) = "create"}
      /\ ch.rename = {f \in N : validateFieldChange(next, last, f, was[f]) = "alter" /\ was[f] # f}
      /\ ch.alter = {f \in N : validateFieldChange(next, last, f, was[f]) = "alter"
                                 /\ next.fields[f].def # last.fields[was[f]].def}
      /\ ch.drop = {l \in L : After(next, l) = {} /\ validateFieldChange(next, last, NoName, l) = "drop"}
      /\ ch.refused = {l \in L : After(next, l) = {} /\ validateFieldChange(next, last, NoName, l) = "refused"}
  BY <1>3 DEF Changes
<1>5. \A f \in N : was[f] \in {NoName} \cup (L \cap {f, next.fields[f].was})
  BY <1>2, BeforeIsMeant
<1>. HIDE DEF ch, was
<1>6. /\ ch.drop = {l \in L : After(next, l) = {}}
      /\ ch.drop \cap next.fts = {}
  BY <1>1, <1>2, <1>4 DEF validateFieldChange
<1>7. \A f \in N : validateFieldChange(next, last, f, was[f]) =
                     IF was[f] = NoName THEN "create"
                     ELSE IF f = was[f] /\ next.fields[f] = last.fields[was[f]] THEN "same" ELSE "alter"
  BY <1>1 DEF validateFieldChange
<1>8. /\ ch.create = {f \in N : was[f] = NoName}
      /\ ch.rename = {f \in N : was[f] \notin {NoName, f}}
      /\ ch.alter = {f \in N : was[f] # NoName /\ next.fields[f].def # last.fields[was[f]].def}
  BY <1>4, <1>7
<1>9. \A f \in N : was[f] # NoName => was[f] \in L \ ch.drop
  BY <1>5, <1>6 DEF After
<1>10. ASSUME NEW f \in N
       PROVE  /\ next.fields[f].was \in L => was[f] = next.fields[f].was
              /\ next.fields[f].was \notin L /\ f \in L =>
                   was[f] = IF \A g \in N : g # f => next.fields[g].was # f THEN f ELSE NoName
  <2>1. was[f] =
           CASE next.fields[f].was \in L -> next.fields[f].was
             [] next.fields[f].was \notin L /\ f \in L /\ RenamedTo(next, f, f) = {} -> f
             [] OTHER -> NoName
    BY DEF Meant, was
  <2>2. RenamedTo(next, f, f) = {} <=> \A g \in N : g # f => next.fields[g].was # f
    BY DEF RenamedTo
  <2>. QED
    BY <2>1, <2>2
<1>11. ASSUME NEW f \in N, NEW g \in N, was[f] = was[g], was[f] # NoName  PROVE f = g
  <2>1. was[f] \in L /\ was[f] \in {f, next.fields[f].was} /\ was[g] \in {g, next.fields[g].was}
    BY <1>5, <1>11
  <2>2. CASE next.fields[f].was = was[f] /\ next.fields[g].was = was[f]
    BY <1>2, <2>1, <2>2, OneClaims
  <2>3. CASE next.fields[f].was # was[f]
    BY <1>10, <1>11, <2>1, <2>3
  <2>4. CASE next.fields[g].was # was[f]
    BY <1>10, <1>11, <2>1, <2>4
  <2>. QED
    BY <2>2, <2>3, <2>4
<1>12. ASSUME NEW l \in L \ ch.drop  PROVE l \in ch.rename \/ \E f \in N : was[f] = l
  <2>1. PICK g \in N : g = l \/ next.fields[g].was = l
    BY <1>6 DEF After
  <2>2. CASE \E f \in N : next.fields[f].was = l
    BY <1>10, <2>2
  <2>3. CASE ~ \E f \in N : next.fields[f].was = l
    <3>1. l \in N /\ next.fields[l].was # l
      BY <2>1, <2>3
    <3>2. CASE next.fields[l].was \in L
      BY <1>1, <1>8, <1>10, <3>1, <3>2
    <3>3. CASE next.fields[l].was \notin L
      BY <1>10, <2>3, <3>1, <3>3
    <3>. QED
      BY <3>2, <3>3
  <2>. QED
    BY <2>2, <2>3
<1>13. ASSUME NEW f \in ch.create, f \in L  PROVE \E g \in ch.rename : was[g] = f
  <2>1. f \in N /\ was[f] = NoName
    BY <1>8
  <2>2. PICK g \in N : g # f /\ next.fields[g].was = f
    BY <1>1, <1>10, <1>13, <2>1
  <2>. QED
    BY <1>1, <1>8, <1>10, <1>13, <2>2
<1>. QED
  BY <1>4, <1>6, <1>8, <1>9, <1>11, <1>12, <1>13 DEF Coherent, was, ch

-----------------------------------------------------------------------------
(***************************************************************************)
(* The statements of alterTable, kind by kind.                             *)
(***************************************************************************)
LEMMA ColumnsDropped ==
  ASSUME NEW S, IsFiniteSet(S), NEW so, IsDb(so.db), NEW end,
         Leads(so, Each([c \in S |-> [do |-> "drop column", col |-> c]]), end)
  PROVE  /\ end.ok => so.ok /\ Less(so.db, end.db, "cols", S)
         /\ so.ok /\ (\A c \in S : Droppable(so.db, c)) => end.ok
<1>. DEFINE f == [c \in S |-> [do |-> "drop column", col |-> c]]
            key == [c \in S |-> c]
<1>1. \A D : D \subseteq S => {key[x] : x \in D} = D
  OBVIOUS
<1>2. ASSUME NEW db, NEW x \in S, IsDb(db)
      PROVE  Removes(db, f[x], "cols", key[x]) /\ (Possible(db, f[x]) <=> Droppable(db, x))
  <2>1. f[x] = [do |-> "drop column", col |-> x] /\ key[x] = x
    OBVIOUS
  <2>. HIDE DEF f, key
  <2>. QED
    BY <1>2, <2>1, DropColumn
<1>3. Leads(so, Each(f), end) /\ Drops(f, S, "cols", key)
  BY <1>2 DEF Drops
<1>. HIDE DEF f, key
<1>4. /\ end.ok => so.ok /\ Less(so.db, end.db, "cols", {key[x] : x \in S})
      /\ so.ok /\ AllDrop(f, S, "cols", key, so.db) => end.ok
  BY <1>3, DropsEffect DEF Parts
<1>5. ASSUME \A c \in S : Droppable(so.db, c)  PROVE AllDrop(f, S, "cols", key, so.db)
  <2>1. ASSUME NEW e, NEW D, NEW x, D \subseteq S, x \in S \ D, Less(so.db, e, "cols", {key[y] : y \in D})
        PROVE  Possible(e, f[x])
    <3>1. Less(so.db, e, "cols", D)
      BY <1>1, <2>1
    <3>2. /\ IsDb(e) /\ e.idx = so.db.idx /\ e.hooks = so.db.hooks
          /\ DOMAIN e.cols = DOMAIN so.db.cols \ D /\ \A c \in DOMAIN e.cols : e.cols[c] = so.db.cols[c]
      BY <3>1 DEF Less, SameBut, Parts
    <3>3. Droppable(e, x)
      BY <1>5, <2>1, <3>2 DEF Droppable
    <3>. QED
      BY <1>2, <2>1, <3>2, <3>3
  <2>. QED
    BY <2>1 DEF AllDrop
<1>. QED
  BY <1>1, <1>4, <1>5

Temps == [c \in ColumnNames |-> Temp(c)]
NewColumns(S, fields) == [c \in S |-> NewColumn(fields[c].def)]

LEMMA TempsAreNew ==
  /\ \A c \in ColumnNames : Temps[c] = Temp(c) /\ Temps[c] \notin ColumnNames
  /\ \A c, d \in ColumnNames : Temps[c] = Temps[d] => c = d
BY TempAssumption DEF Temps

LEMMA ColumnsAdded ==
  ASSUME NEW S, IsFiniteSet(S), S \subseteq ColumnNames, NEW fields, NEW so, IsDb(so.db), NEW end,
         Leads(so, Each([c \in S |-> [do |-> "add column", col |-> Temp(c), def |-> fields[c].def]]), end)
  PROVE  /\ end.ok => so.ok /\ More(so.db, end.db, "cols", S, Temps, NewColumns(S, fields))
         /\ so.ok /\ (\A c \in S : Temps[c] \notin DOMAIN so.db.cols) => end.ok
<1>. DEFINE f == [c \in S |-> [do |-> "add column", col |-> Temp(c), def |-> fields[c].def]]
            val == NewColumns(S, fields)
<1>1. \A c \in S : val[c] = NewColumn(fields[c].def)
  BY DEF NewColumns
<1>2. ASSUME NEW db, NEW x \in S, IsDb(db)
      PROVE  /\ Puts(db, f[x], "cols", Temps[x], val[x])
             /\ Possible(db, f[x]) <=> Temps[x] \notin DOMAIN db.cols
  <2>1. f[x] = [do |-> "add column", col |-> Temps[x], def |-> fields[x].def]
    BY TempsAreNew
  <2>. DEFINE k == Temps[x]
              v == fields[x].def
  <2>2. val[x] = NewColumn(v)
    BY <1>1
  <2>. HIDE DEF f, val, k, v
  <2>3. (Possible(db, f[x]) <=> k \notin DOMAIN db.cols) /\ Puts(db, f[x], "cols", k, NewColumn(v))
    BY <1>2, <2>1, AddColumn DEF k, v
  <2>. QED
    BY <2>2, <2>3 DEF k
<1>3. Leads(so, Each(f), end) /\ Adds(f, S, "cols", Temps, val)
  <2>1. DOMAIN f = S
    OBVIOUS
  <2>2. Leads(so, Each(f), end)
    OBVIOUS
  <2>. HIDE DEF f, val
  <2>. QED
    BY <1>2, <2>1, <2>2 DEF Adds
<1>. HIDE DEF f, val
<1>4. /\ end.ok => so.ok /\ More(so.db, end.db, "cols", S, Temps, val)
      /\ so.ok /\ AllAdd(f, S, "cols", Temps, val, so.db) => end.ok
  BY <1>3, AddsEffect DEF Parts
<1>5. ASSUME \A c \in S : Temps[c] \notin DOMAIN so.db.cols  PROVE AllAdd(f, S, "cols", Temps, val, so.db)
  <2>1. ASSUME NEW e, NEW D, NEW x, D \subseteq S, x \in S \ D, More(so.db, e, "cols", D, Temps, val)
        PROVE  Possible(e, f[x])
    <3>1. IsDb(e) /\ DOMAIN e.cols = DOMAIN so.db.cols \cup {Temps[c] : c \in D}
      BY <2>1 DEF More, SameBut
    <3>2. \A c \in D : Temps[c] # Temps[x]
      BY <2>1, TempsAreNew
    <3>3. Temps[x] \notin DOMAIN e.cols
      BY <1>5, <2>1, <3>1, <3>2
    <3>. QED
      BY <1>2, <2>1, <3>1, <3>3
  <2>. QED
    BY <2>1 DEF AllAdd
<1>. QED
  BY <1>4, <1>5 DEF val

(* Columns are renamed to new names, and these to the ones they get.       *)
LEMMA SetAside ==
  ASSUME NEW S, IsFiniteSet(S), S \subseteq ColumnNames, NEW was, Distinct(S, was),
         NEW so, IsDb(so.db), Within(S, was, DOMAIN so.db.cols), NEW end,
         Leads(so, Each([f \in S |-> [do |-> "rename column", col |-> was[f], to |-> Temp(f)]]), end)
  PROVE  /\ end.ok => so.ok /\ Moved(so.db, end.db, S, S, was, Temps)
         /\ so.ok /\ (\A f \in S : Temps[f] \notin DOMAIN so.db.cols) => end.ok
<1>. DEFINE g == [f \in S |-> [do |-> "rename column", col |-> was[f], to |-> Temp(f)]]
<1>1. Renames(g, S, was, Temps)
  BY TempsAreNew DEF Renames
<1>2. Leads(so, Each(g), end)
  OBVIOUS
<1>. HIDE DEF g
<1>3. /\ end.ok => so.ok /\ Moved(so.db, end.db, S, S, was, Temps)
      /\ so.ok /\ Unused(so.db, S, was, Temps) => end.ok
  BY <1>1, <1>2, RenamesEffect
<1>4. ASSUME \A f \in S : Temps[f] \notin DOMAIN so.db.cols  PROVE Unused(so.db, S, was, Temps)
  <2>1. ASSUME NEW e, NEW D, NEW x, D \subseteq S, x \in S \ D, Moved(so.db, e, S, D, was, Temps)
        PROVE  Temps[x] \notin DOMAIN e.cols
    <3>1. DOMAIN e.cols \subseteq DOMAIN so.db.cols \cup {Temps[y] : y \in D}
      BY <2>1 DEF Moved
    <3>2. \A y \in D : Temps[y] # Temps[x]
      BY <2>1, TempsAreNew
    <3>. QED
      BY <1>4, <2>1, <3>1, <3>2
  <2>. QED
    BY <2>1 DEF Unused
<1>. QED
  BY <1>3, <1>4

Same == [c \in ColumnNames |-> c]

LEMMA PutBack ==
  ASSUME NEW S, IsFiniteSet(S), S \subseteq ColumnNames,
         NEW so, IsDb(so.db), Within(S, Temps, DOMAIN so.db.cols), NEW end,
         Leads(so, Each([f \in S |-> [do |-> "rename column", col |-> Temp(f), to |-> f]]), end)
  PROVE  /\ end.ok => so.ok /\ Moved(so.db, end.db, S, S, Temps, Same)
         /\ so.ok /\ S \cap DOMAIN so.db.cols = {} => end.ok
<1>. DEFINE g == [f \in S |-> [do |-> "rename column", col |-> Temp(f), to |-> f]]
<1>0. \A f \in S : Same[f] = f
  BY DEF Same
<1>1. Renames(g, S, Temps, Same) /\ Distinct(S, Temps)
  BY <1>0, TempsAreNew DEF Renames, Distinct
<1>2. Leads(so, Each(g), end)
  OBVIOUS
<1>. HIDE DEF g
<1>3. /\ end.ok => so.ok /\ Moved(so.db, end.db, S, S, Temps, Same)
      /\ so.ok /\ Unused(so.db, S, Temps, Same) => end.ok
  BY <1>1, <1>2, RenamesEffect
<1>4. ASSUME S \cap DOMAIN so.db.cols = {}  PROVE Unused(so.db, S, Temps, Same)
  <2>1. ASSUME NEW e, NEW D, NEW x, D \subseteq S, x \in S \ D, Moved(so.db, e, S, D, Temps, Same)
        PROVE  Same[x] \notin DOMAIN e.cols
    <3>1. DOMAIN e.cols \subseteq DOMAIN so.db.cols \cup {Same[y] : y \in D}
      BY <2>1 DEF Moved
    <3>. QED
      BY <1>0, <1>4, <2>1, <3>1
  <2>. QED
    BY <2>1 DEF Unused
<1>. QED
  BY <1>3, <1>4

LEMMA IndexesDropped ==
  ASSUME NEW t, NEW S, IsFiniteSet(S), NEW so, IsDb(so.db), NEW end, Leads(so, DropIndexes(t, S), end)
  PROVE  /\ end.ok => so.ok /\ Less(so.db, end.db, "idx", {<<t.name, x>> : x \in S})
         /\ so.ok => end.ok
<1>. DEFINE f == [x \in S |-> [do |-> "drop index", key |-> <<t.name, x>>]]
            key == [x \in S |-> <<t.name, x>>]
<1>1. ASSUME NEW db, NEW x \in S, IsDb(db)
      PROVE  Possible(db, f[x]) /\ Removes(db, f[x], "idx", key[x])
  <2>. DEFINE k == <<t.name, x>>
  <2>1. f[x] = [do |-> "drop index", key |-> k] /\ key[x] = k
    OBVIOUS
  <2>. HIDE DEF f, key, k
  <2>. QED
    BY <1>1, <2>1, DropIndex
<1>2. Leads(so, Each(f), end) /\ Drops(f, S, "idx", key)
  BY <1>1 DEF Drops, DropIndexes
<1>3. {key[x] : x \in S} = {<<t.name, x>> : x \in S}
  OBVIOUS
<1>. HIDE DEF f, key
<1>4. /\ end.ok => so.ok /\ Less(so.db, end.db, "idx", {key[x] : x \in S})
      /\ so.ok /\ AllDrop(f, S, "idx", key, so.db) => end.ok
  BY <1>2, DropsEffect DEF Parts
<1>5. AllDrop(f, S, "idx", key, so.db)
  BY <1>1 DEF AllDrop, Less, SameBut
<1>. QED
  BY <1>3, <1>4, <1>5

LEMMA TriggersDropped ==
  ASSUME NEW t, NEW S, IsFiniteSet(S), NEW so, IsDb(so.db), NEW end, Leads(so, DropTriggers(t, S), end)
  PROVE  /\ end.ok => so.ok /\ Less(so.db, end.db, "trg", {<<t.name, x>> : x \in S})
         /\ so.ok => end.ok
<1>. DEFINE f == [x \in S |-> [do |-> "drop trigger", key |-> <<t.name, x>>]]
            key == [x \in S |-> <<t.name, x>>]
<1>1. ASSUME NEW db, NEW x \in S, IsDb(db)
      PROVE  Possible(db, f[x]) /\ Removes(db, f[x], "trg", key[x])
  <2>. DEFINE k == <<t.name, x>>
  <2>1. f[x] = [do |-> "drop trigger", key |-> k] /\ key[x] = k
    OBVIOUS
  <2>. HIDE DEF f, key, k
  <2>. QED
    BY <1>1, <2>1, DropTrigger
<1>2. Leads(so, Each(f), end) /\ Drops(f, S, "trg", key)
  BY <1>1 DEF Drops, DropTriggers
<1>3. {key[x] : x \in S} = {<<t.name, x>> : x \in S}
  OBVIOUS
<1>. HIDE DEF f, key
<1>4. /\ end.ok => so.ok /\ Less(so.db, end.db, "trg", {key[x] : x \in S})
      /\ so.ok /\ AllDrop(f, S, "trg", key, so.db) => end.ok
  BY <1>2, DropsEffect DEF Parts
<1>5. AllDrop(f, S, "trg", key, so.db)
  BY <1>1 DEF AllDrop, Less, SameBut
<1>. QED
  BY <1>3, <1>4, <1>5

Keys(t, S) == [x \in S |-> <<t.name, x>>]

LEMMA IndexesCreated ==
  ASSUME NEW t, NEW S, IsFiniteSet(S), NEW so, IsDb(so.db), NEW end, Leads(so, CreateIndexes(t, S), end)
  PROVE  /\ end.ok => so.ok /\ More(so.db, end.db, "idx", S, Keys(t, S), t.idx)
         /\ /\ so.ok /\ t.name = so.db.name
            /\ \A x \in S : <<t.name, x>> \notin DOMAIN so.db.idx /\ t.idx[x] \in DOMAIN so.db.cols
            => end.ok
<1>. DEFINE f == [x \in S |-> [do |-> "create index", key |-> <<t.name, x>>, col |-> t.idx[x]]]
            key == Keys(t, S)
            Ok(db, x) == Possible(db, f[x]) <=> /\ key[x] \notin DOMAIN db.idx /\ t.name = db.name
                                                /\ t.idx[x] \in DOMAIN db.cols
<1>1. ASSUME NEW db, NEW x \in S, IsDb(db)
      PROVE  Ok(db, x) /\ Puts(db, f[x], "idx", key[x], t.idx[x])
  <2>. DEFINE k == <<t.name, x>>
              v == t.idx[x]
              s == f[x]
  <2>1. s = [do |-> "create index", key |-> k, col |-> v] /\ key[x] = k /\ k[1] = t.name
    BY DEF Keys
  <2>. HIDE DEF f, key, k, v, s
  <2>2. CreatesIndex(db, s, k, v)
    BY <1>1, <2>1, CreateIndex, Zenon
  <2>. QED
    BY <2>1, <2>2 DEF CreatesIndex, s, v
<1>2. Leads(so, Each(f), end) /\ Adds(f, S, "idx", key, t.idx)
  <2>1. DOMAIN f = S
    OBVIOUS
  <2>2. Leads(so, Each(f), end)
    BY DEF CreateIndexes
  <2>. HIDE DEF f, key
  <2>. QED
    BY <1>1, <2>1, <2>2 DEF Adds
<1>3. \A x \in S : key[x] = <<t.name, x>>
  BY DEF Keys
<1>4. \A x, y \in S : key[x] = key[y] => x = y
  BY DEF Keys
<1>. HIDE DEF f, key
<1>5. /\ end.ok => so.ok /\ More(so.db, end.db, "idx", S, key, t.idx)
      /\ so.ok /\ AllAdd(f, S, "idx", key, t.idx, so.db) => end.ok
  BY <1>2, AddsEffect DEF Parts
<1>6. ASSUME t.name = so.db.name, \A x \in S : key[x] \notin DOMAIN so.db.idx /\ t.idx[x] \in DOMAIN so.db.cols
      PROVE  AllAdd(f, S, "idx", key, t.idx, so.db)
  <2>1. ASSUME NEW e, NEW D, NEW x, D \subseteq S, x \in S \ D, More(so.db, e, "idx", D, key, t.idx)
        PROVE  Possible(e, f[x])
    <3>1. /\ IsDb(e) /\ e.name = so.db.name /\ e.cols = so.db.cols
          /\ DOMAIN e.idx = DOMAIN so.db.idx \cup {key[y] : y \in D}
      BY <2>1 DEF More, SameBut, Parts
    <3>2. key[x] \notin DOMAIN e.idx
      BY <1>4, <1>6, <2>1, <3>1
    <3>. QED
      BY <1>1, <1>6, <2>1, <3>1, <3>2
  <2>. QED
    BY <2>1 DEF AllAdd
<1>. QED
  BY <1>3, <1>5, <1>6 DEF key

LEMMA TriggersCreated ==
  ASSUME NEW t, NEW S, IsFiniteSet(S), NEW so, IsDb(so.db), NEW end, Leads(so, CreateTriggers(t, S), end)
  PROVE  /\ end.ok => so.ok /\ More(so.db, end.db, "trg", S, Keys(t, S), t.trg)
         /\ /\ so.ok /\ t.name = so.db.name
            /\ \A x \in S : <<t.name, x>> \notin DOMAIN so.db.trg
            => end.ok
<1>. DEFINE f == [x \in S |-> [do |-> "create trigger", key |-> <<t.name, x>>, body |-> t.trg[x]]]
            key == Keys(t, S)
            Ok(db, x) == Possible(db, f[x]) <=> /\ key[x] \notin DOMAIN db.trg /\ t.name = db.name
<1>1. ASSUME NEW db, NEW x \in S, IsDb(db)
      PROVE  Ok(db, x) /\ Puts(db, f[x], "trg", key[x], t.trg[x])
  <2>. DEFINE k == <<t.name, x>>
              v == t.trg[x]
  <2>1. f[x] = [do |-> "create trigger", key |-> k, body |-> v] /\ key[x] = k /\ k[1] = t.name
    BY DEF Keys
  <2>. HIDE DEF f, key, k
  <2>. QED
    BY <1>1, <2>1, CreateTrigger
<1>2. Leads(so, Each(f), end) /\ Adds(f, S, "trg", key, t.trg)
  <2>1. DOMAIN f = S
    OBVIOUS
  <2>2. Leads(so, Each(f), end)
    BY DEF CreateTriggers
  <2>. HIDE DEF f, key
  <2>. QED
    BY <1>1, <2>1, <2>2 DEF Adds
<1>3. \A x \in S : key[x] = <<t.name, x>>
  BY DEF Keys
<1>4. \A x, y \in S : key[x] = key[y] => x = y
  BY DEF Keys
<1>. HIDE DEF f, key
<1>5. /\ end.ok => so.ok /\ More(so.db, end.db, "trg", S, key, t.trg)
      /\ so.ok /\ AllAdd(f, S, "trg", key, t.trg, so.db) => end.ok
  BY <1>2, AddsEffect DEF Parts
<1>6. ASSUME t.name = so.db.name, \A x \in S : key[x] \notin DOMAIN so.db.trg
      PROVE  AllAdd(f, S, "trg", key, t.trg, so.db)
  <2>1. ASSUME NEW e, NEW D, NEW x, D \subseteq S, x \in S \ D, More(so.db, e, "trg", D, key, t.trg)
        PROVE  Possible(e, f[x])
    <3>1. /\ IsDb(e) /\ e.name = so.db.name /\ e.cols = so.db.cols
          /\ DOMAIN e.trg = DOMAIN so.db.trg \cup {key[y] : y \in D}
      BY <2>1 DEF More, SameBut, Parts
    <3>2. key[x] \notin DOMAIN e.trg
      BY <1>4, <1>6, <2>1, <3>1
    <3>. QED
      BY <1>1, <1>6, <2>1, <3>1, <3>2
  <2>. QED
    BY <2>1 DEF AllAdd
<1>. QED
  BY <1>3, <1>5, <1>6 DEF key

-----------------------------------------------------------------------------
(***************************************************************************)
(* The columns, when their statements have run.                            *)
(***************************************************************************)
Dropping(last, ch) == \A c \in ch.drop : sqliteSupportedColumnAdd(last.fields[c].def)
Gone(last, ch) == IF Dropping(last, ch) THEN ch.drop ELSE {}
Added(next, ch) == {f \in ch.create : sqliteSupportedColumnAdd(next.fields[f].def)}

DropStatements(next, last, ch) ==
  IF Dropping(last, ch)
  THEN (IF next.name # last.name THEN <<[do |-> "rename table", to |-> next.name]>> ELSE <<>>)
       \o Each([c \in ch.drop |-> [do |-> "drop column", col |-> c]])
  ELSE <<>>

(* The columns that are gone when the first statements have run.           *)
Reduced(next, last, ch, db, e) ==
  /\ SameBut(db, e, {"cols", "name"})
  /\ e.name = (IF Dropping(last, ch) THEN next.name ELSE db.name)
  /\ DOMAIN e.cols = DOMAIN db.cols \ Gone(last, ch)
  /\ \A c \in DOMAIN e.cols : e.cols[c] = db.cols[c]

CanReduce(last, ch, db) == Dropping(last, ch) => \A c \in ch.drop : Droppable(db, c)

LEMMA DropPhase ==
  ASSUME NEW next, NEW last, NEW ch, IsFiniteSet(ch.drop)
  PROVE  /\ Listed(DropStatements(next, last, ch))
         /\ \A so, end :
              IsDb(so.db) /\ so.db.name = last.name /\ so.ok /\ Leads(so, DropStatements(next, last, ch), end) =>
                /\ end.ok => Reduced(next, last, ch, so.db, end.db)
                /\ CanReduce(last, ch, so.db) => end.ok
<1>. DEFINE first == IF next.name # last.name THEN <<[do |-> "rename table", to |-> next.name]>> ELSE <<>>
            rest == Each([c \in ch.drop |-> [do |-> "drop column", col |-> c]])
<1>1. Listed(first)
  BY OneOrNone
<1>2. Listed(rest)
  BY EachSweeps
<1>3. ASSUME NEW so, NEW end, IsDb(so.db), so.db.name = last.name, so.ok, Leads(so, first, end)
      PROVE  SameBut(so.db, end.db, {"name"}) /\ end.db.name = next.name /\ end.ok
  <2>1. CASE next.name # last.name
    <3>. DEFINE s == [do |-> "rename table", to |-> next.name]
    <3>1. end = Step(so, s)
      BY <1>3, <2>1, OneOrNone
    <3>. DEFINE to == next.name
    <3>2. s = [do |-> "rename table", to |-> to]
      OBVIOUS
    <3>. HIDE DEF s, to
    <3>3. Possible(so.db, s) /\ SameBut(so.db, Done(so.db, s), {"name"}) /\ Done(so.db, s).name = to
      <4>1. RenamesTable(so.db, s, to)
        BY <1>3, <3>2, RenameTable, Zenon
      <4>. QED
        BY <4>1 DEF RenamesTable
    <3>4. end.ok /\ end.db = Done(so.db, s)
      BY <1>3, <3>1, <3>3, Stepped
    <3>. QED
      BY <3>3, <3>4 DEF to
  <2>2. CASE next.name = last.name
    <3>1. end = so
      BY <1>3, <2>2, OneOrNone
    <3>. QED
      BY <1>3, <2>2, <3>1 DEF SameBut
  <2>. QED
    BY <2>1, <2>2
<1>4. ASSUME NEW so, NEW end, IsDb(so.db), Leads(so, rest, end)
      PROVE  /\ end.ok => so.ok /\ Less(so.db, end.db, "cols", ch.drop)
             /\ so.ok /\ (\A c \in ch.drop : Droppable(so.db, c)) => end.ok
  BY <1>4, ColumnsDropped
<1>5. DropStatements(next, last, ch) = IF Dropping(last, ch) THEN first \o rest ELSE <<>>
  BY DEF DropStatements
<1>. HIDE DEF first, rest
<1>6. /\ Listed(first \o rest)
      /\ \A so, end : Leads(so, first \o rest, end) => \E mid : Leads(so, first, mid) /\ Leads(mid, rest, end)
  BY <1>1, <1>2, Split
<1>7. Listed(DropStatements(next, last, ch))
  BY <1>5, <1>6, OneOrNone
<1>8. ASSUME NEW so, NEW end, IsDb(so.db), so.db.name = last.name, so.ok,
             Leads(so, DropStatements(next, last, ch), end)
      PROVE  /\ end.ok => Reduced(next, last, ch, so.db, end.db)
             /\ CanReduce(last, ch, so.db) => end.ok
  <2>1. CASE ~Dropping(last, ch)
    <3>1. end = so
      BY <1>5, <1>8, <2>1, OneOrNone
    <3>. QED
      BY <1>8, <2>1, <3>1 DEF Reduced, SameBut, Gone
  <2>2. CASE Dropping(last, ch)
    <3>1. PICK mid : Leads(so, first, mid) /\ Leads(mid, rest, end)
      BY <1>5, <1>6, <1>8, <2>2
    <3>2. SameBut(so.db, mid.db, {"name"}) /\ mid.db.name = next.name /\ mid.ok
      BY <1>3, <1>8, <3>1
    <3>3. /\ IsDb(mid.db) /\ mid.db.cols = so.db.cols /\ mid.db.idx = so.db.idx /\ mid.db.hooks = so.db.hooks
      BY <3>2 DEF SameBut, Parts
    <3>4. /\ end.ok => Less(mid.db, end.db, "cols", ch.drop)
          /\ (\A c \in ch.drop : Droppable(mid.db, c)) => end.ok
      BY <1>4, <3>1, <3>2, <3>3
    <3>5. \A c : Droppable(so.db, c) => Droppable(mid.db, c)
      BY <3>3 DEF Droppable
    <3>6. ASSUME end.ok  PROVE Reduced(next, last, ch, so.db, end.db)
      <4>1. Less(mid.db, end.db, "cols", ch.drop)
        BY <3>4, <3>6
      <4>2. SameBut(so.db, end.db, {"cols", "name"}) /\ end.db.name = next.name
        BY <3>2, <4>1 DEF SameBut, Less, Parts
      <4>. QED
        BY <2>2, <3>3, <4>1, <4>2 DEF Reduced, Gone, Less
    <3>. QED
      BY <2>2, <3>4, <3>5, <3>6 DEF CanReduce
  <2>. QED
    BY <2>1, <2>2
<1>. QED
  BY <1>7, <1>8

(* Every column is in its place, under its name.                           *)
Renamed(ch) == {ch.was[f] : f \in ch.rename}
Left(last, ch) == DOMAIN last.fields \ (Gone(last, ch) \cup Renamed(ch))

Arranged(next, last, ch, db, e) ==
  /\ SameBut(db, e, {"cols", "name", "idx", "hooks"})
  /\ e.name = (IF Dropping(last, ch) THEN next.name ELSE db.name)
  /\ DOMAIN e.cols = Left(last, ch) \cup Added(next, ch) \cup ch.rename
  /\ Left(last, ch) \cap (Added(next, ch) \cup ch.rename) = {}
  /\ \A c \in Left(last, ch) : e.cols[c] = db.cols[c]
  /\ \A f \in ch.rename : e.cols[f] = db.cols[ch.was[f]]
  /\ \A f \in Added(next, ch) : e.cols[f] = NewColumn(next.fields[f].def)
  /\ DOMAIN db.idx = {} => e.idx = db.idx
  /\ (\A h \in DOMAIN db.hooks : db.hooks[h] \subseteq ColumnNames \ Renamed(ch)) => e.hooks = db.hooks

(* What the four steps do to the columns, taken together.                  *)
InPlace(L, D, W, A, R, was, val, d, e) ==
  /\ DOMAIN e.cols = (L \ (D \cup W)) \cup A \cup R
  /\ (L \ (D \cup W)) \cap (A \cup R) = {}
  /\ \A c \in L \ (D \cup W) : e.cols[c] = d.cols[c]
  /\ \A f \in R : e.cols[f] = d.cols[was[f]]
  /\ \A f \in A : e.cols[f] = val[f]

LEMMA ColumnsArranged ==
  ASSUME NEW L, L \subseteq ColumnNames, NEW D, D \subseteq L, NEW A, A \subseteq ColumnNames,
         NEW R, R \subseteq ColumnNames, A \cap R = {}, NEW was, Within(R, was, L \ D), Distinct(R, was), NEW val,
         NEW W, W = {was[f] : f \in R},
         NEW d0, DOMAIN d0.cols = L,
         NEW d1, DOMAIN d1.cols = L \ D, \A c \in L \ D : d1.cols[c] = d0.cols[c],
         NEW d2, More(d1, d2, "cols", A, Temps, val),
         NEW d3, Moved(d2, d3, R, R, was, Temps),
         NEW d4, Moved(d3, d4, A \cup R, A \cup R, Temps, Same)
  PROVE  InPlace(L, D, W, A, R, was, val, d0, d4)
<1>. DEFINE rest == L \ (D \cup W)
            T(S) == {Temps[f] : f \in S}
<1>1. /\ DOMAIN d2.cols = (L \ D) \cup T(A)
      /\ \A c \in L \ D : d2.cols[c] = d0.cols[c]
      /\ \A f \in A : d2.cols[Temps[f]] = val[f]
  BY DEF More
<1>2. W \subseteq L \ D /\ W \cap T(A) = {} /\ rest \cap T(A) = {}
  BY TempsAreNew DEF Within
<1>3. /\ DOMAIN d3.cols = (DOMAIN d2.cols \ W) \cup T(R)
      /\ \A c \in DOMAIN d2.cols \ W : d3.cols[c] = d2.cols[c]
      /\ \A f \in R : d3.cols[Temps[f]] = d2.cols[was[f]]
  BY DEF Moved
<1>4. /\ DOMAIN d4.cols = (DOMAIN d3.cols \ T(A \cup R)) \cup {Same[f] : f \in A \cup R}
      /\ \A c \in DOMAIN d3.cols \ T(A \cup R) : d4.cols[c] = d3.cols[c] /\ \A f \in A \cup R : Same[f] # c
      /\ \A f \in A \cup R : d4.cols[Same[f]] = d3.cols[Temps[f]]
  BY DEF Moved
<1>5. {Same[f] : f \in A \cup R} = A \cup R /\ \A f \in A \cup R : Same[f] = f
  BY DEF Same
<1>6. T(A \cup R) = T(A) \cup T(R)
  OBVIOUS
<1>7. rest \cap T(A \cup R) = {}
  BY TempsAreNew
<1>8. \A f \in A : Temps[f] \in T(A)
  OBVIOUS
<1>9. \A f \in R : was[f] \in L \ D
  BY DEF Within
<1>. HIDE DEF T
<1>10. DOMAIN d2.cols \ W = rest \cup T(A)
  BY <1>1, <1>2
<1>11. DOMAIN d3.cols \ T(A \cup R) = rest
  BY <1>3, <1>6, <1>7, <1>10
<1>. HIDE DEF rest
<1>12. DOMAIN d4.cols = rest \cup A \cup R /\ rest \cap (A \cup R) = {}
  <2>1. DOMAIN d4.cols = rest \cup (A \cup R)
    BY <1>4, <1>5, <1>11, Zenon
  <2>2. ASSUME NEW c \in rest, c \in A \cup R  PROVE FALSE
    <3>1. Same[c] = c /\ Same[c] # c
      BY <1>4, <1>5, <1>11, <2>2
    <3>. QED
      BY <3>1
  <2>. QED
    BY <2>1, <2>2
<1>13. rest \subseteq L \ D /\ rest \subseteq DOMAIN d2.cols \ W
  BY <1>10 DEF rest
<1>14. \A c \in rest : d4.cols[c] = d0.cols[c]
  BY <1>1, <1>3, <1>4, <1>11, <1>13
<1>15. \A f \in R : d4.cols[f] = d0.cols[was[f]]
  BY <1>1, <1>3, <1>4, <1>5, <1>9
<1>16. \A f \in A : d4.cols[f] = val[f]
  BY <1>1, <1>3, <1>4, <1>5, <1>8, <1>10
<1>. QED
  BY <1>12, <1>14, <1>15, <1>16 DEF rest, InPlace

CanArrange(next, last, ch, db) ==
  CanReduce(last, ch, db) /\ Left(last, ch) \cap (Added(next, ch) \cup ch.rename) = {}

(* The four steps over the columns.                                        *)
LEMMA ColumnsPhase ==
  ASSUME NEW next \in AnyTable, NEW last \in AnyTable, NEW ch, Coherent(next, last, ch)
  PROVE  /\ Listed(ColumnStatements(next, last, ch))
         /\ \A so, end :
              IsDb(so.db) /\ so.db.name = last.name /\ DOMAIN so.db.cols = DOMAIN last.fields /\ so.ok
                  /\ Leads(so, ColumnStatements(next, last, ch), end) =>
                   /\ end.ok => Arranged(next, last, ch, so.db, end.db)
                   /\ CanArrange(next, last, ch, so.db) => end.ok
<1>. DEFINE L == DOMAIN last.fields
            D == Gone(last, ch)
            A == Added(next, ch)
            R == ch.rename
            val == NewColumns(A, next.fields)
            s1 == DropStatements(next, last, ch)
            s2 == Each([f \in A |-> [do |-> "add column", col |-> Temp(f), def |-> next.fields[f].def]])
            s3 == Each([f \in R |-> [do |-> "rename column", col |-> ch.was[f], to |-> Temp(f)]])
            s4 == Each([f \in A \cup R |-> [do |-> "rename column", col |-> Temp(f), to |-> f]])
<1>1. ColumnStatements(next, last, ch) = ((s1 \o s2) \o s3) \o s4
  BY DEF ColumnStatements, DropStatements, Dropping, Added
<1>2. /\ L \subseteq ColumnNames /\ IsFiniteSet(L) /\ DOMAIN next.fields \subseteq ColumnNames
      /\ IsFiniteSet(DOMAIN next.fields)
  BY TableFacts
<1>3. /\ A \subseteq DOMAIN next.fields /\ R \subseteq DOMAIN next.fields /\ A \cap R = {} /\ ch.drop \subseteq L
      /\ D \subseteq ch.drop /\ Within(R, ch.was, L \ D) /\ Distinct(R, ch.was)
  <2>1. /\ A \subseteq ch.create /\ D \subseteq ch.drop /\ ch.drop \subseteq L
        /\ ch.create = {f \in DOMAIN next.fields : ch.was[f] = NoName}
        /\ ch.rename = {f \in DOMAIN next.fields : ch.was[f] \notin {NoName, f}}
    BY DEF Added, Gone, Coherent
  <2>2. Within(R, ch.was, L \ D)
    BY <2>1 DEF Within, Coherent
  <2>3. Distinct(R, ch.was)
    BY <2>1 DEF Distinct, Coherent
  <2>. QED
    BY <2>1, <2>2, <2>3
<1>. HIDE DEF L, D, A, R
<1>4. /\ IsFiniteSet(A) /\ IsFiniteSet(R) /\ IsFiniteSet(A \cup R) /\ IsFiniteSet(ch.drop)
      /\ A \subseteq ColumnNames /\ R \subseteq ColumnNames /\ A \cup R \subseteq ColumnNames
  <2>1. /\ A \cup R \subseteq DOMAIN next.fields /\ A \cup R \subseteq ColumnNames
        /\ A \subseteq DOMAIN next.fields /\ R \subseteq DOMAIN next.fields
    BY <1>2, <1>3
  <2>. QED
    BY <1>2, <1>3, <2>1, FS_Subset
<1>5. /\ Listed(s1)
      /\ \A so, end :
           IsDb(so.db) /\ so.db.name = last.name /\ so.ok /\ Leads(so, s1, end) =>
             /\ end.ok => Reduced(next, last, ch, so.db, end.db)
             /\ CanReduce(last, ch, so.db) => end.ok
  BY <1>4, DropPhase
<1>6. Listed(s2) /\ Listed(s3) /\ Listed(s4)
  <2>1. /\ DOMAIN [f \in A |-> [do |-> "add column", col |-> Temp(f), def |-> next.fields[f].def]] = A
        /\ DOMAIN [f \in R |-> [do |-> "rename column", col |-> ch.was[f], to |-> Temp(f)]] = R
        /\ DOMAIN [f \in A \cup R |-> [do |-> "rename column", col |-> Temp(f), to |-> f]] = A \cup R
    OBVIOUS
  <2>. QED
    BY <1>4, <2>1, EachSweeps
<1>7. \A so, end : IsDb(so.db) /\ Leads(so, s2, end) =>
        /\ end.ok => so.ok /\ More(so.db, end.db, "cols", A, Temps, val)
        /\ so.ok /\ (\A f \in A : Temps[f] \notin DOMAIN so.db.cols) => end.ok
  BY <1>4, ColumnsAdded
<1>8. \A so, end : IsDb(so.db) /\ Within(R, ch.was, DOMAIN so.db.cols) /\ Leads(so, s3, end) =>
        /\ end.ok => so.ok /\ Moved(so.db, end.db, R, R, ch.was, Temps)
        /\ so.ok /\ (\A f \in R : Temps[f] \notin DOMAIN so.db.cols) => end.ok
  BY <1>3, <1>4, SetAside
<1>9. \A so, end : IsDb(so.db) /\ Within(A \cup R, Temps, DOMAIN so.db.cols) /\ Leads(so, s4, end) =>
        /\ end.ok => so.ok /\ Moved(so.db, end.db, A \cup R, A \cup R, Temps, Same)
        /\ so.ok /\ (A \cup R) \cap DOMAIN so.db.cols = {} => end.ok
  BY <1>4, PutBack
<1>. HIDE DEF s1, s2, s3, s4, val
<1>10. /\ Listed(((s1 \o s2) \o s3) \o s4)
       /\ \A so, end : Leads(so, ((s1 \o s2) \o s3) \o s4, end) =>
            \E m1, m2, m3 : Leads(so, s1, m1) /\ Leads(m1, s2, m2) /\ Leads(m2, s3, m3) /\ Leads(m3, s4, end)
  <2>1. /\ Listed(s1 \o s2)
        /\ \A so, end : Leads(so, s1 \o s2, end) => \E m : Leads(so, s1, m) /\ Leads(m, s2, end)
    BY <1>5, <1>6, Split
  <2>2. /\ Listed((s1 \o s2) \o s3)
        /\ \A so, end : Leads(so, (s1 \o s2) \o s3, end) => \E m : Leads(so, s1 \o s2, m) /\ Leads(m, s3, end)
    BY <1>6, <2>1, Split
  <2>3. /\ Listed(((s1 \o s2) \o s3) \o s4)
        /\ \A so, end : Leads(so, ((s1 \o s2) \o s3) \o s4, end) =>
             \E m : Leads(so, (s1 \o s2) \o s3, m) /\ Leads(m, s4, end)
    BY <1>6, <2>2, Split
  <2>. QED
    BY <2>1, <2>2, <2>3
<1>11. ASSUME NEW so, NEW end, IsDb(so.db), so.db.name = last.name, DOMAIN so.db.cols = L, so.ok,
              Leads(so, ((s1 \o s2) \o s3) \o s4, end)
       PROVE  /\ end.ok => Arranged(next, last, ch, so.db, end.db)
              /\ CanArrange(next, last, ch, so.db) => end.ok
  <2>1. PICK m1, m2, m3 : Leads(so, s1, m1) /\ Leads(m1, s2, m2) /\ Leads(m2, s3, m3) /\ Leads(m3, s4, end)
    BY <1>10, <1>11
  <2>2. /\ m1.ok => Reduced(next, last, ch, so.db, m1.db)
        /\ CanReduce(last, ch, so.db) => m1.ok
    BY <1>5, <1>11, <2>1
  <2>3. (m2.ok => m1.ok) /\ (m3.ok => m2.ok) /\ (end.ok => m3.ok)
    BY <1>6, <2>1, OkBefore
  <2>4. ASSUME m1.ok
        PROVE  /\ SameBut(so.db, m1.db, {"cols", "name"}) /\ IsDb(m1.db)
               /\ m1.db.name = (IF Dropping(last, ch) THEN next.name ELSE so.db.name)
               /\ DOMAIN m1.db.cols = L \ D /\ \A c \in L \ D : m1.db.cols[c] = so.db.cols[c]
    <3>1. Reduced(next, last, ch, so.db, m1.db)
      BY <2>2, <2>4
    <3>. QED
      BY <1>11, <3>1 DEF Reduced, SameBut, D
  <2>5. /\ m2.ok => More(m1.db, m2.db, "cols", A, Temps, val)
        /\ m1.ok /\ (\A f \in A : Temps[f] \notin DOMAIN m1.db.cols) => m2.ok
    BY <1>7, <2>1, <2>3, <2>4
  <2>6. ASSUME m2.ok
        PROVE  IsDb(m2.db) /\ Within(R, ch.was, DOMAIN m2.db.cols) /\ DOMAIN m2.db.cols = (L \ D) \cup {Temps[f] : f \in A}
    <3>1. IsDb(m2.db) /\ DOMAIN m2.db.cols = (L \ D) \cup {Temps[f] : f \in A}
      BY <2>3, <2>4, <2>5, <2>6 DEF More, SameBut
    <3>. QED
      BY <1>3, <3>1 DEF Within
  <2>7. /\ m3.ok => Moved(m2.db, m3.db, R, R, ch.was, Temps)
        /\ m2.ok /\ (\A f \in R : Temps[f] \notin DOMAIN m2.db.cols) => m3.ok
    BY <1>8, <2>1, <2>3, <2>6
  <2>8. ASSUME m3.ok
        PROVE  /\ IsDb(m3.db) /\ Within(A \cup R, Temps, DOMAIN m3.db.cols)
               /\ DOMAIN m3.db.cols = (DOMAIN m2.db.cols \ Renamed(ch)) \cup {Temps[f] : f \in R}
    <3>1. IsDb(m3.db) /\ DOMAIN m3.db.cols = (DOMAIN m2.db.cols \ Renamed(ch)) \cup {Temps[f] : f \in R}
      BY <2>7, <2>8 DEF Moved, SameBut, Renamed, R
    <3>2. Renamed(ch) \subseteq ColumnNames
      BY <1>2, <1>3 DEF Renamed, Within, R
    <3>3. \A f \in A : Temps[f] \in DOMAIN m2.db.cols /\ Temps[f] \notin Renamed(ch)
      BY <1>4, <2>3, <2>6, <2>8, <3>2, TempsAreNew
    <3>. QED
      BY <3>1, <3>3 DEF Within
  <2>9. /\ end.ok => Moved(m3.db, end.db, A \cup R, A \cup R, Temps, Same)
        /\ m3.ok /\ (A \cup R) \cap DOMAIN m3.db.cols = {} => end.ok
    BY <1>9, <2>1, <2>3, <2>8
  <2>10. ASSUME end.ok  PROVE Arranged(next, last, ch, so.db, end.db)
    <3>1. /\ m1.ok /\ m2.ok /\ m3.ok /\ More(m1.db, m2.db, "cols", A, Temps, val)
          /\ Moved(m2.db, m3.db, R, R, ch.was, Temps)
          /\ Moved(m3.db, end.db, A \cup R, A \cup R, Temps, Same)
      BY <2>3, <2>5, <2>7, <2>9, <2>10
    <3>2. /\ DOMAIN end.db.cols = (L \ (D \cup Renamed(ch))) \cup A \cup R
          /\ (L \ (D \cup Renamed(ch))) \cap (A \cup R) = {}
          /\ \A c \in L \ (D \cup Renamed(ch)) : end.db.cols[c] = so.db.cols[c]
          /\ \A f \in R : end.db.cols[f] = so.db.cols[ch.was[f]]
          /\ \A f \in A : end.db.cols[f] = val[f]
      <4>1. L \subseteq ColumnNames /\ D \subseteq L /\ A \subseteq ColumnNames /\ R \subseteq ColumnNames
        BY <1>2, <1>3, <1>4
      <4>2. A \cap R = {} /\ Within(R, ch.was, L \ D) /\ Distinct(R, ch.was)
        BY <1>3
      <4>3. Renamed(ch) = {ch.was[f] : f \in R}
        BY DEF Renamed, R
      <4>4. DOMAIN so.db.cols = L /\ DOMAIN m1.db.cols = L \ D /\ \A c \in L \ D : m1.db.cols[c] = so.db.cols[c]
        BY <1>11, <2>4, <3>1
      <4>5. InPlace(L, D, Renamed(ch), A, R, ch.was, val, so.db, end.db)
        BY <3>1, <4>1, <4>2, <4>3, <4>4, ColumnsArranged
      <4>. QED
        BY <4>5 DEF InPlace
    <3>3. /\ SameBut(so.db, end.db, {"cols", "name", "idx", "hooks"}) /\ end.db.name = m1.db.name
          /\ m2.db.idx = so.db.idx /\ m2.db.hooks = so.db.hooks
      BY <2>4, <3>1 DEF More, Moved, SameBut, Parts
    <3>4. DOMAIN so.db.idx = {} => end.db.idx = so.db.idx
      BY <3>1, <3>3 DEF Moved
    <3>5. ASSUME \A h \in DOMAIN so.db.hooks : so.db.hooks[h] \subseteq ColumnNames \ Renamed(ch)
          PROVE  end.db.hooks = so.db.hooks
      <4>1. \A h \in DOMAIN m2.db.hooks : \A f \in R : ch.was[f] \notin m2.db.hooks[h]
        BY <3>3, <3>5 DEF Renamed, R
      <4>2. m3.db.hooks = so.db.hooks
        BY <3>1, <3>3, <4>1 DEF Moved
      <4>3. \A h \in DOMAIN m3.db.hooks : \A f \in A \cup R : Temps[f] \notin m3.db.hooks[h]
        BY <1>4, <3>5, <4>2, TempsAreNew
      <4>. QED
        BY <3>1, <4>2, <4>3 DEF Moved
    <3>6. \A f \in A : val[f] = NewColumn(next.fields[f].def)
      BY DEF val, NewColumns
    <3>. QED
      BY <2>4, <3>1, <3>2, <3>3, <3>4, <3>5, <3>6 DEF Arranged, Left, L, D, A, R
  <2>11. ASSUME CanArrange(next, last, ch, so.db)  PROVE end.ok
    <3>1. m1.ok /\ (L \ (D \cup Renamed(ch))) \cap (A \cup R) = {}
      BY <2>2, <2>11 DEF CanArrange, Left, L, D, A, R
    <3>2. m2.ok
      <4>1. \A f \in A : Temps[f] \notin L \ D
        BY <1>2, <1>4, TempsAreNew
      <4>. QED
        BY <2>4, <2>5, <3>1, <4>1
    <3>3. m3.ok
      <4>1. \A f \in R : Temps[f] \notin (L \ D) \cup {Temps[g] : g \in A}
        BY <1>2, <1>3, <1>4, TempsAreNew
      <4>. QED
        BY <2>6, <2>7, <3>2, <4>1
    <3>4. (A \cup R) \cap DOMAIN m3.db.cols = {}
      <4>1. \A g \in A \cup R : Temps[g] \notin A \cup R
        BY <1>4, TempsAreNew
      <4>. QED
        BY <2>6, <2>8, <3>1, <3>2, <3>3, <4>1
    <3>. QED
      BY <2>9, <3>3, <3>4
  <2>. QED
    BY <2>10, <2>11
<1>12. \A so, end :
         IsDb(so.db) /\ so.db.name = last.name /\ DOMAIN so.db.cols = DOMAIN last.fields /\ so.ok
             /\ Leads(so, ColumnStatements(next, last, ch), end) =>
              /\ end.ok => Arranged(next, last, ch, so.db, end.db)
              /\ CanArrange(next, last, ch, so.db) => end.ok
  BY <1>1, <1>11 DEF L
<1>. QED
  BY <1>1, <1>10, <1>12

-----------------------------------------------------------------------------
(***************************************************************************)
(* The rest of alterTable: what is taken away first and put back last.     *)
(***************************************************************************)
KeysOf(t, S) == {<<t.name, x>> : x \in S}

(* What createTable makes.                                                 *)
MadeAs(t, from, db) ==
  /\ IsDb(db) /\ db.name = t.name
  /\ DOMAIN db.cols = DOMAIN t.fields
  /\ \A f \in DOMAIN t.fields : db.cols[f] = [def |-> t.fields[f].def, from |-> from[f]]
  /\ DOMAIN db.idx = KeysOf(t, DOMAIN t.idx) /\ \A i \in DOMAIN t.idx : db.idx[<<t.name, i>>] = t.idx[i]
  /\ DOMAIN db.trg = KeysOf(t, DOMAIN t.trg) /\ \A x \in DOMAIN t.trg : db.trg[<<t.name, x>>] = t.trg[x]

Searched(t, db) ==
  /\ t.fts # {} => db.fts[t.name] = t.fts
  /\ DOMAIN db.hooks = (IF t.fts = {} THEN {} ELSE {t.name}) /\ (t.fts # {} => db.hooks[t.name] = t.fts)

Fresh(t, from, db) ==
  MadeAs(t, from, db) /\ Searched(t, db) /\ DOMAIN db.fts = (IF t.fts = {} THEN {} ELSE {t.name})

SearchOf(f, k, v, g) == g = IF v = {} THEN Without(f, k) ELSE With(f, k, v)
HasSearch(f, k, v, g) ==
  (v # {} => g[k] = v) /\ (DOMAIN f \subseteq {k} => DOMAIN g = IF v = {} THEN {} ELSE {k})

LEMMA SearchTables ==
  ASSUME NEW f, NEW k, NEW v, NEW g, SearchOf(f, k, v, g)
  PROVE  HasSearch(f, k, v, g)
<1>. USE DEF SearchOf, HasSearch
<1>1. CASE v = {}
  <2>1. g = Without(f, k)
    BY <1>1
  <2>2. DOMAIN g = DOMAIN f \ {k}
    BY <2>1, WithFacts
  <2>. QED
    BY <1>1, <2>2
<1>2. CASE v # {}
  <2>1. g = With(f, k, v)
    BY <1>2
  <2>2. DOMAIN g = DOMAIN f \cup {k} /\ g[k] = v
    BY <2>1 DEF With
  <2>. QED
    BY <1>2, <2>2
<1>. QED
  BY <1>1, <1>2

LEMMA NewTableIsFresh ==
  ASSUME NEW db, IsDb(db), NEW t, NEW from, NEW e,
         e = NewTable(db, t, [f \in DOMAIN t.fields |-> [def |-> t.fields[f].def, from |-> from[f]]])
  PROVE  MadeAs(t, from, e) /\ Searched(t, e) /\ (DOMAIN db.fts \subseteq {t.name} => Fresh(t, from, e))
<1>. DEFINE name == t.name
            cols == [f \in DOMAIN t.fields |-> [def |-> t.fields[f].def, from |-> from[f]]]
            idx == [k \in {<<t.name, i>> : i \in DOMAIN t.idx} |-> t.idx[k[2]]]
            trg == [k \in {<<t.name, x>> : x \in DOMAIN t.trg} |-> t.trg[k[2]]]
            fts == IF t.fts = {} THEN Without(db.fts, t.name) ELSE With(db.fts, t.name, t.fts)
            hooks == [h \in (IF t.fts = {} THEN {} ELSE {t.name}) |-> t.fts]
<1>1. e = [db EXCEPT !.name = name, !.cols = cols, !.idx = idx, !.trg = trg, !.fts = fts, !.hooks = hooks]
  BY DEF NewTable
<1>2. Fcn(cols) /\ Fcn(idx) /\ Fcn(trg) /\ Fcn(hooks)
  BY DEF Fcn
<1>3. HasSearch(db.fts, t.name, t.fts, fts)
  <2>. DEFINE f == db.fts
              k == t.name
              v == t.fts
  <2>1. SearchOf(f, k, v, fts)
    BY DEF SearchOf
  <2>2. HasSearch(f, k, v, fts)
    <3>. HIDE DEF f, k, v, fts
    <3>. QED
      BY <2>1, SearchTables, Zenon
  <2>. QED
    BY <2>2
<1>4. /\ DOMAIN idx = KeysOf(t, DOMAIN t.idx) /\ \A i \in DOMAIN t.idx : idx[<<t.name, i>>] = t.idx[i]
      /\ DOMAIN trg = KeysOf(t, DOMAIN t.trg) /\ \A x \in DOMAIN t.trg : trg[<<t.name, x>>] = t.trg[x]
  BY DEF KeysOf
<1>5. /\ DOMAIN cols = DOMAIN t.fields
      /\ \A f \in DOMAIN t.fields : cols[f] = [def |-> t.fields[f].def, from |-> from[f]]
  OBVIOUS
<1>6. DOMAIN hooks = (IF t.fts = {} THEN {} ELSE {t.name}) /\ (t.fts # {} => hooks[t.name] = t.fts)
  OBVIOUS
<1>7. name = t.name
  OBVIOUS
<1>. HIDE DEF name, cols, idx, trg, fts, hooks
<1>8. /\ DOMAIN e = Parts /\ e.name = name /\ e.cols = cols /\ e.idx = idx /\ e.trg = trg
      /\ e.fts = fts /\ e.hooks = hooks
  BY <1>1 DEF IsDb, Parts
<1>9. IsDb(e)
  BY <1>2, <1>8 DEF IsDb
<1>10. MadeAs(t, from, e)
  BY <1>4, <1>5, <1>7, <1>8, <1>9 DEF MadeAs
<1>11. Searched(t, e)
  BY <1>3, <1>6, <1>8 DEF Searched, HasSearch
<1>12. DOMAIN db.fts \subseteq {t.name} => DOMAIN e.fts = (IF t.fts = {} THEN {} ELSE {t.name})
  BY <1>3, <1>8 DEF HasSearch
<1>. QED
  BY <1>10, <1>11, <1>12 DEF Fresh

LEMMA CreatedIsFresh ==
  ASSUME NEW t, NEW from
  PROVE  Fresh(t, from, Created(t, from))
<1>. DEFINE db == Empty
<1>1. DOMAIN db.fts \subseteq {t.name}
  BY DEF Empty
<1>2. IsDb(db)
  <2>1. DOMAIN db = Parts
    BY DEF Empty, Parts
  <2>2. Fcn(db.cols) /\ Fcn(db.idx) /\ Fcn(db.trg) /\ Fcn(db.hooks)
    BY DEF Fcn, Empty
  <2>. QED
    BY <2>1, <2>2 DEF IsDb
<1>. QED
  BY <1>1, <1>2, NewTableIsFresh DEF Created

ClearStatements(t, T, I, off) == DropTriggers(t, T) \o DropIndexes(t, I) \o (IF off THEN DropFts(t) ELSE <<>>)

Cleared(t, T, I, off, db, e) ==
  /\ SameBut(db, e, {"idx", "trg", "fts", "hooks"})
  /\ DOMAIN e.trg = KeysOf(t, DOMAIN t.trg \ T) /\ \A x \in DOMAIN t.trg \ T : e.trg[<<t.name, x>>] = t.trg[x]
  /\ DOMAIN e.idx = KeysOf(t, DOMAIN t.idx \ I) /\ \A i \in DOMAIN t.idx \ I : e.idx[<<t.name, i>>] = t.idx[i]
  /\ off => DOMAIN e.fts = {} /\ DOMAIN e.hooks = {}
  /\ ~off => e.fts = db.fts /\ e.hooks = db.hooks

(* The statements that take away never fail.                               *)
LEMMA ClearPhase ==
  ASSUME NEW t \in AnyTable, NEW T \in SUBSET DOMAIN t.trg, NEW I \in SUBSET DOMAIN t.idx, NEW off
  PROVE  /\ Listed(ClearStatements(t, T, I, off))
         /\ \A from, so, end : Fresh(t, from, so.db) /\ so.ok /\ Leads(so, ClearStatements(t, T, I, off), end) =>
              end.ok /\ Cleared(t, T, I, off, so.db, end.db)
<1>. DEFINE s1 == DropTriggers(t, T)
            s2 == DropIndexes(t, I)
            s3 == IF off THEN DropFts(t) ELSE <<>>
<1>1. IsFiniteSet(T) /\ IsFiniteSet(I)
  BY TableFacts, FS_Subset
<1>2. /\ DOMAIN [x \in T |-> [do |-> "drop trigger", key |-> <<t.name, x>>]] = T
      /\ DOMAIN [i \in I |-> [do |-> "drop index", key |-> <<t.name, i>>]] = I
  OBVIOUS
<1>3. Listed(s1) /\ Listed(s2)
  BY <1>1, <1>2, EachSweeps DEF DropTriggers, DropIndexes
<1>4. Listed(s3)
  BY OneOrNone DEF DropFts
<1>5. \A so, end : IsDb(so.db) /\ so.ok /\ Leads(so, s1, end) => end.ok /\ Less(so.db, end.db, "trg", KeysOf(t, T))
  BY <1>1, TriggersDropped DEF KeysOf
<1>6. \A so, end : IsDb(so.db) /\ so.ok /\ Leads(so, s2, end) => end.ok /\ Less(so.db, end.db, "idx", KeysOf(t, I))
  BY <1>1, IndexesDropped DEF KeysOf
<1>7. ASSUME NEW so, NEW end, IsDb(so.db), so.ok, Leads(so, s3, end),
             DOMAIN so.db.fts = (IF t.fts = {} THEN {} ELSE {t.name}),
             DOMAIN so.db.hooks = (IF t.fts = {} THEN {} ELSE {t.name})
      PROVE  /\ end.ok /\ SameBut(so.db, end.db, {"fts", "hooks"})
             /\ off => DOMAIN end.db.fts = {} /\ DOMAIN end.db.hooks = {}
             /\ ~off => end.db.fts = so.db.fts /\ end.db.hooks = so.db.hooks
  <2>1. CASE ~off \/ t.fts = {}
    <3>1. end = so
      BY <1>7, <2>1, OneOrNone DEF DropFts
    <3>. QED
      BY <1>7, <2>1, <3>1 DEF SameBut
  <2>2. CASE off /\ t.fts # {}
    <3>. DEFINE k == t.name
                s == [do |-> "drop fts", table |-> k]
    <3>1. end = Step(so, s)
      BY <1>7, <2>2, OneOrNone DEF DropFts
    <3>2. s = [do |-> "drop fts", table |-> k]
      OBVIOUS
    <3>. HIDE DEF s
    <3>3. DropsSearch(so.db, s, k)
      <4>. HIDE DEF k
      <4>. QED
        BY <1>7, <3>2, DropSearch, Zenon
    <3>4. end.ok /\ end.db = Done(so.db, s)
      BY <1>7, <3>1, <3>3, Stepped DEF DropsSearch
    <3>5. DOMAIN Without(so.db.fts, k) = {} /\ DOMAIN Without(so.db.hooks, k) = {}
      <4>1. \A f : DOMAIN Without(f, k) = DOMAIN f \ {k}
        BY WithFacts
      <4>2. DOMAIN so.db.fts = {k} /\ DOMAIN so.db.hooks = {k}
        BY <1>7, <2>2
      <4>. QED
        BY <4>1, <4>2
    <3>. QED
      BY <2>2, <3>3, <3>4, <3>5 DEF DropsSearch
  <2>. QED
    BY <2>1, <2>2
<1>8. ClearStatements(t, T, I, off) = (s1 \o s2) \o s3
  BY DEF ClearStatements
<1>. HIDE DEF s1, s2, s3
<1>9. /\ Listed((s1 \o s2) \o s3)
      /\ \A so, end : Leads(so, (s1 \o s2) \o s3, end) =>
           \E m1, m2 : Leads(so, s1, m1) /\ Leads(m1, s2, m2) /\ Leads(m2, s3, end)
  <2>1. /\ Listed(s1 \o s2)
        /\ \A so, end : Leads(so, s1 \o s2, end) => \E m : Leads(so, s1, m) /\ Leads(m, s2, end)
    BY <1>3, Split
  <2>2. /\ Listed((s1 \o s2) \o s3)
        /\ \A so, end : Leads(so, (s1 \o s2) \o s3, end) => \E m : Leads(so, s1 \o s2, m) /\ Leads(m, s3, end)
    BY <1>4, <2>1, Split
  <2>. QED
    BY <2>1, <2>2
<1>10. ASSUME NEW from, NEW so, NEW end, Fresh(t, from, so.db), so.ok, Leads(so, (s1 \o s2) \o s3, end)
       PROVE  end.ok /\ Cleared(t, T, I, off, so.db, end.db)
  <2>1. PICK m1, m2 : Leads(so, s1, m1) /\ Leads(m1, s2, m2) /\ Leads(m2, s3, end)
    BY <1>9, <1>10
  <2>2. IsDb(so.db)
    BY <1>10 DEF Fresh, MadeAs, Searched
  <2>3. m1.ok /\ Less(so.db, m1.db, "trg", KeysOf(t, T))
    BY <1>5, <1>10, <2>1, <2>2
  <2>4. IsDb(m1.db)
    BY <2>3 DEF Less, SameBut
  <2>5. m2.ok /\ Less(m1.db, m2.db, "idx", KeysOf(t, I))
    BY <1>6, <2>1, <2>3, <2>4
  <2>6. IsDb(m2.db) /\ m2.db.fts = so.db.fts /\ m2.db.hooks = so.db.hooks
    BY <2>3, <2>5 DEF Less, SameBut, Parts
  <2>7. /\ end.ok /\ SameBut(m2.db, end.db, {"fts", "hooks"})
        /\ off => DOMAIN end.db.fts = {} /\ DOMAIN end.db.hooks = {}
        /\ ~off => end.db.fts = m2.db.fts /\ end.db.hooks = m2.db.hooks
    BY <1>7, <1>10, <2>1, <2>5, <2>6 DEF Fresh, MadeAs, Searched
  <2>8. /\ SameBut(so.db, end.db, {"idx", "trg", "fts", "hooks"})
        /\ end.db.trg = m1.db.trg /\ end.db.idx = m2.db.idx /\ m1.db.idx = so.db.idx
    BY <2>3, <2>5, <2>7 DEF Less, SameBut, Parts
  <2>9. /\ DOMAIN end.db.trg = KeysOf(t, DOMAIN t.trg) \ KeysOf(t, T)
        /\ \A k \in DOMAIN end.db.trg : end.db.trg[k] = so.db.trg[k]
        /\ DOMAIN end.db.idx = KeysOf(t, DOMAIN t.idx) \ KeysOf(t, I)
        /\ \A k \in DOMAIN end.db.idx : end.db.idx[k] = so.db.idx[k]
    BY <1>10, <2>3, <2>5, <2>8 DEF Less, Fresh, MadeAs, Searched
  <2>10. \A S, Z : KeysOf(t, S) \ KeysOf(t, Z) = KeysOf(t, S \ Z)
    BY DEF KeysOf
  <2>11. /\ \A x \in DOMAIN t.trg \ T : end.db.trg[<<t.name, x>>] = t.trg[x]
         /\ \A x \in DOMAIN t.idx \ I : end.db.idx[<<t.name, x>>] = t.idx[x]
    <3>1. \A S : \A x \in S : <<t.name, x>> \in KeysOf(t, S)
      BY DEF KeysOf
    <3>2. DOMAIN end.db.trg = KeysOf(t, DOMAIN t.trg \ T) /\ DOMAIN end.db.idx = KeysOf(t, DOMAIN t.idx \ I)
      BY <2>9, <2>10
    <3>3. /\ \A x \in DOMAIN t.trg : so.db.trg[<<t.name, x>>] = t.trg[x]
          /\ \A x \in DOMAIN t.idx : so.db.idx[<<t.name, x>>] = t.idx[x]
      BY <1>10 DEF Fresh, MadeAs, Searched
    <3>4. ASSUME NEW x \in DOMAIN t.trg \ T  PROVE end.db.trg[<<t.name, x>>] = t.trg[x]
      <4>1. <<t.name, x>> \in DOMAIN end.db.trg
        BY <3>1, <3>2
      <4>. QED
        BY <2>9, <3>3, <4>1
    <3>5. ASSUME NEW x \in DOMAIN t.idx \ I  PROVE end.db.idx[<<t.name, x>>] = t.idx[x]
      <4>1. <<t.name, x>> \in DOMAIN end.db.idx
        BY <3>1, <3>2
      <4>. QED
        BY <2>9, <3>3, <4>1
    <3>. QED
      BY <3>4, <3>5
  <2>. QED
    BY <2>6, <2>7, <2>8, <2>9, <2>10, <2>11 DEF Cleared
<1>. QED
  BY <1>8, <1>9, <1>10

BuildStatements(t, I, T, on) == CreateIndexes(t, I) \o CreateTriggers(t, T) \o (IF on THEN CreateFts(t) ELSE <<>>)

Built(t, I, T, on, db, e) ==
  /\ SameBut(db, e, {"idx", "trg", "fts", "hooks"})
  /\ DOMAIN e.idx = DOMAIN db.idx \cup KeysOf(t, I) /\ \A k \in DOMAIN db.idx : e.idx[k] = db.idx[k]
  /\ \A i \in I : e.idx[<<t.name, i>>] = t.idx[i]
  /\ DOMAIN e.trg = DOMAIN db.trg \cup KeysOf(t, T) /\ \A k \in DOMAIN db.trg : e.trg[k] = db.trg[k]
  /\ \A x \in T : e.trg[<<t.name, x>>] = t.trg[x]
  /\ on /\ t.fts # {} => e.fts[t.name] = t.fts /\ e.hooks = With(db.hooks, t.name, t.fts)
  /\ ~on \/ t.fts = {} => e.fts = db.fts /\ e.hooks = db.hooks

CanBuild(t, I, T, on, db) ==
  /\ db.name = t.name
  /\ \A i \in I : <<t.name, i>> \notin DOMAIN db.idx /\ t.idx[i] \in DOMAIN db.cols
  /\ \A x \in T : <<t.name, x>> \notin DOMAIN db.trg
  /\ on => t.name \notin DOMAIN db.fts /\ t.fts \subseteq DOMAIN db.cols

LEMMA KeysAre ==
  ASSUME NEW t, NEW S
  PROVE  {Keys(t, S)[x] : x \in S} = KeysOf(t, S) /\ \A x \in S : Keys(t, S)[x] = <<t.name, x>>
BY DEF Keys, KeysOf

(* The statements that put back fail only for want of names or columns.    *)
LEMMA BuildPhase ==
  ASSUME NEW t \in AnyTable, NEW I \in SUBSET DOMAIN t.idx, NEW T \in SUBSET DOMAIN t.trg, NEW on
  PROVE  /\ Listed(BuildStatements(t, I, T, on))
         /\ \A so, end : IsDb(so.db) /\ so.ok /\ Leads(so, BuildStatements(t, I, T, on), end) =>
              /\ end.ok => Built(t, I, T, on, so.db, end.db)
              /\ CanBuild(t, I, T, on, so.db) => end.ok
<1>. DEFINE s1 == CreateIndexes(t, I)
            s2 == CreateTriggers(t, T)
            s3 == IF on THEN CreateFts(t) ELSE <<>>
<1>1. IsFiniteSet(T) /\ IsFiniteSet(I)
  BY TableFacts, FS_Subset
<1>2. /\ DOMAIN [x \in T |-> [do |-> "create trigger", key |-> <<t.name, x>>, body |-> t.trg[x]]] = T
      /\ DOMAIN [i \in I |-> [do |-> "create index", key |-> <<t.name, i>>, col |-> t.idx[i]]] = I
  OBVIOUS
<1>3. Listed(s1) /\ Listed(s2)
  BY <1>1, <1>2, EachSweeps DEF CreateTriggers, CreateIndexes
<1>4. Listed(s3)
  BY OneOrNone DEF CreateFts
<1>5. ASSUME NEW so, NEW end, IsDb(so.db), so.ok, Leads(so, s1, end)
      PROVE  /\ end.ok => More(so.db, end.db, "idx", I, Keys(t, I), t.idx)
             /\ CanBuild(t, I, T, on, so.db) => end.ok
  BY <1>1, <1>5, IndexesCreated DEF CanBuild
<1>6. ASSUME NEW so, NEW end, IsDb(so.db), so.ok, Leads(so, s2, end)
      PROVE  /\ end.ok => More(so.db, end.db, "trg", T, Keys(t, T), t.trg)
             /\ t.name = so.db.name /\ (\A x \in T : <<t.name, x>> \notin DOMAIN so.db.trg) => end.ok
  BY <1>1, <1>6, TriggersCreated
<1>7. ASSUME NEW so, NEW end, IsDb(so.db), so.ok, Leads(so, s3, end)
      PROVE  /\ end.ok => /\ SameBut(so.db, end.db, {"fts", "hooks"})
                          /\ on /\ t.fts # {} =>
                               end.db.fts[t.name] = t.fts /\ end.db.hooks = With(so.db.hooks, t.name, t.fts)
                          /\ ~on \/ t.fts = {} => end.db.fts = so.db.fts /\ end.db.hooks = so.db.hooks
             /\ t.name = so.db.name /\ (on => t.name \notin DOMAIN so.db.fts /\ t.fts \subseteq DOMAIN so.db.cols)
                  => end.ok
  <2>1. CASE ~on \/ t.fts = {}
    <3>1. end = so
      BY <1>7, <2>1, OneOrNone DEF CreateFts
    <3>. QED
      BY <1>7, <2>1, <3>1 DEF SameBut
  <2>2. CASE on /\ t.fts # {}
    <3>. DEFINE k == t.name
                v == t.fts
                s == [do |-> "create fts", table |-> k, cols |-> v]
    <3>1. end = Step(so, s)
      BY <1>7, <2>2, OneOrNone DEF CreateFts
    <3>2. s = [do |-> "create fts", table |-> k, cols |-> v]
      OBVIOUS
    <3>. HIDE DEF s
    <3>3. CreatesSearch(so.db, s, k, v)
      <4>. HIDE DEF k, v
      <4>. QED
        BY <1>7, <3>2, CreateSearch, Zenon
    <3>4. /\ end.ok => end.db = Done(so.db, s)
          /\ so.ok /\ Possible(so.db, s) => end.ok
      BY <3>1, Stepped
    <3>5. With(so.db.fts, k, v)[k] = v
      BY DEF With
    <3>. HIDE DEF k, v
    <3>6. /\ end.ok => /\ SameBut(so.db, end.db, {"fts", "hooks"})
                       /\ end.db.fts[k] = v /\ end.db.hooks = With(so.db.hooks, k, v)
          /\ k = so.db.name /\ k \notin DOMAIN so.db.fts /\ v \subseteq DOMAIN so.db.cols => end.ok
      BY <1>7, <3>3, <3>4, <3>5 DEF CreatesSearch
    <3>. QED
      BY <2>2, <3>6 DEF k, v
  <2>. QED
    BY <2>1, <2>2
<1>8. BuildStatements(t, I, T, on) = (s1 \o s2) \o s3
  BY DEF BuildStatements
<1>. HIDE DEF s1, s2, s3
<1>9. /\ Listed((s1 \o s2) \o s3)
      /\ \A so, end : Leads(so, (s1 \o s2) \o s3, end) =>
           \E m1, m2 : Leads(so, s1, m1) /\ Leads(m1, s2, m2) /\ Leads(m2, s3, end)
  <2>1. /\ Listed(s1 \o s2)
        /\ \A so, end : Leads(so, s1 \o s2, end) => \E m : Leads(so, s1, m) /\ Leads(m, s2, end)
    BY <1>3, Split
  <2>2. /\ Listed((s1 \o s2) \o s3)
        /\ \A so, end : Leads(so, (s1 \o s2) \o s3, end) => \E m : Leads(so, s1 \o s2, m) /\ Leads(m, s3, end)
    BY <1>4, <2>1, Split
  <2>. QED
    BY <2>1, <2>2
<1>10. ASSUME NEW so, NEW end, IsDb(so.db), so.ok, Leads(so, (s1 \o s2) \o s3, end)
       PROVE  /\ end.ok => Built(t, I, T, on, so.db, end.db)
              /\ CanBuild(t, I, T, on, so.db) => end.ok
  <2>1. PICK m1, m2 : Leads(so, s1, m1) /\ Leads(m1, s2, m2) /\ Leads(m2, s3, end)
    BY <1>9, <1>10
  <2>2. (m2.ok => m1.ok) /\ (end.ok => m2.ok)
    BY <1>3, <1>4, <2>1, OkBefore
  <2>3. /\ m1.ok => /\ SameBut(so.db, m1.db, {"idx"}) /\ DOMAIN m1.db.idx = DOMAIN so.db.idx \cup KeysOf(t, I)
                    /\ \A k \in DOMAIN so.db.idx : m1.db.idx[k] = so.db.idx[k]
                    /\ \A i \in I : m1.db.idx[<<t.name, i>>] = t.idx[i]
        /\ CanBuild(t, I, T, on, so.db) => m1.ok
    BY <1>5, <1>10, <2>1, KeysAre DEF More
  <2>4. m1.ok => IsDb(m1.db) /\ m1.db.name = so.db.name /\ m1.db.trg = so.db.trg
    BY <2>3 DEF SameBut, Parts
  <2>5. /\ m2.ok => /\ SameBut(m1.db, m2.db, {"trg"}) /\ DOMAIN m2.db.trg = DOMAIN so.db.trg \cup KeysOf(t, T)
                    /\ \A k \in DOMAIN so.db.trg : m2.db.trg[k] = so.db.trg[k]
                    /\ \A x \in T : m2.db.trg[<<t.name, x>>] = t.trg[x]
        /\ CanBuild(t, I, T, on, so.db) => m2.ok
    <3>1. m2.ok => More(m1.db, m2.db, "trg", T, Keys(t, T), t.trg)
      BY <1>6, <2>1, <2>2, <2>4
    <3>2. CanBuild(t, I, T, on, so.db) => m2.ok
      BY <1>6, <2>1, <2>3, <2>4 DEF CanBuild
    <3>. QED
      BY <2>2, <2>4, <3>1, <3>2, KeysAre DEF More
  <2>6. m2.ok => /\ SameBut(so.db, m2.db, {"idx", "trg"}) /\ m2.db.idx = m1.db.idx
                 /\ m2.db.name = so.db.name /\ m2.db.fts = so.db.fts /\ m2.db.hooks = so.db.hooks
                 /\ m2.db.cols = so.db.cols
    BY <2>2, <2>3, <2>5 DEF SameBut, Parts
  <2>7. m2.ok => IsDb(m2.db)
    BY <2>6 DEF SameBut
  <2>8. ASSUME end.ok  PROVE Built(t, I, T, on, so.db, end.db)
    <3>1. /\ SameBut(m2.db, end.db, {"fts", "hooks"})
          /\ on /\ t.fts # {} => end.db.fts[t.name] = t.fts /\ end.db.hooks = With(m2.db.hooks, t.name, t.fts)
          /\ ~on \/ t.fts = {} => end.db.fts = m2.db.fts /\ end.db.hooks = m2.db.hooks
      BY <1>7, <2>1, <2>2, <2>7, <2>8
    <3>2. SameBut(so.db, end.db, {"idx", "trg", "fts", "hooks"}) /\ end.db.idx = m1.db.idx /\ end.db.trg = m2.db.trg
      BY <2>2, <2>6, <2>8, <3>1 DEF SameBut, Parts
    <3>. QED
      BY <2>2, <2>3, <2>5, <2>6, <2>8, <3>1, <3>2 DEF Built
  <2>9. ASSUME CanBuild(t, I, T, on, so.db)  PROVE end.ok
    BY <1>7, <2>1, <2>5, <2>6, <2>7, <2>9 DEF CanBuild
  <2>. QED
    BY <2>8, <2>9
<1>. QED
  BY <1>8, <1>9, <1>10

CopiedFrom(db, t, S) == [f \in DOMAIN t.fields |-> IF f \in S THEN db.cols[f].from ELSE NoName]

LEMMA Recreate ==
  ASSUME NEW db, IsDb(db), NEW t, NEW S, NEW s, s = [do |-> "recreate", table |-> t, copied |-> S]
  PROVE  /\ Possible(db, s) <=> t.name = db.name /\ S \subseteq DOMAIN db.cols
         /\ MadeAs(t, CopiedFrom(db, t, S), Done(db, s)) /\ Searched(t, Done(db, s))
<1>. DEFINE from == CopiedFrom(db, t, S)
            cols == [f \in DOMAIN t.fields |->
                       [def |-> t.fields[f].def, from |-> IF f \in S THEN db.cols[f].from ELSE NoName]]
<1>1. s.do = "recreate" /\ s.table = t /\ s.copied = S
  OBVIOUS
<1>2. Possible(db, s) <=> t.name = db.name /\ S \subseteq DOMAIN db.cols
  BY <1>1 DEF Possible
<1>3. Done(db, s) = NewTable(db, t, cols)
  BY <1>1 DEF Done
<1>4. cols = [f \in DOMAIN t.fields |-> [def |-> t.fields[f].def, from |-> from[f]]]
  BY DEF CopiedFrom
<1>. HIDE DEF cols, from
<1>5. MadeAs(t, from, Done(db, s)) /\ Searched(t, Done(db, s))
  BY <1>3, <1>4, NewTableIsFresh
<1>. QED
  BY <1>2, <1>5 DEF from

(* Two tables made as one are one.                                         *)
LEMMA MadeTheSame ==
  ASSUME NEW t, NEW from, NEW d, NEW e, MadeAs(t, from, d), MadeAs(t, from, e)
  PROVE  /\ d.name = e.name /\ d.cols = e.cols /\ d.idx = e.idx /\ d.trg = e.trg
         /\ Searched(t, d) /\ Searched(t, e) => d.hooks = e.hooks
<1>1. /\ Fcn(d.cols) /\ Fcn(d.idx) /\ Fcn(d.trg) /\ Fcn(d.hooks)
      /\ Fcn(e.cols) /\ Fcn(e.idx) /\ Fcn(e.trg) /\ Fcn(e.hooks)
  BY DEF MadeAs, IsDb
<1>2. d.name = e.name
  BY DEF MadeAs
<1>3. d.cols = e.cols
  <2>1. DOMAIN d.cols = DOMAIN e.cols /\ \A x \in DOMAIN d.cols : d.cols[x] = e.cols[x]
    BY DEF MadeAs
  <2>. QED
    BY <1>1, <2>1, SameFcn
<1>4. d.idx = e.idx
  <2>1. DOMAIN d.idx = DOMAIN e.idx /\ \A x \in DOMAIN d.idx : d.idx[x] = e.idx[x]
    BY DEF MadeAs, KeysOf
  <2>. QED
    BY <1>1, <2>1, SameFcn
<1>5. d.trg = e.trg
  <2>1. DOMAIN d.trg = DOMAIN e.trg /\ \A x \in DOMAIN d.trg : d.trg[x] = e.trg[x]
    BY DEF MadeAs, KeysOf
  <2>. QED
    BY <1>1, <2>1, SameFcn
<1>6. ASSUME Searched(t, d), Searched(t, e)  PROVE d.hooks = e.hooks
  <2>1. DOMAIN d.hooks = DOMAIN e.hooks /\ \A x \in DOMAIN d.hooks : d.hooks[x] = e.hooks[x]
    BY <1>6 DEF Searched
  <2>. QED
    BY <1>1, <2>1, SameFcn
<1>. QED
  BY <1>2, <1>3, <1>4, <1>5, <1>6

(* Columns with the definitions and the values of the last table's.        *)
ColumnsOf(last, db) ==
  /\ DOMAIN db.cols = DOMAIN last.fields
  /\ \A l \in DOMAIN last.fields : db.cols[l] = [def |-> last.fields[l].def, from |-> l]

(* The columns are then those that the settings mean.                      *)
LEMMA ColumnsMeant ==
  ASSUME NEW next \in AnyTable, NEW last \in AnyTable, NEW ch, Coherent(next, last, ch),
         NEW d, ColumnsOf(last, d), NEW e, Arranged(next, last, ch, d, e)
  PROVE  /\ \A f \in DOMAIN next.fields \ ch.create : f \in DOMAIN e.cols /\ e.cols[f].from = ch.was[f]
         /\ ~NotPossible(next, last, ch) =>
              /\ DOMAIN e.cols = DOMAIN next.fields
              /\ \A f \in DOMAIN next.fields : e.cols[f] = [def |-> next.fields[f].def, from |-> ch.was[f]]
<1>. DEFINE N == DOMAIN next.fields
            L == DOMAIN last.fields
            was == ch.was
            G == Gone(last, ch)
<1>1. /\ ch.create = {f \in N : was[f] = NoName} /\ ch.rename = {f \in N : was[f] \notin {NoName, f}}
      /\ \A f \in N : was[f] # NoName => was[f] \in L \ ch.drop
      /\ \A f, g \in N : was[f] = was[g] /\ was[f] # NoName => f = g
      /\ \A l \in L \ ch.drop : l \in ch.rename \/ \E f \in N : was[f] = l
      /\ ch.alter = {f \in N : was[f] # NoName /\ next.fields[f].def # last.fields[was[f]].def}
  BY DEF Coherent
<1>2. G \subseteq ch.drop
  BY DEF Gone
<1>3. /\ DOMAIN e.cols = Left(last, ch) \cup Added(next, ch) \cup ch.rename
      /\ Left(last, ch) \cap (Added(next, ch) \cup ch.rename) = {}
      /\ \A c \in Left(last, ch) : e.cols[c] = d.cols[c]
      /\ \A f \in ch.rename : e.cols[f] = d.cols[was[f]]
      /\ \A f \in Added(next, ch) : e.cols[f] = NewColumn(next.fields[f].def)
  BY DEF Arranged
<1>4. \A l \in L : d.cols[l] = [def |-> last.fields[l].def, from |-> l]
  BY DEF ColumnsOf
<1>5. Left(last, ch) = L \ (G \cup Renamed(ch)) /\ Renamed(ch) = {was[f] : f \in ch.rename}
  BY DEF Left, Renamed
<1>. HIDE DEF N, L, was, G
<1>6. ASSUME NEW f \in N, was[f] = f, f # NoName  PROVE f \in Left(last, ch)
  <2>1. f \in L \ ch.drop
    BY <1>1, <1>6
  <2>2. \A g \in ch.rename : was[g] # f
    BY <1>1, <1>6
  <2>. QED
    BY <1>2, <1>5, <2>1, <2>2
<1>7. \A f \in N : f \in ch.create \/ f \in ch.rename \/ (was[f] = f /\ f # NoName)
  BY <1>1
<1>8. ASSUME NEW f \in N \ ch.create
      PROVE  /\ f \in DOMAIN e.cols /\ was[f] \in L
             /\ e.cols[f] = [def |-> last.fields[was[f]].def, from |-> was[f]]
  <2>1. was[f] \in L
    BY <1>1, <1>8
  <2>2. CASE f \in ch.rename
    BY <1>3, <1>4, <2>1, <2>2
  <2>3. CASE was[f] = f /\ f # NoName
    <3>1. f \in Left(last, ch)
      BY <1>6, <1>8, <2>3
    <3>. QED
      BY <1>3, <1>4, <2>1, <2>3, <3>1
  <2>. QED
    BY <1>7, <1>8, <2>2, <2>3
<1>9. ASSUME ~NotPossible(next, last, ch)
      PROVE  DOMAIN e.cols = N /\ \A f \in N : e.cols[f] = [def |-> next.fields[f].def, from |-> was[f]]
  <2>1. G = ch.drop /\ Added(next, ch) = ch.create /\ ch.alter = {}
    BY <1>9 DEF NotPossible, Gone, Dropping, Added, G
  <2>2. ch.create \subseteq N /\ ch.rename \subseteq N
    BY <1>1
  <2>3. ASSUME NEW l \in Left(last, ch)  PROVE l \in N
    <3>1. l \in L \ ch.drop /\ l \notin Renamed(ch)
      BY <1>5, <2>1, <2>3
    <3>2. CASE l \in ch.rename
      BY <2>2, <3>2
    <3>3. CASE l \notin ch.rename
      <4>1. PICK f \in N : was[f] = l
        BY <1>1, <3>1, <3>3
      <4>2. f \notin ch.rename
        BY <1>5, <3>1, <4>1
      <4>3. l # NoName
        <5>1. L \subseteq ColumnNames
          BY TableFacts DEF L
        <5>. QED
          BY <3>1, <5>1, TempAssumption
      <4>4. was[f] = f
        BY <1>1, <4>1, <4>2, <4>3
      <4>. QED
        BY <4>1, <4>4
    <3>. QED
      BY <3>2, <3>3
  <2>4. DOMAIN e.cols = N
    <3>1. \A f \in N : f \in DOMAIN e.cols
      BY <1>3, <1>8, <2>1
    <3>. QED
      BY <1>3, <2>1, <2>2, <2>3, <3>1
  <2>5. ASSUME NEW f \in N  PROVE e.cols[f] = [def |-> next.fields[f].def, from |-> was[f]]
    <3>1. CASE f \in ch.create
      <4>1. e.cols[f] = NewColumn(next.fields[f].def) /\ was[f] = NoName
        BY <1>1, <1>3, <2>1, <3>1
      <4>. QED
        BY <4>1 DEF NewColumn
    <3>2. CASE f \notin ch.create
      <4>1. next.fields[f].def = last.fields[was[f]].def
        BY <1>1, <2>1, <3>2
      <4>. QED
        BY <1>8, <3>2, <4>1
    <3>. QED
      BY <3>1, <3>2
  <2>. QED
    BY <2>4, <2>5
<1>10. ASSUME NEW f \in N \ ch.create  PROVE f \in DOMAIN e.cols /\ e.cols[f].from = was[f]
  <2>. DEFINE x == was[f]
              y == last.fields[x].def
  <2>1. f \in DOMAIN e.cols /\ e.cols[f] = [def |-> y, from |-> x]
    BY <1>8, <1>10
  <2>. HIDE DEF x, y
  <2>. QED
    BY <2>1 DEF x
<1>. QED
  BY <1>9, <1>10 DEF N, L, was

(* The indexes, and the triggers: those that differ, or all of them.       *)
Kind(t, last, a, b, O, N) ==
  \/ O = DOMAIN a /\ N = DOMAIN b
  \/ /\ t.name = last.name
     /\ O = {x \in DOMAIN a : x \notin DOMAIN b \/ b[x] # a[x]}
     /\ N = {x \in DOMAIN b : x \notin DOMAIN a \/ b[x] # a[x]}

TakenAway(last, a, O, e) ==
  DOMAIN e = KeysOf(last, DOMAIN a \ O) /\ \A x \in DOMAIN a \ O : e[<<last.name, x>>] = a[x]

PutThere(t, b, N, d, e) ==
  /\ DOMAIN e = DOMAIN d \cup KeysOf(t, N) /\ \A k \in DOMAIN d : e[k] = d[k]
  /\ \A x \in N : e[<<t.name, x>>] = b[x]

LEMMA EntriesMeant ==
  ASSUME NEW t, NEW last, NEW a, NEW b, NEW O, NEW N, Kind(t, last, a, b, O, N),
         NEW d, TakenAway(last, a, O, d)
  PROVE  /\ \A x \in N : <<t.name, x>> \notin DOMAIN d
         /\ \A e : PutThere(t, b, N, d, e) =>
              DOMAIN e = KeysOf(t, DOMAIN b) /\ \A x \in DOMAIN b : e[<<t.name, x>>] = b[x]
<1>1. CASE O = DOMAIN a /\ N = DOMAIN b
  <2>1. DOMAIN d = {}
    BY <1>1 DEF TakenAway, KeysOf
  <2>. QED
    BY <1>1, <2>1 DEF PutThere
<1>2. CASE /\ t.name = last.name
           /\ O = {x \in DOMAIN a : x \notin DOMAIN b \/ b[x] # a[x]}
           /\ N = {x \in DOMAIN b : x \notin DOMAIN a \/ b[x] # a[x]}
  <2>. DEFINE A == DOMAIN a
              B == DOMAIN b
  <2>1. /\ A \ O \subseteq B /\ (A \ O) \cup N = B /\ (A \ O) \cap N = {}
        /\ \A x \in A \ O : a[x] = b[x]
    BY <1>2
  <2>2. DOMAIN d = KeysOf(t, A \ O) /\ \A x \in A \ O : d[<<t.name, x>>] = b[x]
    BY <1>2, <2>1 DEF TakenAway, KeysOf
  <2>. HIDE DEF A, B
  <2>3. \A x \in N : <<t.name, x>> \notin DOMAIN d
    BY <2>1, <2>2 DEF KeysOf
  <2>4. ASSUME NEW e, PutThere(t, b, N, d, e)
        PROVE  DOMAIN e = KeysOf(t, B) /\ \A x \in B : e[<<t.name, x>>] = b[x]
    <3>1. DOMAIN e = DOMAIN d \cup KeysOf(t, N) /\ \A k \in DOMAIN d : e[k] = d[k]
      BY <2>4 DEF PutThere
    <3>2. DOMAIN e = KeysOf(t, B)
      BY <2>1, <2>2, <3>1 DEF KeysOf
    <3>3. ASSUME NEW x \in B  PROVE e[<<t.name, x>>] = b[x]
      <4>1. CASE x \in N
        BY <2>4, <4>1 DEF PutThere
      <4>2. CASE x \in A \ O
        <5>1. <<t.name, x>> \in DOMAIN d
          BY <2>2, <4>2 DEF KeysOf
        <5>. QED
          BY <2>2, <3>1, <4>2, <5>1
      <4>. QED
        BY <2>1, <4>1, <4>2
    <3>. QED
      BY <3>2, <3>3
  <2>. QED
    BY <2>3, <2>4 DEF B
<1>. QED
  BY <1>1, <1>2 DEF Kind

-----------------------------------------------------------------------------
(***************************************************************************)
(* The migration as a whole.                                               *)
(***************************************************************************)
Differs(next, last, ch) ==
  /\ ch.indexes = {i \in DOMAIN next.idx : i \notin DOMAIN last.idx \/ next.idx[i] # last.idx[i]}
  /\ ch.oldIndexes = {i \in DOMAIN last.idx : i \notin DOMAIN next.idx \/ next.idx[i] # last.idx[i]}
  /\ ch.triggers = {x \in DOMAIN next.trg : x \notin DOMAIN last.trg \/ next.trg[x] # last.trg[x]}
  /\ ch.oldTriggers = {x \in DOMAIN last.trg : x \notin DOMAIN next.trg \/ next.trg[x] # last.trg[x]}
  /\ ch.fts = (next.fts # last.fts)

Migrated(next, last, ch, db) ==
  LET want == Created(next, Meant(next, last))
  IN /\ db.name = want.name /\ db.cols = want.cols /\ db.idx = want.idx /\ db.trg = want.trg
     /\ ch.rename = {} \/ ch.fts =>
          db.hooks = want.hooks /\ \A t \in DOMAIN want.fts : db.fts[t] = want.fts[t]

Hindered(next, last, ch) ==
  LET anew == NotPossible(next, last, ch)
  IN \/ anew /\ next.name # last.name
     \/ anew /\ ch.drop \cap last.fts # {}
     \/ \E f \in ch.rename : f \in DOMAIN last.fields /\ \A g \in ch.rename : ch.was[g] # f

LEMMA MadeIsMigrated ==
  ASSUME NEW next, NEW last, NEW ch, NEW db, MadeAs(next, Meant(next, last), db),
         (ch.rename = {} \/ ch.fts) => Searched(next, db)
  PROVE  Migrated(next, last, ch, db)
<1>. DEFINE from == Meant(next, last)
            want == Created(next, from)
<1>1. MadeAs(next, from, want) /\ Searched(next, want) /\ DOMAIN want.fts = (IF next.fts = {} THEN {} ELSE {next.name})
  BY CreatedIsFresh DEF Fresh
<1>. HIDE DEF from, want
<1>2. /\ db.name = want.name /\ db.cols = want.cols /\ db.idx = want.idx /\ db.trg = want.trg
      /\ Searched(next, db) => db.hooks = want.hooks
  <2>1. MadeAs(next, from, db)
    BY DEF from
  <2>. QED
    BY <1>1, <2>1, MadeTheSame
<1>3. Searched(next, db) => \A t \in DOMAIN want.fts : db.fts[t] = want.fts[t]
  BY <1>1 DEF Searched
<1>4. want = Created(next, Meant(next, last))
  BY DEF want, from
<1>. QED
  BY <1>2, <1>3, <1>4 DEF Migrated

(* The parts of alterTable.                                                *)
Moving(next, last) == next.name # last.name
Clearing(next, last, ch) == Moving(next, last) \/ ColumnStatements(next, last, ch) # <<>>
Searching(next, last, ch) == ch.fts \/ Moving(next, last)
OldTriggers(next, last, ch) == IF Moving(next, last) THEN DOMAIN last.trg ELSE ch.oldTriggers
NewTriggers(next, last, ch) == IF Moving(next, last) THEN DOMAIN next.trg ELSE ch.triggers
OldIndexes(next, last, ch) == IF Clearing(next, last, ch) THEN DOMAIN last.idx ELSE ch.oldIndexes
NewIndexes(next, last, ch) == IF Clearing(next, last, ch) THEN DOMAIN next.idx ELSE ch.indexes
Unsearching(next, last, ch) == Searching(next, last, ch) /\ ~NotPossible(next, last, ch)

FirstHalf(next, last, ch) ==
  ClearStatements(last, OldTriggers(next, last, ch), OldIndexes(next, last, ch), Unsearching(next, last, ch))
  \o ColumnStatements(next, last, ch)

SecondHalf(next, last, ch) ==
  IF NotPossible(next, last, ch)
  THEN <<[do |-> "recreate", table |-> next, copied |-> DOMAIN next.fields \ ch.create]>>
  ELSE BuildStatements(next, NewIndexes(next, last, ch), NewTriggers(next, last, ch), Searching(next, last, ch))

(* alterTable takes away and changes the columns, then puts back.          *)
LEMMA Halves ==
  ASSUME NEW next, NEW last, NEW ch
  PROVE  alterTable(next, last, ch) = FirstHalf(next, last, ch) \o SecondHalf(next, last, ch)
BY DEF alterTable, FirstHalf, SecondHalf, ClearStatements, BuildStatements, Moving, Clearing, Searching,
       OldTriggers, NewTriggers, OldIndexes, NewIndexes, Unsearching

Deployed(last) == Created(last, [l \in DOMAIN last.fields |-> l])

AtHalf(next, last, ch, db) ==
  /\ IsDb(db) /\ db.name = (IF Dropping(last, ch) THEN next.name ELSE last.name)
  /\ TakenAway(last, last.idx, OldIndexes(next, last, ch), db.idx)
  /\ TakenAway(last, last.trg, OldTriggers(next, last, ch), db.trg)
  /\ \A f \in DOMAIN next.fields \ ch.create : f \in DOMAIN db.cols /\ db.cols[f].from = ch.was[f]
  /\ ~NotPossible(next, last, ch) =>
       /\ DOMAIN db.cols = DOMAIN next.fields
       /\ \A f \in DOMAIN next.fields : db.cols[f] = [def |-> next.fields[f].def, from |-> ch.was[f]]
  /\ Unsearching(next, last, ch) => DOMAIN db.fts = {} /\ DOMAIN db.hooks = {}
  /\ ~Unsearching(next, last, ch) /\ ch.rename = {} => Searched(last, db)

(* What alterTable has done when the columns have changed.                 *)
LEMMA FirstHalfRuns ==
  ASSUME NEW next \in AnyTable, NEW last \in AnyTable, NEW ch, Coherent(next, last, ch), Differs(next, last, ch)
  PROVE  /\ Listed(FirstHalf(next, last, ch))
         /\ \A end : Leads(Ready(Deployed(last)), FirstHalf(next, last, ch), end) =>
              /\ end.ok => AtHalf(next, last, ch, end.db)
              /\ ~Hindered(next, last, ch) => end.ok
<1>. DEFINE T == OldTriggers(next, last, ch)
            I == OldIndexes(next, last, ch)
            off == Unsearching(next, last, ch)
            columns == ColumnStatements(next, last, ch)
            clear == ClearStatements(last, T, I, off)
            from == [l \in DOMAIN last.fields |-> l]
            d0 == Deployed(last)
            so == Ready(d0)
<1>1. so.ok /\ so.db = d0 /\ Fresh(last, from, d0)
  BY CreatedIsFresh DEF Ready, Deployed
<1>2. T \in SUBSET DOMAIN last.trg /\ I \in SUBSET DOMAIN last.idx
  BY DEF OldTriggers, OldIndexes, Differs
<1>3. FirstHalf(next, last, ch) = clear \o columns
  BY DEF FirstHalf
<1>4. /\ IsDb(d0) /\ d0.name = last.name /\ DOMAIN d0.cols = DOMAIN last.fields
      /\ \A l \in DOMAIN last.fields : d0.cols[l] = [def |-> last.fields[l].def, from |-> l]
      /\ Searched(last, d0)
  BY <1>1 DEF Fresh, MadeAs
<1>. HIDE DEF T, I, off, columns, clear, from, d0, so
<1>5. /\ Listed(clear)
      /\ \A f, a, end : Fresh(last, f, a.db) /\ a.ok /\ Leads(a, clear, end) =>
           end.ok /\ Cleared(last, T, I, off, a.db, end.db)
  BY <1>2, ClearPhase DEF clear
<1>6. /\ Listed(columns)
      /\ \A a, end :
           IsDb(a.db) /\ a.db.name = last.name /\ DOMAIN a.db.cols = DOMAIN last.fields /\ a.ok
               /\ Leads(a, columns, end) =>
                /\ end.ok => Arranged(next, last, ch, a.db, end.db)
                /\ CanArrange(next, last, ch, a.db) => end.ok
  BY ColumnsPhase DEF columns
<1>7. /\ Listed(clear \o columns)
      /\ \A end : Leads(so, clear \o columns, end) => \E m : Leads(so, clear, m) /\ Leads(m, columns, end)
  BY <1>5, <1>6, Split
<1>8. ASSUME NEW end, Leads(so, clear \o columns, end)
      PROVE  /\ end.ok => AtHalf(next, last, ch, end.db)
             /\ ~Hindered(next, last, ch) => end.ok
  <2>1. PICK m : Leads(so, clear, m) /\ Leads(m, columns, end)
    BY <1>7, <1>8
  <2>. DEFINE d == m.db
              e == end.db
  <2>2. m.ok /\ Cleared(last, T, I, off, d0, d)
    BY <1>1, <1>5, <2>1
  <2>3. /\ IsDb(d) /\ d.name = last.name /\ d.cols = d0.cols
        /\ TakenAway(last, last.trg, T, d.trg) /\ TakenAway(last, last.idx, I, d.idx)
        /\ off => DOMAIN d.fts = {} /\ DOMAIN d.hooks = {}
        /\ ~off => d.fts = d0.fts /\ d.hooks = d0.hooks
    BY <1>4, <2>2 DEF Cleared, SameBut, Parts, TakenAway
  <2>4. /\ end.ok => Arranged(next, last, ch, d, e)
        /\ CanArrange(next, last, ch, d) => end.ok
    BY <1>4, <1>6, <2>1, <2>2, <2>3
  <2>5. columns = <<>> => end = m
    BY <2>1, OneOrNone
  <2>6. columns # <<>> => DOMAIN d.idx = {}
    <3>1. columns # <<>> => I = DOMAIN last.idx
      BY DEF I, OldIndexes, Clearing, columns
    <3>. QED
      BY <2>3, <3>1 DEF TakenAway, KeysOf
  <2>7. last.fts \subseteq ColumnNames
    BY TableFacts
  <2>8. ASSUME end.ok  PROVE AtHalf(next, last, ch, e)
    <3>1. Arranged(next, last, ch, d, e)
      BY <2>4, <2>8
    <3>2. /\ SameBut(d, e, {"cols", "name", "idx", "hooks"})
          /\ e.name = (IF Dropping(last, ch) THEN next.name ELSE last.name)
      BY <2>3, <3>1 DEF Arranged
    <3>3. IsDb(e) /\ e.trg = d.trg /\ e.fts = d.fts
      BY <3>2 DEF SameBut, Parts
    <3>4. e.idx = d.idx
      BY <2>5, <2>6, <3>1 DEF Arranged
    <3>5. off \/ ch.rename = {} => e.hooks = d.hooks
      <4>1. CASE off
        BY <2>3, <3>1, <4>1 DEF Arranged
      <4>2. CASE ~off /\ ch.rename = {}
        <5>1. Renamed(ch) = {}
          BY <4>2 DEF Renamed
        <5>2. \A h \in DOMAIN d.hooks : d.hooks[h] \subseteq ColumnNames
          BY <1>4, <2>3, <2>7, <4>2 DEF Searched
        <5>. QED
          BY <3>1, <5>1, <5>2 DEF Arranged
      <4>. QED
        BY <4>1, <4>2
    <3>6. ColumnsOf(last, d)
      BY <1>4, <2>3 DEF ColumnsOf
    <3>7. /\ \A f \in DOMAIN next.fields \ ch.create : f \in DOMAIN e.cols /\ e.cols[f].from = ch.was[f]
          /\ ~NotPossible(next, last, ch) =>
               /\ DOMAIN e.cols = DOMAIN next.fields
               /\ \A f \in DOMAIN next.fields : e.cols[f] = [def |-> next.fields[f].def, from |-> ch.was[f]]
      <4>. HIDE DEF d, e
      <4>. QED
        BY <3>1, <3>6, ColumnsMeant
    <3>8. off => DOMAIN e.fts = {} /\ DOMAIN e.hooks = {}
      BY <2>3, <3>3, <3>5
    <3>9. ~off /\ ch.rename = {} => Searched(last, e)
      BY <1>4, <2>3, <3>3, <3>5 DEF Searched
    <3>. HIDE DEF d, e
    <3>. QED
      BY <2>3, <3>2, <3>3, <3>4, <3>7, <3>8, <3>9 DEF AtHalf, T, I, off
  <2>9. ASSUME ~Hindered(next, last, ch)  PROVE end.ok
    <3>1. CASE columns = <<>>
      BY <2>2, <2>5, <3>1
    <3>2. CASE columns # <<>>
      <4>1. Left(last, ch) \cap (Added(next, ch) \cup ch.rename) = {}
        <5>1. ASSUME NEW l \in Left(last, ch), l \in ch.rename  PROVE FALSE
          <6>1. \E g \in ch.rename : ch.was[g] = l
            BY <2>9, <5>1 DEF Hindered, Left
          <6>. QED
            BY <5>1, <6>1 DEF Left, Renamed
        <5>2. ASSUME NEW l \in Left(last, ch), l \in Added(next, ch)  PROVE FALSE
          <6>1. \E g \in ch.rename : ch.was[g] = l
            BY <5>2 DEF Left, Added, Coherent
          <6>. QED
            BY <5>2, <6>1 DEF Left, Renamed
        <5>. QED
          BY <5>1, <5>2
      <4>2. ASSUME Dropping(last, ch), NEW c \in ch.drop  PROVE Droppable(d, c)
        <5>1. c \in DOMAIN last.fields /\ c \notin next.fts
          BY <4>2 DEF Coherent
        <5>2. c \in DOMAIN d.cols /\ d.cols[c].def # "unique"
          <6>1. last.fields[c].def # "unique"
            BY <4>2 DEF Dropping, sqliteSupportedColumnAdd
          <6>2. d.cols[c].def = last.fields[c].def
            <7>. DEFINE x == last.fields[c].def
            <7>1. d.cols[c] = [def |-> x, from |-> c]
              BY <1>4, <2>3, <5>1
            <7>. HIDE DEF x
            <7>2. d.cols[c].def = x
              BY <7>1
            <7>. QED
              BY <7>2 DEF x
          <6>. QED
            BY <1>4, <2>3, <5>1, <6>1, <6>2
        <5>3. \A h \in DOMAIN d.hooks : c \notin d.hooks[h]
          <6>1. CASE off
            BY <2>3, <6>1
          <6>2. CASE ~off
            <7>1. c \notin last.fts
              BY <2>9, <4>2, <5>1, <6>2 DEF off, Unsearching, Searching, Differs, Hindered
            <7>. QED
              BY <1>4, <2>3, <6>2, <7>1 DEF Searched
          <6>. QED
            BY <6>1, <6>2
        <5>. QED
          BY <2>6, <3>2, <5>2, <5>3 DEF Droppable
      <4>3. CanArrange(next, last, ch, d)
        BY <4>1, <4>2 DEF CanArrange, CanReduce
      <4>. QED
        BY <2>4, <4>3
    <3>. QED
      BY <3>1, <3>2
  <2>. QED
    BY <2>8, <2>9
<1>. QED
  BY <1>3, <1>7, <1>8 DEF so, d0

(* A table that need not be made anew gets what it lacks.                  *)
LEMMA BuildsTable ==
  ASSUME NEW next \in AnyTable, NEW last \in AnyTable, NEW ch, Coherent(next, last, ch), Differs(next, last, ch),
         ~NotPossible(next, last, ch)
  PROVE  /\ Listed(SecondHalf(next, last, ch))
         /\ \A so, end : AtHalf(next, last, ch, so.db) /\ so.ok /\ Leads(so, SecondHalf(next, last, ch), end) =>
              end.ok /\ Migrated(next, last, ch, end.db)
<1>. DEFINE T == NewTriggers(next, last, ch)
            I == NewIndexes(next, last, ch)
            O == OldTriggers(next, last, ch)
            P == OldIndexes(next, last, ch)
            on == Searching(next, last, ch)
            build == BuildStatements(next, I, T, on)
            from == Meant(next, last)
<1>1. T \in SUBSET DOMAIN next.trg /\ I \in SUBSET DOMAIN next.idx
  BY DEF NewTriggers, NewIndexes, Differs
<1>2. SecondHalf(next, last, ch) = build
  BY DEF SecondHalf
<1>3. Unsearching(next, last, ch) <=> on
  BY DEF Unsearching
<1>4. Dropping(last, ch)
  BY DEF NotPossible, Dropping
<1>5. Kind(next, last, last.trg, next.trg, O, T) /\ Kind(next, last, last.idx, next.idx, P, I)
  BY DEF Kind, OldTriggers, NewTriggers, OldIndexes, NewIndexes, Clearing, Moving, Differs
<1>6. ch.was = from
  BY DEF Coherent
<1>7. ~on => next.name = last.name /\ next.fts = last.fts /\ ~ch.fts
  BY DEF Searching, Moving, Differs
<1>. HIDE DEF T, I, O, P, on, build, from
<1>8. /\ Listed(build)
      /\ \A so, end : IsDb(so.db) /\ so.ok /\ Leads(so, build, end) =>
           /\ end.ok => Built(next, I, T, on, so.db, end.db)
           /\ CanBuild(next, I, T, on, so.db) => end.ok
  BY <1>1, BuildPhase DEF build
<1>9. ASSUME NEW so, NEW end, AtHalf(next, last, ch, so.db), so.ok, Leads(so, build, end)
      PROVE  end.ok /\ Migrated(next, last, ch, end.db)
  <2>. DEFINE d == so.db
              e == end.db
  <2>1. /\ IsDb(d) /\ d.name = next.name /\ DOMAIN d.cols = DOMAIN next.fields
        /\ \A f \in DOMAIN next.fields : d.cols[f] = [def |-> next.fields[f].def, from |-> from[f]]
        /\ TakenAway(last, last.idx, P, d.idx) /\ TakenAway(last, last.trg, O, d.trg)
        /\ on => DOMAIN d.fts = {} /\ DOMAIN d.hooks = {}
        /\ ~on /\ ch.rename = {} => Searched(last, d)
    BY <1>3, <1>4, <1>6, <1>9 DEF AtHalf, O, P
  <2>2. /\ end.ok => Built(next, I, T, on, d, e)
        /\ CanBuild(next, I, T, on, d) => end.ok
    BY <1>8, <1>9, <2>1
  <2>. HIDE DEF d, e
  <2>3. /\ \A x \in I : <<next.name, x>> \notin DOMAIN d.idx
        /\ \A g : PutThere(next, next.idx, I, d.idx, g) =>
             DOMAIN g = KeysOf(next, DOMAIN next.idx) /\ \A x \in DOMAIN next.idx : g[<<next.name, x>>] = next.idx[x]
    BY <1>5, <2>1, EntriesMeant
  <2>4. /\ \A x \in T : <<next.name, x>> \notin DOMAIN d.trg
        /\ \A g : PutThere(next, next.trg, T, d.trg, g) =>
             DOMAIN g = KeysOf(next, DOMAIN next.trg) /\ \A x \in DOMAIN next.trg : g[<<next.name, x>>] = next.trg[x]
    BY <1>5, <2>1, EntriesMeant
  <2>5. CanBuild(next, I, T, on, d)
    <3>1. \A i \in I : next.idx[i] \in DOMAIN d.cols
      BY <1>1, <2>1, TableFacts
    <3>2. on => next.name \notin DOMAIN d.fts /\ next.fts \subseteq DOMAIN d.cols
      BY <2>1, TableFacts
    <3>. QED
      BY <2>1, <2>3, <2>4, <3>1, <3>2 DEF CanBuild
  <2>6. Built(next, I, T, on, d, e)
    BY <2>2, <2>5
  <2>7. SameBut(d, e, {"idx", "trg", "fts", "hooks"}) /\ IsDb(e) /\ e.name = d.name /\ e.cols = d.cols
    BY <2>6 DEF Built, SameBut, Parts
  <2>8. PutThere(next, next.idx, I, d.idx, e.idx) /\ PutThere(next, next.trg, T, d.trg, e.trg)
    BY <2>6 DEF Built, PutThere
  <2>9. MadeAs(next, from, e)
    BY <2>1, <2>3, <2>4, <2>7, <2>8 DEF MadeAs
  <2>10. ASSUME ch.rename = {} \/ ch.fts  PROVE Searched(next, e)
    <3>1. CASE on /\ next.fts # {}
      <4>1. e.fts[next.name] = next.fts /\ e.hooks = With(d.hooks, next.name, next.fts) /\ DOMAIN d.hooks = {}
        BY <2>1, <2>6, <3>1 DEF Built
      <4>2. DOMAIN e.hooks = {next.name} /\ e.hooks[next.name] = next.fts
        BY <4>1 DEF With
      <4>. QED
        BY <3>1, <4>1, <4>2 DEF Searched
    <3>2. CASE on /\ next.fts = {}
      BY <2>1, <2>6, <3>2 DEF Built, Searched
    <3>3. CASE ~on
      <4>1. Searched(last, d) /\ next.name = last.name /\ next.fts = last.fts
        BY <1>7, <2>1, <2>10, <3>3
      <4>2. e.fts = d.fts /\ e.hooks = d.hooks
        BY <2>6, <3>3 DEF Built
      <4>. QED
        BY <4>1, <4>2 DEF Searched
    <3>. QED
      BY <3>1, <3>2, <3>3
  <2>11. Migrated(next, last, ch, e)
    BY <2>9, <2>10, MadeIsMigrated DEF from
  <2>. QED
    BY <2>2, <2>5, <2>11 DEF e
<1>. QED
  BY <1>2, <1>8, <1>9

(* One that must be made anew is made from the columns kept.               *)
LEMMA RecreatesTable ==
  ASSUME NEW next \in AnyTable, NEW last \in AnyTable, NEW ch, Coherent(next, last, ch),
         NotPossible(next, last, ch)
  PROVE  /\ Listed(SecondHalf(next, last, ch))
         /\ \A so, end : AtHalf(next, last, ch, so.db) /\ so.ok /\ Leads(so, SecondHalf(next, last, ch), end) =>
              /\ end.ok => Migrated(next, last, ch, end.db)
              /\ ~Hindered(next, last, ch) => end.ok
<1>. DEFINE S == DOMAIN next.fields \ ch.create
            s == [do |-> "recreate", table |-> next, copied |-> S]
            from == Meant(next, last)
<1>1. SecondHalf(next, last, ch) = <<s>>
  BY DEF SecondHalf
<1>2. ch.was = from /\ \A f \in DOMAIN next.fields : f \in ch.create <=> from[f] = NoName
  BY DEF Coherent
<1>3. s = [do |-> "recreate", table |-> next, copied |-> S]
  OBVIOUS
<1>. HIDE DEF s, from
<1>4. ASSUME NEW so, NEW end, AtHalf(next, last, ch, so.db), so.ok, Leads(so, <<s>>, end)
      PROVE  /\ end.ok => Migrated(next, last, ch, end.db)
             /\ ~Hindered(next, last, ch) => end.ok
  <2>. DEFINE d == so.db
              e == Done(d, s)
              copied == CopiedFrom(d, next, S)
  <2>1. /\ end.ok => end.db = e
        /\ Possible(d, s) => end.ok
    BY <1>4, OneOrNone, Stepped
  <2>2. /\ IsDb(d) /\ d.name = (IF Dropping(last, ch) THEN next.name ELSE last.name)
        /\ \A f \in S : f \in DOMAIN d.cols /\ d.cols[f].from = from[f]
    BY <1>2, <1>4 DEF AtHalf
  <2>3. /\ Possible(d, s) <=> next.name = d.name /\ S \subseteq DOMAIN d.cols
        /\ MadeAs(next, copied, e) /\ Searched(next, e)
    <3>. HIDE DEF S, d
    <3>. QED
      BY <1>3, <2>2, Recreate
  <2>4. \A f \in DOMAIN next.fields : copied[f] = from[f]
    BY <1>2, <2>2 DEF CopiedFrom
  <2>. HIDE DEF e, copied
  <2>5. MadeAs(next, from, e)
    BY <2>3, <2>4 DEF MadeAs
  <2>6. Migrated(next, last, ch, e)
    BY <2>3, <2>5, MadeIsMigrated DEF from
  <2>7. ~Hindered(next, last, ch) => next.name = last.name
    BY DEF Hindered
  <2>. QED
    BY <2>1, <2>2, <2>3, <2>6, <2>7
<1>. QED
  BY <1>1, <1>4, OneOrNone

(* A migration that runs gives the table; one that nothing hinders runs.   *)
LEMMA Migrates ==
  ASSUME NEW next \in AnyTable, NEW last \in AnyTable, NEW ch, Coherent(next, last, ch), Differs(next, last, ch)
  PROVE  LET run == Executed(Deployed(last), alterTable(next, last, ch))
         IN /\ run.ok => Migrated(next, last, ch, run.db)
            /\ ~Hindered(next, last, ch) => run.ok
<1>. DEFINE statements == alterTable(next, last, ch)
            first == FirstHalf(next, last, ch)
            second == SecondHalf(next, last, ch)
            run == Executed(Deployed(last), statements)
<1>1. statements = first \o second
  BY Halves
<1>2. /\ Listed(second)
      /\ \A so, end : AtHalf(next, last, ch, so.db) /\ so.ok /\ Leads(so, second, end) =>
           /\ end.ok => Migrated(next, last, ch, end.db)
           /\ ~Hindered(next, last, ch) => end.ok
  BY BuildsTable, RecreatesTable
<1>3. /\ Listed(first)
      /\ \A end : Leads(Ready(Deployed(last)), first, end) =>
           /\ end.ok => AtHalf(next, last, ch, end.db)
           /\ ~Hindered(next, last, ch) => end.ok
  BY FirstHalfRuns
<1>. HIDE DEF statements, first, second
<1>4. /\ Listed(statements)
      /\ \A so, end : Leads(so, statements, end) => \E m : Leads(so, first, m) /\ Leads(m, second, end)
  BY <1>1, <1>2, <1>3, Split
<1>5. Leads(Ready(Deployed(last)), statements, run)
  <2>1. Len(statements) \in Nat
    BY <1>4 DEF Listed
  <2>. QED
    BY <2>1, ExecutedLeads
<1>. HIDE DEF run
<1>6. PICK m : Leads(Ready(Deployed(last)), first, m) /\ Leads(m, second, run)
  BY <1>4, <1>5
<1>7. run.ok => m.ok
  BY <1>2, <1>6, OkBefore
<1>8. run.ok => Migrated(next, last, ch, run.db)
  BY <1>2, <1>3, <1>6, <1>7
<1>9. ~Hindered(next, last, ch) => run.ok
  BY <1>2, <1>3, <1>6
<1>. QED
  BY <1>8, <1>9 DEF run, statements

-----------------------------------------------------------------------------
(* Whatever two tables are compared, with any names, columns, indexes and  *)
(* triggers, in any number.                                                *)
SchemaSpec ==
  /\ asked \in [part : {"schema"}, last : AnyTable, next : AnyTable] /\ answer = NotYet
  /\ [][Serve("schema", SchemaAnswer)]_exchangeVars

LEMMA SchemaAnswers ==
  SchemaSpec => [](asked \in [part : {"schema"}, last : AnyTable, next : AnyTable]
                    /\ (answer = NotYet \/ answer = SchemaAnswer))
<1>. DEFINE Asking == asked \in [part : {"schema"}, last : AnyTable, next : AnyTable]
            Inv == Asking /\ (answer = NotYet \/ answer = SchemaAnswer)
<1>1. Asking /\ answer = NotYet => Inv
  OBVIOUS
<1>2. Inv /\ [Serve("schema", SchemaAnswer)]_exchangeVars => Inv'
  <2>. SUFFICES ASSUME Inv, [Serve("schema", SchemaAnswer)]_exchangeVars  PROVE Inv'
    OBVIOUS
  <2>1. asked' = asked /\ (answer' = answer \/ answer' = SchemaAnswer)
    BY DEF Serve, exchangeVars
  <2>2. SchemaAnswer' = SchemaAnswer
    BY <2>1 DEF SchemaAnswer
  <2>. QED
    BY <2>1, <2>2
<1>. QED
  BY <1>1, <1>2, PTL DEF SchemaSpec

(* What is answered, for tables that may be migrated.                      *)
LEMMA Answer ==
  ASSUME asked \in [part : {"schema"}, last : AnyTable, next : AnyTable], answer = SchemaAnswer
  PROVE  LET ch == Changes(asked.next, asked.last)
         IN /\ answer.ok => Migrated(asked.next, asked.last, ch, answer.db)
            /\ answer.accepted => answer.ok \/ Hindered(asked.next, asked.last, ch)
<1>. DEFINE next == asked.next
            last == asked.last
            ch == Changes(next, last)
            run == Executed(Deployed(last), alterTable(next, last, ch))
            go == run.ok
            db == run.db
            ok == Accepted(next, last, ch)
<1>1. next \in AnyTable /\ last \in AnyTable
  OBVIOUS
<1>2. answer = IF ~ok THEN [part |-> "schema", accepted |-> FALSE, ok |-> FALSE, db |-> Empty]
               ELSE [part |-> "schema", accepted |-> TRUE, ok |-> go, db |-> db]
  BY DEF SchemaAnswer, Deployed
<1>3. Differs(next, last, ch)
  BY DEF Differs, Changes
<1>. HIDE DEF next, last
<1>4. ASSUME ok
      PROVE  /\ go => Migrated(next, last, ch, db)
             /\ ~Hindered(next, last, ch) => go
  <2>1. Coherent(next, last, ch)
    BY <1>1, <1>4, AcceptedIsCoherent
  <2>. HIDE DEF ch
  <2>. QED
    BY <1>1, <1>3, <2>1, Migrates
<1>. HIDE DEF ok, go, db, ch
<1>5. /\ ~ok => ~answer.ok /\ ~answer.accepted
      /\ ok => answer.ok = go /\ answer.db = db
  <2>1. CASE ~ok
    <3>1. answer = [part |-> "schema", accepted |-> FALSE, ok |-> FALSE, db |-> Empty]
      BY <1>2, <2>1, Zenon
    <3>2. ~answer.ok /\ ~answer.accepted
      BY <3>1
    <3>. QED
      BY <2>1, <3>2
  <2>2. CASE ok
    <3>1. answer = [part |-> "schema", accepted |-> TRUE, ok |-> go, db |-> db]
      BY <1>2, <2>2, Zenon
    <3>2. answer.ok = go /\ answer.db = db
      BY <3>1
    <3>. QED
      BY <2>2, <3>2
  <2>. QED
    BY <2>1, <2>2
<1>6. /\ answer.ok => Migrated(next, last, ch, answer.db)
      /\ answer.accepted => answer.ok \/ Hindered(next, last, ch)
  BY <1>4, <1>5
<1>. QED
  BY <1>6 DEF ch, next, last

(* A migration that runs to its end leaves the table that the new settings *)
(* create, every column with the values that the settings mean             *)
(* (alterTable).                                                           *)
THEOREM MigrationsGiveTables == SchemaSpec => []MigrationGivesTable
<1>. DEFINE Inv == /\ asked \in [part : {"schema"}, last : AnyTable, next : AnyTable]
                   /\ answer = NotYet \/ answer = SchemaAnswer
<1>1. Inv => MigrationGivesTable
  BY Answer DEF MigrationGivesTable, Migrated, Answered
<1>. QED
  BY <1>1, SchemaAnswers, PTL

(* A migration that validateTableChange accepts runs to its end, but in    *)
(* the cases that the property names.                                      *)
THEOREM AcceptedMigrationsRun == SchemaSpec => []AcceptedMigrationRuns
<1>. DEFINE Inv == /\ asked \in [part : {"schema"}, last : AnyTable, next : AnyTable]
                   /\ answer = NotYet \/ answer = SchemaAnswer
<1>1. Inv => AcceptedMigrationRuns
  BY Answer DEF AcceptedMigrationRuns, Hindered, Answered
<1>. QED
  BY <1>1, SchemaAnswers, PTL
=============================================================================
