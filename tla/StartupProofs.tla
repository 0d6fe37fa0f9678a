--------------------------- MODULE StartupProofs ---------------------------
(***************************************************************************)
(* Proofs about Startup, for every number of processes, builds, requests   *)
(* and faults, and whatever migrations drop: type correctness, and that    *)
(* whoever serves, sweeps or writes has every migration of its binary      *)
(* applied and the configuration it was given.                             *)
(***************************************************************************)
EXTENDS Startup, TLAPS

\* The first migrations are on record, and the schema is what these leave.
SchemaWhole == \E n \in Versions \cup {0} : applied = 1 .. n /\ schema = Whole(n)

Beyond  == {"configure", "listen", "serve", "drain", "tenant", "user", "write"}
Started == {"listen", "serve", "drain"}
Command == {"tenant", "user", "write"}

\* What a process found applied is applied, and what it found is a beginning.
KnowsABeginning(p) ==
  procs[p].known \subseteq applied /\ \E k \in Nat : procs[p].known = 1 .. k

\* Beyond its migrations a process has all of them applied; only an instance that
\* passed its checks has sweeps and requests; a command that writes more than
\* a tenant has found one.
ProcOK(p) ==
  /\ procs[p].pc # "down" => p \in cast
  /\ KnowsABeginning(p)
  /\ procs[p].pc \in Beyond => 1 .. procs[p].binary \subseteq applied
  /\ procs[p].passes # {} \/ procs[p].busy > 0 => procs[p].pc \in Started
  /\ p \in Instance => procs[p].pc \notin Command
  /\ p \in Instance /\ procs[p].pc \in Started => FailsClosed(p)
  /\ procs[p].pc = "user" \/ (procs[p].pc = "write" /\ procs[p].job # "create-tenant")
       => tenant # "none"

IInv == TypeOK /\ SchemaWhole /\ \A p \in Process : ProcOK(p)

-----------------------------------------------------------------------------
(* The embedded files in order *)

LEMMA BuildTypes ==
  /\ Binary \subseteq Nat /\ Versions \subseteq Nat
  /\ \A b \in Binary : 1 .. b \subseteq Versions
<1>1. Binary \subseteq Nat
  BY BuildsAssumption
<1>2. QED
  BY <1>1 DEF Versions

LEMMA WholeTypes ==
  \A n \in Versions \cup {0} : 1 .. n \subseteq Versions /\ Whole(n) \subseteq Versions
<1>1. ASSUME NEW n \in Versions \cup {0}  PROVE 1 .. n \subseteq Versions
  <2>1. CASE n = 0
    BY <2>1
  <2>2. CASE n \in Versions
    <3>1. PICK b \in Binary : n \in 1 .. b
      BY <2>2 DEF Versions
    <3>2. 1 .. n \subseteq 1 .. b
      BY <3>1, BuildTypes
    <3>3. QED
      BY <3>1, <3>2, BuildTypes
  <2>3. QED
    BY <2>1, <2>2
<1>2. QED
  BY <1>1 DEF Whole

\* One migration more: what it makes is there, what it drops is not.
LEMMA WholeNext ==
  ASSUME NEW k \in Nat, k + 1 \in Versions
  PROVE  Whole(k + 1) = (Whole(k) \cup {k + 1}) \ Drops[k + 1]
<1>1. k + 1 \notin Drops[k + 1]
  BY DropsAssumption
<1>2. ASSUME NEW v \in 1 .. k
      PROVE  v \in Whole(k + 1) <=> v \in Whole(k) /\ v \notin Drops[k + 1]
  <2>1. (v + 1) .. (k + 1) = ((v + 1) .. k) \cup {k + 1}
    OBVIOUS
  <2>2. v \in 1 .. (k + 1)
    OBVIOUS
  <2>3. QED
    BY <2>1, <2>2 DEF Whole
<1>3. k + 1 \in Whole(k + 1)
  BY DEF Whole
<1>4. Whole(k) \subseteq 1 .. k /\ Whole(k + 1) \subseteq (1 .. k) \cup {k + 1}
  BY DEF Whole
<1>5. QED
  BY <1>1, <1>2, <1>3, <1>4

\* Later migrations take from an earlier whole only what they drop.
LEMMA WholeMisses ==
  ASSUME NEW b \in Nat, NEW n \in Nat, 1 .. b \subseteq 1 .. n, NEW v \in Whole(b) \ Whole(n)
  PROVE  \E w \in (1 .. n) \ (1 .. b) : v \in Drops[w]
<1>1. v \in 1 .. b /\ v \in 1 .. n
  BY DEF Whole
<1>2. PICK w \in (v + 1) .. n : v \in Drops[w]
  BY <1>1 DEF Whole
<1>3. w \notin (v + 1) .. b
  BY <1>2 DEF Whole
<1>4. QED
  BY <1>1, <1>2, <1>3

LEMMA DownType == Down \in PState /\ NoUser \in UserRow
<1>1. (CHOOSE b \in Binary : TRUE) \in Binary
  BY BuildsAssumption
<1>2. 0 \in 0 .. MaxRequests
  BY BuildsAssumption
<1>3. AllOff \in Options
  BY DEF AllOff, Options, Policies, Tiers
<1>4. QED
  BY <1>1, <1>2, <1>3 DEF Down, PState, PC, NoUser, UserRow, Password

\* After the first k migrations the next one is k + 1.
LEMMA NextVersion ==
  ASSUME NEW k \in Nat, NEW b \in Nat, (1 .. b) \ (1 .. k) # {}
  PROVE  FirstOf((1 .. b) \ (1 .. k)) = k + 1 /\ k + 1 \in 1 .. b
<1> DEFINE S == (1 .. b) \ (1 .. k)
           IsFirst(v) == v \in S /\ \A w \in S : v <= w
<1>1. IsFirst(k + 1)
  OBVIOUS
<1>2. FirstOf(S) = CHOOSE v \in S : \A w \in S : v <= w
  BY DEF FirstOf
<1>3. FirstOf(S) \in S /\ \A w \in S : FirstOf(S) <= w
  BY <1>1, <1>2
<1>4. FirstOf(S) <= k + 1 /\ k + 1 <= FirstOf(S) /\ FirstOf(S) \in Int
  BY <1>1, <1>3
<1>5. QED
  BY <1>1, <1>4

-----------------------------------------------------------------------------
(* One process moves at a time *)

\* Enough, for a step of one process, is what it does to that process.
LEMMA OneMoves ==
  ASSUME IInv, NEW p \in Process, NEW next \in PState,
         procs' = [procs EXCEPT ![p] = next],
         table' \in BOOLEAN, SchemaWhole', applied \subseteq applied',
         tenant' \in TenantRow, user' \in UserRow,
         tenant # "none" => tenant' # "none",
         user' # NoUser => tenant' # "none",
         UNCHANGED setup, faults' \in 0 .. MaxFaults,
         ProcOK(p)'
  PROVE  IInv'
<1>1. TypeOK'
  <2>1. applied' \subseteq Versions /\ schema' \subseteq Versions
    BY WholeTypes DEF SchemaWhole
  <2>2. QED
    BY <2>1 DEF IInv, TypeOK, setup
<1>2. ASSUME NEW q \in Process, q # p  PROVE ProcOK(q)'
  <2>1. procs'[q] = procs[q] /\ cast' = cast /\ config' = config
    BY <1>2 DEF IInv, TypeOK, setup
  <2>2. ProcOK(q)
    BY DEF IInv
  <2>3. KnowsABeginning(q)'
    BY <2>1, <2>2 DEF ProcOK, KnowsABeginning
  <2>4. FailsClosed(q) => FailsClosed(q)'
    BY <2>1 DEF FailsClosed
  <2>5. QED
    BY <2>1, <2>2, <2>3, <2>4 DEF ProcOK
<1>3. QED
  BY <1>1, <1>2 DEF IInv

LEMMA NothingKnown ==
  ASSUME NEW p, procs[p].known = {}
  PROVE  KnowsABeginning(p)
<1>1. 0 \in Nat /\ 1 .. 0 = {}
  OBVIOUS
<1>2. QED
  BY <1>1 DEF KnowsABeginning

LEMMA InitHolds ==
  ASSUME Init
  PROVE  IInv
<1>1. TypeOK
  <2>1. procs \in [Process -> PState]
    BY DownType DEF Init
  <2>2. faults \in 0 .. MaxFaults /\ {} \subseteq Versions
    BY BuildsAssumption DEF Init
  <2>3. QED
    BY <2>1, <2>2, DownType DEF Init, TypeOK, TenantRow
<1>2. SchemaWhole
  <2>1. 1 .. 0 = {} /\ Whole(0) = {}
    BY DEF Whole
  <2>2. QED
    BY <2>1 DEF Init, SchemaWhole
<1>3. ASSUME NEW p \in Process  PROVE ProcOK(p)
  <2>1. /\ procs[p].pc = "down" /\ procs[p].known = {}
        /\ procs[p].passes = {} /\ procs[p].busy = 0
    BY <1>3 DEF Init, Down
  <2>2. KnowsABeginning(p)
    BY <2>1, NothingKnown
  <2>3. QED
    BY <2>1, <2>2 DEF ProcOK, Beyond, Started, Command
<1>4. QED
  BY <1>1, <1>2, <1>3 DEF IInv

\* A process that ends leaves nothing to show.
LEMMA Ending ==
  ASSUME IInv, NEW p \in Process, Exit(p),
         UNCHANGED setup, schema' = schema, applied' = applied, table' \in BOOLEAN,
         tenant' \in TenantRow, user' \in UserRow,
         tenant # "none" => tenant' # "none", user' # NoUser => tenant' # "none",
         faults' \in 0 .. MaxFaults
  PROVE  IInv'
<1>1. procs' = [procs EXCEPT ![p] = Down] /\ procs'[p] = Down
  BY DEF Exit, Go, IInv, TypeOK
<1>2. ProcOK(p)'
  <2>1. Down.pc = "down" /\ Down.known = {} /\ Down.passes = {} /\ Down.busy = 0
    BY DEF Down
  <2>2. KnowsABeginning(p)'
    <3>1. 0 \in Nat /\ 1 .. 0 = {}
      OBVIOUS
    <3>2. QED
      BY <1>1, <2>1, <3>1 DEF KnowsABeginning
  <2>3. QED
    BY <1>1, <2>1, <2>2 DEF ProcOK, Beyond, Started, Command
<1>3. SchemaWhole'
  BY DEF IInv, SchemaWhole
<1>4. QED
  BY <1>1, <1>2, <1>3, DownType, OneMoves

\* A process that goes on with the same schema and the same rows.
LEMMA GoingOn ==
  ASSUME IInv, NEW p \in Process, NEW next \in PState, Go(p, next),
         table' \in BOOLEAN, UNCHANGED <<schema, applied, rows, setup>>,
         faults' \in 0 .. MaxFaults, ProcOK(p)'
  PROVE  IInv'
<1>1. SchemaWhole'
  BY DEF IInv, SchemaWhole
<1>2. /\ tenant' \in TenantRow /\ user' \in UserRow /\ tenant' = tenant
      /\ user' # NoUser => tenant' # "none"
  BY DEF IInv, TypeOK, rows
<1>3. QED
  BY <1>1, <1>2, OneMoves DEF Go

\* What is left of a process that only changes its place.
LEMMA Moving ==
  ASSUME IInv, NEW p \in Process, NEW pc \in PC, To(p, pc),
         table' \in BOOLEAN, UNCHANGED <<schema, applied, rows, setup, faults>>,
         procs[p].pc # "down", pc # "down",
         pc \in Beyond => 1 .. procs[p].binary \subseteq applied,
         pc \in Started \/ (procs[p].passes = {} /\ procs[p].busy = 0),
         p \in Instance => pc \notin Command /\ (pc \in Started => FailsClosed(p)),
         pc = "user" \/ (pc = "write" /\ procs[p].job # "create-tenant") => tenant # "none"
  PROVE  IInv'
<1> DEFINE next == [procs[p] EXCEPT !.pc = pc]
<1>1. procs[p] \in PState /\ procs \in [Process -> PState] /\ ProcOK(p)
  BY DEF IInv, TypeOK
<1>2. /\ next \in PState /\ next.pc = pc /\ next.known = procs[p].known
      /\ next.binary = procs[p].binary /\ next.passes = procs[p].passes
      /\ next.busy = procs[p].busy /\ next.job = procs[p].job /\ next.opts = procs[p].opts
  BY <1>1 DEF PState
<1>3. procs'[p] = next /\ Go(p, next)
  BY <1>1 DEF To, Go
<1> HIDE DEF next
<1>4. UNCHANGED <<cast, config, tenant>>
  BY DEF setup, rows
<1>5. KnowsABeginning(p)'
  BY <1>1, <1>2, <1>3 DEF ProcOK, KnowsABeginning
<1>6. FailsClosed(p) => FailsClosed(p)'
  BY <1>2, <1>3, <1>4 DEF FailsClosed
<1>7. procs[p].busy = 0 => ~(procs[p].busy > 0)
  OBVIOUS
<1>8. ProcOK(p)'
  BY <1>1, <1>2, <1>3, <1>4, <1>5, <1>6, <1>7 DEF ProcOK
<1>9. faults' \in 0 .. MaxFaults
  BY DEF IInv, TypeOK
<1>10. QED
  BY <1>2, <1>3, <1>8, <1>9, GoingOn

-----------------------------------------------------------------------------
(* The steps *)

LEMMA Starting ==
  ASSUME IInv, NEW p \in Process, NEW b \in Binary, Start(p, b)
  PROVE  IInv'
<1> DEFINE next == [Down EXCEPT !.pc = "open", !.binary = b]
<1>1. p \in cast /\ Go(p, next) /\ UNCHANGED <<tables, rows, setup, faults>>
  BY DEF Start
<1>2. next \in PState
  BY DownType DEF PState, PC
<1>3. next.pc = "open" /\ next.known = {} /\ next.passes = {} /\ next.busy = 0
  BY DEF Down
<1> HIDE DEF next
<1>4. procs'[p] = next /\ cast' = cast
  BY <1>1 DEF Go, IInv, TypeOK, setup
<1>5. KnowsABeginning(p)'
  <2>1. 0 \in Nat /\ 1 .. 0 = {}
    OBVIOUS
  <2>2. QED
    BY <1>3, <1>4, <2>1 DEF KnowsABeginning
<1>6. ProcOK(p)'
  BY <1>1, <1>3, <1>4, <1>5 DEF ProcOK, Beyond, Started, Command
<1>7. table' \in BOOLEAN /\ UNCHANGED <<schema, applied>> /\ faults' \in 0 .. MaxFaults
  BY <1>1 DEF tables, IInv, TypeOK
<1>8. QED
  BY <1>1, <1>2, <1>6, <1>7, GoingOn

\* What a process that has not come to serve has neither.
LEMMA NothingRunning ==
  ASSUME IInv, NEW p \in Process, procs[p].pc \notin Started
  PROVE  procs[p].passes = {} /\ procs[p].busy = 0
<1>1. procs[p] \in PState /\ ProcOK(p)
  BY DEF IInv, TypeOK
<1>2. procs[p].busy \in Nat /\ ~(procs[p].busy > 0)
  BY <1>1, BuildsAssumption DEF PState, ProcOK
<1>3. QED
  BY <1>1, <1>2 DEF ProcOK

LEMMA Opening ==
  ASSUME IInv, NEW p \in Process, Open(p) \/ EnsureTable(p)
  PROVE  IInv'
<1>1. /\ procs[p].pc \in {"open", "ensure"} /\ table' \in BOOLEAN
      /\ UNCHANGED <<schema, applied, rows, setup, faults>>
  BY DEF Open, EnsureTable, At, tables, IInv, TypeOK
<1>2. CASE Exit(p)
  BY <1>1, <1>2, Ending DEF IInv, TypeOK, rows
<1>3. CASE To(p, "ensure") \/ To(p, "read")
  <2>1. procs[p].passes = {} /\ procs[p].busy = 0
    BY <1>1, NothingRunning DEF Started
  <2>2. "ensure" \in PC /\ "read" \in PC
    BY DEF PC
  <2>3. QED
    BY <1>1, <1>3, <2>1, <2>2, Moving DEF Beyond, Command, Started
<1>4. QED
  BY <1>2, <1>3 DEF Open, EnsureTable

LEMMA Reading ==
  ASSUME IInv, NEW p \in Process, AppliedVersions(p)
  PROVE  IInv'
<1> DEFINE next == [procs[p] EXCEPT !.pc = "migrate", !.known = applied]
<1>1. /\ procs[p].pc = "read" /\ table' \in BOOLEAN
      /\ UNCHANGED <<schema, applied, rows, setup, faults>>
  BY DEF AppliedVersions, At, tables, IInv, TypeOK
<1>2. CASE Exit(p)
  BY <1>1, <1>2, Ending DEF IInv, TypeOK, rows
<1>3. CASE Go(p, next)
  <2>1. procs[p] \in PState /\ ProcOK(p) /\ applied \subseteq Versions
    BY DEF IInv, TypeOK
  <2>2. procs[p].passes = {} /\ procs[p].busy = 0
    BY <1>1, NothingRunning DEF Started
  <2>3. next \in PState
    BY <2>1 DEF PState, PC
  <2>4. /\ next.pc = "migrate" /\ next.known = applied /\ next.passes = procs[p].passes
        /\ next.busy = procs[p].busy
    BY <2>1 DEF PState
  <2> HIDE DEF next
  <2>5. procs'[p] = next /\ cast' = cast /\ faults' \in 0 .. MaxFaults
    BY <1>1, <1>3 DEF Go, setup, IInv, TypeOK
  <2>6. KnowsABeginning(p)'
    BY <1>1, <2>4, <2>5, BuildTypes DEF IInv, SchemaWhole, KnowsABeginning
  <2>7. ProcOK(p)'
    BY <1>1, <2>1, <2>2, <2>4, <2>5, <2>6 DEF ProcOK, Beyond, Started, Command
  <2>8. QED
    BY <1>1, <1>3, <2>3, <2>5, <2>7, GoingOn
<1>4. QED
  BY <1>2, <1>3 DEF AppliedVersions

\* The transaction that applies the next file: it was the first one missing
\* there too.
LEMMA Applying ==
  ASSUME IInv, NEW p \in Process, ApplyMigration(p)
  PROVE  IInv'
<1> DEFINE v == NextFile(p)
           next == [procs[p] EXCEPT !.known = procs[p].known \cup {v}]
<1>1. /\ procs[p].pc = "migrate" /\ Missing(p) # {}
      /\ UNCHANGED <<table, rows, setup, faults>>
  BY DEF ApplyMigration, At
<1>2. procs[p] \in PState /\ ProcOK(p) /\ TypeOK /\ SchemaWhole
  BY DEF IInv, TypeOK
<1>3. CASE Exit(p) /\ UNCHANGED <<schema, applied>>
  BY <1>1, <1>2, <1>3, Ending DEF TypeOK, rows
<1>4. CASE /\ ~Conflicts(v) /\ schema' = After(v) /\ applied' = applied \cup {v}
           /\ Go(p, next)
  <2>1. PICK k \in Nat : procs[p].known = 1 .. k
    BY <1>2 DEF ProcOK, KnowsABeginning
  <2>2. PICK b \in Binary : procs[p].binary = b
    BY <1>2 DEF PState
  <2>3. v = k + 1 /\ k + 1 \in 1 .. b
    BY <1>1, <2>1, <2>2, NextVersion, BuildTypes DEF Missing, NextFile
  <2>4. PICK n \in Versions \cup {0} : applied = 1 .. n /\ schema = Whole(n)
    BY <1>2 DEF SchemaWhole
  <2>5. n \in Nat
    BY <2>4, BuildTypes
  <2>6. v \notin applied /\ 1 .. k \subseteq applied
    BY <1>2, <1>4, <2>1 DEF Conflicts, ProcOK, KnowsABeginning
  <2>7. n = k
    BY <2>3, <2>4, <2>5, <2>6
  <2>8. applied' = 1 .. (k + 1) /\ k + 1 \in Versions
    BY <1>4, <2>2, <2>3, <2>4, <2>7, BuildTypes
  <2>9. SchemaWhole'
    <3>1. schema' = Whole(k + 1)
      BY <1>4, <2>3, <2>4, <2>7, <2>8, WholeNext DEF After
    <3>2. QED
      BY <2>8, <3>1 DEF SchemaWhole, Whole
  <2>10. v \in Versions
    BY <2>3, <2>8
  <2>11. next \in PState
    BY <1>2, <2>10 DEF PState
  <2>12. /\ next.pc = "migrate" /\ next.known = 1 .. (k + 1) /\ next.passes = procs[p].passes
         /\ next.busy = procs[p].busy
    BY <1>1, <1>2, <2>1, <2>3 DEF PState
  <2> HIDE DEF next
  <2>13. procs'[p] = next /\ cast' = cast /\ procs' = [procs EXCEPT ![p] = next]
    BY <1>1, <1>2, <1>4 DEF Go, setup, TypeOK
  <2>14. KnowsABeginning(p)'
    BY <2>1, <2>8, <2>12, <2>13 DEF KnowsABeginning
  <2>15. procs[p].passes = {} /\ procs[p].busy = 0
    BY <1>1, NothingRunning DEF Started
  <2>16. ProcOK(p)'
    BY <1>1, <1>2, <2>12, <2>13, <2>14, <2>15 DEF ProcOK, Beyond, Started, Command
  <2>17. /\ table' \in BOOLEAN /\ tenant' \in TenantRow /\ user' \in UserRow
         /\ tenant' = tenant
         /\ user' # NoUser => tenant' # "none"
         /\ faults' \in 0 .. MaxFaults /\ applied \subseteq applied'
    BY <1>1, <1>2, <1>4 DEF TypeOK, rows
  <2>18. QED
    BY <1>1, <2>9, <2>11, <2>13, <2>16, <2>17, OneMoves
<1>5. QED
  BY <1>3, <1>4 DEF ApplyMigration

LEMMA Failing ==
  ASSUME IInv, NEW p \in Process, CutOff(p) \/ Crash(p)
  PROVE  IInv'
<1>1. Exit(p) /\ UNCHANGED <<table, schema, applied, tenant, user, setup>>
  BY DEF CutOff, RolledBack, Crash, tables, rows
<1>2. faults' \in 0 .. MaxFaults
  BY BuildsAssumption DEF CutOff, Crash, IInv, TypeOK
<1>3. QED
  BY <1>1, <1>2, Ending DEF IInv, TypeOK

LEMMA Signalled ==
  ASSUME IInv, NEW p \in Process, Signal(p)
  PROVE  IInv'
<1> DEFINE next == [procs[p] EXCEPT !.told = TRUE]
<1>1. procs[p] \in PState /\ ProcOK(p)
  BY DEF IInv, TypeOK
<1>2. /\ next \in PState /\ next.pc = procs[p].pc /\ next.known = procs[p].known
      /\ next.binary = procs[p].binary /\ next.passes = procs[p].passes
      /\ next.busy = procs[p].busy /\ next.job = procs[p].job /\ next.opts = procs[p].opts
  BY <1>1 DEF PState
<1> HIDE DEF next
<1>3. Go(p, next) /\ UNCHANGED <<schema, applied, rows, setup>> /\ table' \in BOOLEAN
  BY DEF Signal, next, tables, IInv, TypeOK
<1>4. procs'[p] = next /\ UNCHANGED <<cast, config, tenant>>
  BY <1>3 DEF Go, setup, rows, IInv, TypeOK
<1>5. KnowsABeginning(p)' /\ (FailsClosed(p) => FailsClosed(p)')
  BY <1>1, <1>2, <1>3, <1>4 DEF ProcOK, KnowsABeginning, FailsClosed
<1>6. ProcOK(p)'
  BY <1>1, <1>2, <1>3, <1>4, <1>5 DEF ProcOK
<1>7. faults' \in 0 .. MaxFaults
  BY BuildsAssumption DEF Signal, IInv, TypeOK
<1>8. QED
  BY <1>2, <1>3, <1>6, <1>7, GoingOn

\* With nothing missing all the binary embeds is applied.
LEMMA NothingMissing ==
  ASSUME IInv, NEW p \in Process, Missing(p) = {}
  PROVE  1 .. procs[p].binary \subseteq applied
  BY DEF Missing, IInv, ProcOK, KnowsABeginning

LEMMA Migrating ==
  ASSUME IInv, NEW p \in Process, Migrated(p)
  PROVE  IInv'
<1>1. /\ procs[p].pc = "migrate" /\ 1 .. procs[p].binary \subseteq applied
      /\ UNCHANGED <<schema, applied, rows, setup, faults>> /\ table' \in BOOLEAN
  BY NothingMissing DEF Migrated, At, tables, IInv, TypeOK
<1>2. procs[p].passes = {} /\ procs[p].busy = 0
  BY <1>1, NothingRunning DEF Started
<1>3. CASE p \in Instance /\ To(p, "configure")
  BY <1>1, <1>2, <1>3, Moving DEF PC, Beyond, Command, Started
<1>4. ASSUME p \notin Instance, NEW job \in Commands,
             Go(p, [procs[p] EXCEPT !.job = job,
                      !.pc = IF job = "create-tenant" THEN "write" ELSE "tenant"])
      PROVE  IInv'
  <2> DEFINE next == [procs[p] EXCEPT !.job = job,
                        !.pc = IF job = "create-tenant" THEN "write" ELSE "tenant"]
  <2>1. procs[p] \in PState /\ ProcOK(p) /\ faults' \in 0 .. MaxFaults
    BY <1>1 DEF IInv, TypeOK
  <2>2. next \in PState
    BY <2>1 DEF PState, PC
  <2>3. /\ next.pc = IF job = "create-tenant" THEN "write" ELSE "tenant"
        /\ next.known = procs[p].known /\ next.binary = procs[p].binary
        /\ next.passes = procs[p].passes /\ next.busy = procs[p].busy /\ next.job = job
    BY <2>1 DEF PState
  <2>4. Go(p, next)
    BY <1>4
  <2> HIDE DEF next
  <2>5. procs'[p] = next /\ cast' = cast
    BY <1>1, <2>4 DEF Go, setup, IInv, TypeOK
  <2>6. KnowsABeginning(p)'
    BY <1>1, <2>1, <2>3, <2>5 DEF ProcOK, KnowsABeginning
  <2>7. ProcOK(p)'
    BY <1>1, <1>2, <1>4, <2>1, <2>3, <2>5, <2>6 DEF ProcOK
  <2>8. QED
    BY <1>1, <2>1, <2>2, <2>4, <2>7, GoingOn
<1>5. QED
  BY <1>3, <1>4 DEF Migrated

LEMMA OfferedType ==
  ASSUME NEW c \in Settings, Sound(c)
  PROVE  Offered(c) \in Options
<1>1. LinkBase(c) = "absolute" /\ c.policy \in Policies /\ c.tier \in Tiers
  BY DEF Sound, LinksAbsolute, PolicyKnown, TierKnown
<1>2. QED
  BY <1>1 DEF Offered, Options

LEMMA Configuring ==
  ASSUME IInv, NEW p \in Instance, Configure(p)
  PROVE  IInv'
<1> DEFINE next == [procs[p] EXCEPT !.pc = "listen", !.opts = Offered(config[p])]
<1>1. /\ procs[p].pc = "configure" /\ p \in Process
      /\ UNCHANGED <<schema, applied, rows, setup, faults>> /\ table' \in BOOLEAN
  BY DEF Configure, At, tables, IInv, TypeOK, Process
<1>2. CASE Exit(p)
  BY <1>1, <1>2, Ending DEF IInv, TypeOK, rows
<1>3. CASE Sound(config[p]) /\ Go(p, next)
  <2>1. procs[p] \in PState /\ ProcOK(p) /\ faults' \in 0 .. MaxFaults
    BY <1>1 DEF IInv, TypeOK
  <2>2. config[p] \in Settings
    BY <1>1, <2>1, BuildsAssumption DEF IInv, TypeOK, ProcOK
  <2>3. Offered(config[p]) \in Options
    BY <1>3, <2>2, OfferedType
  <2>4. next \in PState
    BY <2>1, <2>3 DEF PState, PC
  <2>5. /\ next.pc = "listen" /\ next.opts = Offered(config[p])
        /\ next.known = procs[p].known /\ next.binary = procs[p].binary
        /\ next.passes = procs[p].passes /\ next.busy = procs[p].busy
    BY <2>1 DEF PState
  <2>6. Go(p, next)
    BY <1>3
  <2> HIDE DEF next
  <2>7. procs'[p] = next /\ UNCHANGED <<cast, config>>
    BY <1>1, <2>6 DEF Go, setup, IInv, TypeOK
  <2>8. KnowsABeginning(p)'
    BY <1>1, <2>1, <2>5, <2>7 DEF ProcOK, KnowsABeginning
  <2>9. FailsClosed(p)'
    <3>1. /\ config[p].secret = "long" /\ config[p].password
          /\ LinkBase(config[p]) = "absolute" /\ config[p].google \in {0, 3}
          /\ config[p].captcha # "none" => config[p].captchaSecret
      BY <1>3 DEF Sound, AuthBuilt, LongSecret, AnyMethod, LinksAbsolute, GoogleBuilt,
                  CaptchaBuilt
    <3>2. /\ Offered(config[p]).links = LinkBase(config[p])
          /\ Offered(config[p]).policy = config[p].policy
          /\ Offered(config[p]).tier = config[p].tier
          /\ config[p].captcha # "none" => Offered(config[p]).captcha
          /\ config[p].google = 3 => Offered(config[p]).google
      BY DEF Offered
    <3>3. config[p].google > 0 => config[p].google = 3
      BY <3>1
    <3>4. procs'[p].opts = Offered(config[p]) /\ config' = config
      BY <2>5, <2>7
    <3>5. QED
      BY <3>1, <3>2, <3>3, <3>4 DEF FailsClosed
  <2>10. ProcOK(p)'
    BY <1>1, <2>1, <2>5, <2>7, <2>8, <2>9 DEF ProcOK, Beyond, Started, Command
  <2>11. QED
    BY <1>1, <2>1, <2>4, <2>6, <2>10, GoingOn
<1>4. QED
  BY <1>2, <1>3 DEF Configure

\* What changes the sweeps or the requests of an instance that has started.
LEMMA Running ==
  ASSUME IInv, NEW p \in Process, NEW next \in PState, Go(p, next),
         UNCHANGED <<tables, rows, setup, faults>>, procs[p].pc \in Started,
         next.pc = procs[p].pc, next.known = procs[p].known, next.binary = procs[p].binary,
         next.opts = procs[p].opts
  PROVE  IInv'
<1>1. /\ procs'[p] = next /\ UNCHANGED <<cast, config, applied>>
      /\ ProcOK(p)
  BY DEF IInv, TypeOK, Go, setup, tables
<1>2. KnowsABeginning(p)' /\ (FailsClosed(p) => FailsClosed(p)')
  BY <1>1 DEF ProcOK, KnowsABeginning, FailsClosed
<1>3. procs'[p].pc # "user" /\ procs'[p].pc # "write"
  BY <1>1 DEF Started
<1>4. ProcOK(p)'
  BY <1>1, <1>2, <1>3 DEF ProcOK
<1>5. table' \in BOOLEAN /\ UNCHANGED <<schema, applied>> /\ faults' \in 0 .. MaxFaults
  BY DEF tables, IInv, TypeOK
<1>6. QED
  BY <1>4, <1>5, GoingOn

LEMMA Sweeps ==
  ASSUME IInv, NEW p \in Instance, NEW s \in Sweeper, Sweep(p, s) \/ SweepEnds(p, s)
  PROVE  IInv'
<1>1. p \in Process /\ procs[p] \in PState /\ ProcOK(p)
  BY DEF IInv, TypeOK, Process
<1>2. CASE Sweep(p, s)
  <2> DEFINE next == [procs[p] EXCEPT !.passes = procs[p].passes \cup {s}]
  <2>1. /\ next \in PState /\ next.pc = procs[p].pc /\ next.known = procs[p].known
        /\ next.binary = procs[p].binary /\ next.opts = procs[p].opts
    BY <1>1 DEF PState
  <2>2. Go(p, next) /\ UNCHANGED <<tables, rows, setup, faults>> /\ procs[p].pc \in Started
    BY <1>2 DEF Sweep, Ticking, Started
  <2> HIDE DEF next
  <2>3. QED
    BY <1>1, <2>1, <2>2, Running
<1>3. CASE SweepEnds(p, s)
  <2> DEFINE next == [procs[p] EXCEPT !.passes = procs[p].passes \ {s}]
  <2>1. /\ next \in PState /\ next.pc = procs[p].pc /\ next.known = procs[p].known
        /\ next.binary = procs[p].binary /\ next.opts = procs[p].opts
    BY <1>1 DEF PState
  <2>2. Go(p, next) /\ UNCHANGED <<tables, rows, setup, faults>> /\ procs[p].pc \in Started
    BY <1>1, <1>3 DEF SweepEnds, ProcOK
  <2> HIDE DEF next
  <2>3. QED
    BY <1>1, <2>1, <2>2, Running
<1>4. QED
  BY <1>2, <1>3

LEMMA Requests ==
  ASSUME IInv, NEW p \in Instance, Request(p) \/ Answer(p)
  PROVE  IInv'
<1>1. p \in Process /\ procs[p] \in PState /\ ProcOK(p)
  BY DEF IInv, TypeOK, Process
<1>2. procs[p].busy \in 0 .. MaxRequests
  BY <1>1 DEF PState
<1>3. CASE Request(p)
  <2> DEFINE next == [procs[p] EXCEPT !.busy = procs[p].busy + 1]
  <2>1. procs[p].busy + 1 \in 0 .. MaxRequests
    BY <1>2, <1>3, BuildsAssumption DEF Request
  <2>2. /\ next \in PState /\ next.pc = procs[p].pc /\ next.known = procs[p].known
        /\ next.binary = procs[p].binary /\ next.opts = procs[p].opts
    BY <1>1, <2>1 DEF PState
  <2>3. Go(p, next) /\ UNCHANGED <<tables, rows, setup, faults>> /\ procs[p].pc \in Started
    BY <1>3 DEF Request, Healthy, At, Started
  <2> HIDE DEF next
  <2>4. QED
    BY <1>1, <2>2, <2>3, Running
<1>4. CASE Answer(p)
  <2> DEFINE next == [procs[p] EXCEPT !.busy = procs[p].busy - 1]
  <2>1. procs[p].busy - 1 \in 0 .. MaxRequests
    BY <1>2, <1>4, BuildsAssumption DEF Answer
  <2>2. /\ next \in PState /\ next.pc = procs[p].pc /\ next.known = procs[p].known
        /\ next.binary = procs[p].binary /\ next.opts = procs[p].opts
    BY <1>1, <2>1 DEF PState
  <2>3. Go(p, next) /\ UNCHANGED <<tables, rows, setup, faults>> /\ procs[p].pc \in Started
    BY <1>1, <1>4 DEF Answer, ProcOK
  <2> HIDE DEF next
  <2>4. QED
    BY <1>1, <2>2, <2>3, Running
<1>5. QED
  BY <1>3, <1>4

LEMMA Serves ==
  ASSUME IInv, NEW p \in Instance, Listen(p) \/ Shutdown(p) \/ Drained(p) \/ DrainTimeout(p)
  PROVE  IInv'
<1>1. /\ procs[p].pc \in Started /\ p \in Process
      /\ UNCHANGED <<schema, applied, rows, setup, faults>> /\ table' \in BOOLEAN
  BY DEF Listen, Shutdown, Drained, DrainTimeout, Healthy, At, Started, tables, IInv, TypeOK,
         Process
<1>2. ProcOK(p) /\ FailsClosed(p)
  BY <1>1 DEF IInv, ProcOK
<1>3. CASE Exit(p)
  BY <1>1, <1>3, Ending DEF IInv, TypeOK, rows
<1>4. CASE To(p, "serve") \/ To(p, "drain")
  BY <1>1, <1>2, <1>4, Moving DEF PC, Beyond, Command, Started, ProcOK
<1>5. QED
  BY <1>3, <1>4 DEF Listen, Shutdown, Drained, DrainTimeout

LEMMA Finding ==
  ASSUME IInv, NEW p \in Process, FindTenant(p) \/ FindUser(p)
  PROVE  IInv'
<1>1. /\ procs[p].pc \in {"tenant", "user"}
      /\ UNCHANGED <<schema, applied, rows, setup, faults>> /\ table' \in BOOLEAN
  BY DEF FindTenant, FindUser, At, tables, IInv, TypeOK
<1>2. ProcOK(p) /\ procs[p].passes = {} /\ procs[p].busy = 0
  BY <1>1, NothingRunning DEF IInv, Started
<1>3. CASE Exit(p)
  BY <1>1, <1>3, Ending DEF IInv, TypeOK, rows
<1>4. ASSUME NEW pc \in {"user", "write"}, To(p, pc), tenant # "none"
      PROVE  IInv'
  BY <1>1, <1>2, <1>4, Moving DEF PC, Beyond, Command, Started, ProcOK
<1>5. FindUser(p) => tenant # "none"
  BY <1>2 DEF FindUser, At, ProcOK
<1>6. QED
  BY <1>3, <1>4, <1>5 DEF FindTenant, Found, FindUser

LEMMA Writing ==
  ASSUME IInv, NEW p \in Process,
         \/ CreateTenant(p) \/ CreateOwner(p) \/ GrantAdmin(p) \/ SetPassword(p)
         \/ EnableTenantOAuth(p)
  PROVE  IInv'
<1>1. /\ Exit(p) /\ UNCHANGED <<schema, applied, setup>> /\ table' \in BOOLEAN
      /\ faults' \in 0 .. MaxFaults /\ procs[p].pc = "write"
  BY DEF CreateTenant, CreateOwner, GrantAdmin, SetPassword, EnableTenantOAuth, At, tables,
         IInv, TypeOK
<1>2. procs[p].job # "create-tenant" => tenant # "none"
  BY <1>1 DEF IInv, ProcOK
<1>3. tenant \in TenantRow /\ user \in UserRow
  BY DEF IInv, TypeOK
<1>4. tenant' \in TenantRow /\ tenant' # "none"
  BY <1>2, <1>3 DEF CreateTenant, OneTenant, CreateOwner, GrantAdmin, SetPassword,
                    EnableTenantOAuth, Toggle, TenantRow
<1>5. user' \in UserRow
  BY <1>3 DEF CreateTenant, CreateOwner, Owner, GrantAdmin, SetAdmin, SetPassword,
              EnableTenantOAuth, UserRow, Password, NoUser
<1>6. QED
  BY <1>1, <1>4, <1>5, Ending

THEOREM Inductive == Spec => []IInv
<1>1. Init => IInv
  BY InitHolds
<1>2. IInv /\ [Next]_vars => IInv'
  <2>1. SUFFICES ASSUME IInv, [Next]_vars  PROVE IInv'
    OBVIOUS
  <2>2. ASSUME NEW p \in Process, Starts(p) \/ CutOff(p) \/ Signal(p) \/ Crash(p)
        PROVE  IInv'
    BY <2>1, <2>2, Starting, Failing, Signalled DEF Starts
  <2>3. ASSUME NEW p \in Process, Steps(p)  PROVE IInv'
    BY <2>1, <2>3, Opening, Reading, Applying, Migrating, Configuring, Serves, Finding, Writing
       DEF Steps
  <2>4. ASSUME NEW p \in Instance, Serving(p)  PROVE IInv'
    BY <2>1, <2>4, Sweeps, Requests DEF Serving
  <2>5. CASE UNCHANGED vars
    BY <2>1, <2>5 DEF vars, tables, rows, setup, IInv, TypeOK, SchemaWhole, ProcOK,
                      KnowsABeginning, FailsClosed
  <2>6. QED
    BY <2>1, <2>2, <2>3, <2>4, <2>5 DEF Next
<1>3. QED
  BY <1>1, <1>2, PTL DEF Spec

\* Every table, process and configuration keeps its type, and no account is
\* without its tenant.
THEOREM TypeCorrect == Spec => []TypeOK
<1>1. IInv => TypeOK
  BY DEF IInv
<1>2. QED
  BY <1>1, Inductive, PTL

\* Whatever starts, crashes and conflicts, the migrations on record have no gap
\* and left their schema; nobody serves, sweeps or writes before his are all
\* applied, misses what no newer build has dropped, or serves half configured.
THEOREM WholeIsServed == Spec => []ServesWhole
<1>1. ASSUME IInv  PROVE ServesWhole
  <2>1. PICK n \in Versions \cup {0} : applied = 1 .. n /\ schema = Whole(n)
    BY <1>1 DEF IInv, SchemaWhole
  <2>2. n \in Nat
    BY BuildTypes
  <2>3. ASSUME NEW p \in Process, Acting(p)
        PROVE  /\ 1 .. procs[p].binary \subseteq applied
               /\ Misses(procs[p].binary)
                    \subseteq UNION {Drops[v] : v \in applied \ (1 .. procs[p].binary)}
               /\ p \in Instance => FailsClosed(p)
    <3>1. /\ 1 .. procs[p].binary \subseteq applied
          /\ p \in Instance => FailsClosed(p)
      BY <1>1, <2>3 DEF IInv, Acting, ProcOK, Beyond, Started, Command
    <3>2. procs[p].binary \in Nat
      BY <1>1, BuildTypes DEF IInv, TypeOK, PState
    <3>3. ASSUME NEW v \in Misses(procs[p].binary)
          PROVE  \E w \in applied \ (1 .. procs[p].binary) : v \in Drops[w]
      BY <2>1, <2>2, <3>1, <3>2, <3>3, WholeMisses DEF Misses
    <3>4. QED
      BY <3>1, <3>3
  <2>4. QED
    BY <2>1, <2>3 DEF ServesWhole
<1>2. QED
  BY <1>1, Inductive, PTL
=============================================================================
