------------------------ MODULE MissionCoordinator_proofs ------------------------
(***************************************************************************)
(* Proofs about the mission coordinator, for any objectives, budgets,      *)
(* capacities, submissions, stops and restarts.  Shape says what the       *)
(* fields of a task mean where; Turns, who may act for the mission;        *)
(* Agenda, what was appended and on what grounds.  Each is kept by every   *)
(* action: lemma ...Shape, lemma ...Turn, lemma ...Agenda.                 *)
(***************************************************************************)
EXTENDS MissionCoordinator, Queues_proofs

-----------------------------------------------------------------------------
(* Sums over finite sets: Total takes one member after another, which      *)
(* MapThenFoldSet leaves to CHOOSE.  What it computes is found by a least  *)
(* counterexample.                                                         *)
Some(s) == CHOOSE x \in s : TRUE
SumStep(g, f, s) == IF s = {} THEN 0 ELSE f[Some(s)] + g[s \ {Some(s)}]
Sums(g, f, S) == g = [s \in SUBSET S |-> SumStep(g, f, s)]

LEMMA TotalSums ==
  ASSUME NEW S, NEW f, \E g : Sums(g, f, S)
  PROVE  \E g : Sums(g, f, S) /\ Total(f, S) = g[S]
<1> DEFINE it == CHOOSE g : Sums(g, f, S)
<1>1. Sums(it, f, S)
  BY Zenon
<1>2. Total(f, S) = it[S]
  BY Zenon DEF Total, MapThenSumSet, MapThenFoldSet, Sums, SumStep, Some
<1> QED
  BY <1>1, <1>2

LEMMA SomeMember ==
  ASSUME NEW s, s # {}
  PROVE  Some(s) \in s
BY Zenon DEF Some

(* The subsets of a finite set with at most n members.                     *)
UpTo(S, n) == {s \in SUBSET S : Cardinality(s) <= n}

LEMMA Smaller ==
  ASSUME NEW S, IsFiniteSet(S), NEW n \in Nat, NEW s \in UpTo(S, n), NEW x \in s
  PROVE  n > 0 /\ s \ {x} \in UpTo(S, n - 1)
<1>1. IsFiniteSet(s)
  BY FS_Subset DEF UpTo
<1>2. Cardinality(s) \in Nat /\ Cardinality(s) <= n
  BY <1>1, FS_CardinalityType DEF UpTo
<1>3. IsFiniteSet(s \ {x}) /\ Cardinality(s \ {x}) = Cardinality(s) - 1
  BY <1>1, FS_RemoveElement
<1>4. Cardinality(s \ {x}) \in Nat
  BY <1>3, FS_CardinalityType
<1>5. s \ {x} \in SUBSET S
  BY DEF UpTo
<1> QED
  BY <1>2, <1>3, <1>4, <1>5 DEF UpTo

SumsUpTo(g, f, S, n) == g \in [UpTo(S, n) -> Int] /\ \A s \in UpTo(S, n) : g[s] = SumStep(g, f, s)

LEMMA SumsExist ==
  ASSUME NEW S, IsFiniteSet(S), NEW f, \A x \in S : f[x] \in Int
  PROVE  \E g \in [SUBSET S -> Int] : Sums(g, f, S)
<1> DEFINE Bad == {n \in Nat : ~\E g : SumsUpTo(g, f, S, n)}
<1>1. Bad = {}
  <2> SUFFICES ASSUME Bad # {} PROVE FALSE
    OBVIOUS
  <2>1. PICK n \in Bad : \A m \in Bad : n <= m
    BY LeastNatural
  <2>2. n \in Nat /\ ~\E g : SumsUpTo(g, f, S, n)
    OBVIOUS
  <2>3. CASE n = 0
    <3> DEFINE g == [s \in UpTo(S, 0) |-> 0]
    <3>1. \A s \in UpTo(S, 0) : s = {}
      <4> SUFFICES ASSUME NEW s \in UpTo(S, 0), NEW x \in s PROVE FALSE
        OBVIOUS
      <4>1. 0 > 0
        BY Smaller
      <4> QED BY <4>1
    <3>2. SumsUpTo(g, f, S, 0)
      BY <3>1 DEF SumsUpTo, SumStep
    <3> QED
      BY <2>2, <2>3, <3>2
  <2>4. CASE n > 0
    <3>0. n - 1 \in Nat /\ ~(n <= n - 1)
      BY <2>2, <2>4
    <3>1. PICK h : SumsUpTo(h, f, S, n - 1)
      BY <2>1, <3>0
    <3> DEFINE P == UpTo(S, n - 1)
               g == [s \in UpTo(S, n) |-> IF s \in P THEN h[s] ELSE SumStep(h, f, s)]
    <3>2. \A s \in UpTo(S, n) : s # {} => Some(s) \in S /\ s \ {Some(s)} \in P
      BY <2>2, Smaller, SomeMember DEF UpTo
    <3>3. \A s \in P : s \in UpTo(S, n)
      <4> SUFFICES ASSUME NEW s \in P PROVE s \in UpTo(S, n)
        OBVIOUS
      <4>1. IsFiniteSet(s) /\ Cardinality(s) <= n - 1 /\ s \in SUBSET S
        BY FS_Subset DEF UpTo
      <4>2. Cardinality(s) \in Nat
        BY <4>1, FS_CardinalityType
      <4> QED BY <2>2, <4>1, <4>2 DEF UpTo
    <3>4. h \in [P -> Int] /\ \A s \in P : h[s] = SumStep(h, f, s)
      BY <3>1 DEF SumsUpTo
    <3> HIDE DEF P
    <3>5. \A s \in UpTo(S, n) : SumStep(h, f, s) \in Int /\ SumStep(g, f, s) = SumStep(h, f, s)
      BY <3>2, <3>3, <3>4 DEF SumStep
    <3>6. SumsUpTo(g, f, S, n)
      BY <3>3, <3>4, <3>5 DEF SumsUpTo
    <3> QED
      BY <2>2, <3>6
  <2> QED
    BY <2>2, <2>3, <2>4
<1>2. Cardinality(S) \in Nat
  BY FS_CardinalityType
<1>3. PICK g : SumsUpTo(g, f, S, Cardinality(S))
  BY <1>1, <1>2
<1>4. UpTo(S, Cardinality(S)) = SUBSET S
  BY FS_Subset DEF UpTo
<1>5. g \in [SUBSET S -> Int] /\ \A s \in SUBSET S : g[s] = SumStep(g, f, s)
  BY <1>3, <1>4 DEF SumsUpTo
<1> QED
  BY <1>5 DEF Sums

(* Two sums over different sets agree on what both are over.               *)
LEMMA SumsAgree ==
  ASSUME NEW S, NEW T, IsFiniteSet(S), IsFiniteSet(T), NEW f, NEW g, NEW h, NEW k,
         Sums(h, f, S), Sums(k, g, T), \A x \in S \intersect T : f[x] = g[x],
         NEW r \in SUBSET S, r \in SUBSET T
  PROVE  h[r] = k[r]
<1> DEFINE Differ(s) == s \in SUBSET S /\ s \in SUBSET T /\ h[s] # k[s]
           Bad == {n \in Nat : \E s : Differ(s) /\ Cardinality(s) = n}
<1>1. \A s : s \in SUBSET S => IsFiniteSet(s) /\ Cardinality(s) \in Nat
  BY FS_Subset, FS_CardinalityType
<1> SUFFICES ASSUME h[r] # k[r] PROVE FALSE
  OBVIOUS
<1>2. Cardinality(r) \in Bad
  BY <1>1
<1>3. PICK n \in Bad : \A m \in Bad : n <= m
  BY <1>2, LeastNatural
<1>4. PICK s : Differ(s) /\ Cardinality(s) = n
  OBVIOUS
<1>5. s # {}
  BY <1>4 DEF Sums, SumStep
<1> DEFINE x == Some(s)
           rest == s \ {x}
<1>6. x \in s
  BY <1>5, SomeMember
<1>7. h[s] = f[x] + h[rest] /\ k[s] = g[x] + k[rest] /\ f[x] = g[x]
  BY <1>4, <1>5, <1>6 DEF Sums, SumStep
<1>8. Cardinality(rest) = n - 1 /\ Cardinality(rest) \in Nat /\ n \in Nat
  BY <1>1, <1>4, <1>6, FS_RemoveElement
<1>9. Differ(rest)
  <2>1. h[rest] # k[rest]
    BY <1>4, <1>7
  <2> QED BY <1>4, <2>1
<1>10. n - 1 \in Bad
  BY <1>8, <1>9
<1> QED
  BY <1>3, <1>8, <1>10

(* What Total computes: nothing of nothing, and one member after another,  *)
(* in whatever order.                                                      *)
LEMMA TotalIsSum ==
  ASSUME NEW S, IsFiniteSet(S), NEW f, \A x \in S : f[x] \in Int
  PROVE  \E g \in [SUBSET S -> Int] : Sums(g, f, S) /\ Total(f, S) = g[S]
<1>1. PICK h \in [SUBSET S -> Int] : Sums(h, f, S)
  BY SumsExist
<1>2. PICK g : Sums(g, f, S) /\ Total(f, S) = g[S]
  BY <1>1, TotalSums
<1>3. \A s \in SUBSET S : g[s] = h[s]
  BY <1>1, <1>2, SumsAgree
<1>4. g = h
  BY <1>1, <1>2, <1>3 DEF Sums
<1> QED
  BY <1>1, <1>2, <1>4

LEMMA TotalSame ==
  ASSUME NEW S, IsFiniteSet(S), NEW f, NEW g, \A x \in S : f[x] \in Int /\ g[x] = f[x]
  PROVE  Total(f, S) = Total(g, S)
<1>0. \A x \in S : g[x] \in Int
  OBVIOUS
<1>1. PICK h \in [SUBSET S -> Int] : Sums(h, f, S) /\ Total(f, S) = h[S]
  BY TotalIsSum
<1>2. PICK k \in [SUBSET S -> Int] : Sums(k, g, S) /\ Total(g, S) = k[S]
  BY <1>0, TotalIsSum
<1>3. S \in SUBSET S /\ \A x \in S \intersect S : f[x] = g[x]
  OBVIOUS
<1>4. h[S] = k[S]
  BY <1>1, <1>2, <1>3, SumsAgree
<1> QED
  BY <1>1, <1>2, <1>4

LEMMA TotalEmpty ==
  ASSUME NEW f
  PROVE  Total(f, {}) = 0
<1>0. IsFiniteSet({})
  BY FS_EmptySet
<1>1. PICK h \in [SUBSET {} -> Int] : Sums(h, f, {}) /\ Total(f, {}) = h[{}]
  BY <1>0, TotalIsSum
<1> QED
  BY <1>1 DEF Sums, SumStep

LEMMA TotalTakes ==
  ASSUME NEW S, IsFiniteSet(S), NEW f, \A x \in S : f[x] \in Int, S # {}
  PROVE  /\ Some(S) \in S /\ Total(f, S) \in Int /\ Total(f, S \ {Some(S)}) \in Int
         /\ Total(f, S) = f[Some(S)] + Total(f, S \ {Some(S)})
<1> DEFINE R == S \ {Some(S)}
<1>0. Some(S) \in S
  BY SomeMember
<1>1. PICK h \in [SUBSET S -> Int] : Sums(h, f, S) /\ Total(f, S) = h[S]
  BY TotalIsSum
<1>2. IsFiniteSet(R) /\ R \in SUBSET S /\ R \in SUBSET R
  BY FS_Subset
<1>3. PICK k \in [SUBSET R -> Int] : Sums(k, f, R) /\ Total(f, R) = k[R]
  BY <1>2, TotalIsSum
<1>4. h[R] = k[R]
  BY <1>1, <1>2, <1>3, SumsAgree
<1>5. h[S] = f[Some(S)] + h[R]
  BY <1>1 DEF Sums, SumStep
<1>6. h[S] \in Int /\ h[R] \in Int
  BY <1>1
<1> QED
  BY <1>0, <1>1, <1>3, <1>4, <1>5, <1>6

LEMMA TotalInt ==
  ASSUME NEW S, IsFiniteSet(S), NEW f, \A x \in S : f[x] \in Int
  PROVE  Total(f, S) \in Int
<1>1. PICK h \in [SUBSET S -> Int] : Sums(h, f, S) /\ Total(f, S) = h[S]
  BY TotalIsSum
<1> QED
  BY <1>1

LEMMA Regroup ==
  ASSUME NEW a \in Int, NEW b \in Int, NEW r \in Int, NEW s, NEW t, NEW u,
         s = a + t, t = b + r, u = a + r
  PROVE  s = b + u
OBVIOUS

LEMMA TotalRemoves ==
  ASSUME NEW S, IsFiniteSet(S), NEW f, \A x \in S : f[x] \in Int, NEW x \in S
  PROVE  Total(f, S) = f[x] + Total(f, S \ {x})
<1> DEFINE Bad == {n \in Nat : \E s \in SUBSET S : Cardinality(s) = n /\
                                 \E y \in s : Total(f, s) # f[y] + Total(f, s \ {y})}
<1>1. \A s : s \in SUBSET S => IsFiniteSet(s) /\ Cardinality(s) \in Nat
  BY FS_Subset, FS_CardinalityType
<1> SUFFICES ASSUME Total(f, S) # f[x] + Total(f, S \ {x}) PROVE FALSE
  OBVIOUS
<1>2. Cardinality(S) \in Bad
  BY <1>1
<1>3. PICK n \in Bad : \A m \in Bad : n <= m
  BY <1>2, LeastNatural
<1>4. PICK s \in SUBSET S : Cardinality(s) = n /\ \E y \in s : Total(f, s) # f[y] + Total(f, s \ {y})
  OBVIOUS
<1>5. PICK y \in s : Total(f, s) # f[y] + Total(f, s \ {y})
  BY <1>4
<1> DEFINE z == Some(s)
           r == s \ {z, y}
<1>6. /\ z \in s /\ Total(f, s) \in Int /\ Total(f, s \ {z}) \in Int
      /\ Total(f, s) = f[z] + Total(f, s \ {z})
  BY <1>1, TotalTakes
<1>7. y # z
  BY <1>5, <1>6
<1>8. /\ \A q \in {y, z} : /\ Cardinality(s \ {q}) = n - 1 /\ Cardinality(s \ {q}) \in Nat
                           /\ s \ {q} \in SUBSET S
      /\ n \in Nat
  BY <1>1, <1>4, <1>6, FS_RemoveElement
<1>9. n - 1 \notin Bad /\ n - 1 \in Nat
  BY <1>3, <1>8
<1>10. Total(f, s \ {z}) = f[y] + Total(f, (s \ {z}) \ {y})
  BY <1>6, <1>7, <1>8, <1>9
<1>11. Total(f, s \ {y}) = f[z] + Total(f, (s \ {y}) \ {z})
  BY <1>6, <1>7, <1>8, <1>9
<1>12. (s \ {z}) \ {y} = r /\ (s \ {y}) \ {z} = r
  OBVIOUS
<1>13. f[y] \in Int /\ f[z] \in Int /\ IsFiniteSet(r) /\ r \in SUBSET S
  BY <1>1, <1>6
<1>14. Total(f, r) \in Int
  BY <1>13, TotalInt
<1> HIDE DEF r, z
<1>15. Total(f, s) = f[y] + Total(f, s \ {y})
  <2>1. Total(f, s \ {z}) = f[y] + Total(f, r) /\ Total(f, s \ {y}) = f[z] + Total(f, r)
    BY <1>10, <1>11, <1>12
  <2> QED BY <1>6, <1>13, <1>14, <2>1, Regroup
<1> QED
  BY <1>5, <1>15

(* The sum after a change at one place, and of what is zero elsewhere.     *)
LEMMA TotalChanges ==
  ASSUME NEW S, IsFiniteSet(S), NEW f, \A y \in S : f[y] \in Int, NEW x \in S,
         NEW g, g[x] \in Int, \A y \in S : y # x => g[y] = f[y]
  PROVE  Total(f, S) \in Int /\ Total(g, S) = Total(f, S) - f[x] + g[x]
<1>1. \A y \in S : g[y] \in Int
  OBVIOUS
<1>2. Total(f, S) = f[x] + Total(f, S \ {x})
  BY TotalRemoves
<1>3. Total(g, S) = g[x] + Total(g, S \ {x})
  BY <1>1, TotalRemoves
<1>4. IsFiniteSet(S \ {x})
  BY FS_Subset
<1>5. Total(f, S \ {x}) = Total(g, S \ {x}) /\ Total(f, S \ {x}) \in Int
  BY <1>4, TotalSame, TotalInt
<1>6. f[x] \in Int
  OBVIOUS
<1> QED
  BY <1>2, <1>3, <1>5, <1>6

LEMMA TotalGrows ==
  ASSUME NEW S, IsFiniteSet(S), NEW f, \A x \in S : f[x] \in Nat
  PROVE  Total(f, S) \in Nat /\ \A x \in S : f[x] <= Total(f, S)
<1> DEFINE Bad == {n \in Nat : \E s \in SUBSET S : Cardinality(s) = n /\ Total(f, s) \notin Nat}
<1>1. \A s : s \in SUBSET S => IsFiniteSet(s) /\ Cardinality(s) \in Nat
  BY FS_Subset, FS_CardinalityType
<1>2. Bad = {}
  <2> SUFFICES ASSUME Bad # {} PROVE FALSE
    OBVIOUS
  <2>1. PICK n \in Bad : \A m \in Bad : n <= m
    BY LeastNatural
  <2>2. PICK s \in SUBSET S : Cardinality(s) = n /\ Total(f, s) \notin Nat
    OBVIOUS
  <2>3. s # {}
    BY <2>2, TotalEmpty
  <2>4. PICK x : x \in s
    BY <2>3
  <2>5. Total(f, s) = f[x] + Total(f, s \ {x})
    BY <1>1, <2>4, TotalRemoves
  <2>6. /\ Cardinality(s \ {x}) = n - 1 /\ Cardinality(s \ {x}) \in Nat
        /\ s \ {x} \in SUBSET S /\ n \in Nat
    BY <1>1, <2>2, <2>4, FS_RemoveElement
  <2>7. Total(f, s \ {x}) \notin Nat
    BY <2>2, <2>4, <2>5
  <2>8. n - 1 \in Bad
    BY <2>6, <2>7
  <2> QED
    BY <2>1, <2>6, <2>8
<1>3. \A s \in SUBSET S : Total(f, s) \in Nat
  BY <1>1, <1>2
<1>4. ASSUME NEW x \in S PROVE f[x] <= Total(f, S)
  <2>1. Total(f, S) = f[x] + Total(f, S \ {x})
    BY TotalRemoves
  <2>2. Total(f, S \ {x}) \in Nat /\ f[x] \in Nat
    BY <1>3
  <2> QED BY <2>1, <2>2
<1> QED
  BY <1>3, <1>4

LEMMA TotalOfPart ==
  ASSUME NEW S, IsFiniteSet(S), NEW T \in SUBSET S, NEW f, \A x \in T : f[x] \in Int,
         NEW g, \A x \in S : g[x] = IF x \in T THEN f[x] ELSE 0
  PROVE  Total(g, S) = Total(f, T)
<1> DEFINE Bad == {n \in Nat : \E s \in SUBSET S : /\ T \subseteq s /\ Cardinality(s) = n
                                                   /\ Total(g, s) # Total(f, T)}
<1>1. \A s : s \in SUBSET S => IsFiniteSet(s) /\ Cardinality(s) \in Nat
  BY FS_Subset, FS_CardinalityType
<1>0. \A x \in S : g[x] \in Int
  OBVIOUS
<1> SUFFICES ASSUME Total(g, S) # Total(f, T) PROVE FALSE
  OBVIOUS
<1>2. Cardinality(S) \in Bad
  BY <1>1
<1>3. PICK n \in Bad : \A m \in Bad : n <= m
  BY <1>2, LeastNatural
<1>4. PICK s \in SUBSET S : T \subseteq s /\ Cardinality(s) = n /\ Total(g, s) # Total(f, T)
  OBVIOUS
<1>5. s # T
  <2> SUFFICES ASSUME s = T PROVE FALSE
    OBVIOUS
  <2>1. \A x \in T : f[x] \in Int /\ g[x] = f[x]
    OBVIOUS
  <2>2. Total(f, T) = Total(g, T)
    BY <1>1, <2>1, TotalSame
  <2> QED BY <1>4, <2>2
<1>6. PICK x \in s : x \notin T
  BY <1>4, <1>5
<1>7. Total(g, s) = g[x] + Total(g, s \ {x}) /\ g[x] = 0
  <2>1. IsFiniteSet(s) /\ \A q \in s : g[q] \in Int
    BY <1>0, <1>1
  <2>2. Total(g, s) = g[x] + Total(g, s \ {x})
    BY <1>6, <2>1, TotalRemoves
  <2> QED BY <1>4, <1>6, <2>2
<1>8. /\ Cardinality(s \ {x}) = n - 1 /\ Cardinality(s \ {x}) \in Nat
      /\ s \ {x} \in SUBSET S /\ n \in Nat
  BY <1>1, <1>4, FS_RemoveElement
<1>9. Total(g, s \ {x}) \in Int
  BY <1>0, <1>1, <1>8, TotalInt
<1>10. n - 1 \in Bad
  BY <1>4, <1>6, <1>7, <1>8, <1>9
<1> QED
  BY <1>3, <1>8, <1>10

-----------------------------------------------------------------------------
(* The inductive invariant.  A task holds the turn when it may go on to    *)
(* give the mission its next command.  The turn passes from the submission *)
(* to the command it creates, from an active objective to the task that    *)
(* wins the compare-and-set on its end, and is lost when that task stops   *)
(* or fails: it is never in two places.                                    *)
Onward == {"advance", "adapt", "verify", "explore"}
Rebalancing == {"planner", "failMission", "saveRetry", "replace", "rearm"}
Informed == Onward \union {"activate", "fundProposal", "append"}
Holding(x) == \/ x.pc \in {"fund", "plan"} \union Rebalancing \union Informed
              \/ x.pc \in Reads /\ x.next \in Onward
Holds(t) == Holding(task[t])
NoHolder == \A t \in Task : ~Holds(t)
NobodyActivates == \A t \in Task : ~At(t, "activate")
ActiveNow == {o \in Objective : objectives[o].status = "active"}
PendingNow == {o \in Objective : objectives[o].status = "pending"}
Linked(o) == <<o, linked[o]>>

(* Types, and what the fields of a task mean where.                        *)
SnapRecord ==
  [mission : [status : MissionStatuses, version : Nat], linked : [Objective -> Nat],
   retryRecords : Nat, proposals : SUBSET (Objective \ First), account : Account,
   objectives : [Objective -> [status : ObjectiveStatuses, version : Nat, budget : Nat]]]
TaskRecord ==
  [pc : Pcs, child : Child \union {NoId}, seen : States \union {"absent"},
   next : Procedures \union {"idle"},
   caller : {"none", "submit", "child", "rebalance", "explore"},
   snap : SnapRecord, account : Account]

SubmitterFits(x) ==
  /\ x.pc \in Reads \union {"idle", "fund", "plan", "advance", "activate", "run"}
  /\ x.pc \notin {"idle", "fund", "plan"} => x.caller = "submit"
  /\ x.pc \in Reads => x.next = "advance"

Unlooked == {"idle", "looks", "runs", "waits", "reconciles", "terminates"}
ByRebalance(x) == \/ x.pc \in Rebalancing \union {"rebalance", "failObjective"}
                  \/ x.pc \in Reads /\ x.next = "rebalance"
ByChild(x) ==
  \/ x.pc \in {"child", "settle", "endObjective", "endMission", "adapt", "explore",
               "verify", "fundProposal", "append"}
  \/ x.pc \in Reads /\ x.next \in {"child", "adapt", "explore", "verify"}
Unended == {"absent", "queued", "running"}

Called(x) ==
  /\ ByRebalance(x) => x.caller = "rebalance"
  /\ ByChild(x) => x.caller = "child"
  /\ x.pc \notin Unlooked \union {"checks"} => x.caller \in {"child", "rebalance", "explore"}
  /\ x.pc \notin Unlooked \union {"checks"} /\ x.caller = "rebalance" => x.seen = "failed"
  /\ Holding(x) => x.seen = IF x.caller = "rebalance" THEN "failed" ELSE "succeeded"

NotifierFits(n, x, rows) ==
  /\ x.pc \notin {"fund", "plan"}
  /\ n = "gateway" => x.pc # "runs"
  /\ n = "worker" => x.pc \notin {"waits", "reconciles", "terminates"}
  /\ x.pc # "idle" => x.child \in Child /\ rows[x.child].state # "absent"
  /\ x.pc \in Reads => x.next \in Procedures
  /\ x.pc \notin Unlooked => /\ x.seen \in Terminal
                             /\ rows[x.child].state \notin Unended
                             /\ x.seen \in Settled => rows[x.child].state = x.seen
  /\ Called(x)

Owned ==
  /\ At("worker", "runs") => commands[task["worker"].child].state = "running"
  /\ task["gateway"].pc \in {"terminates", "reconciles"}
       => commands[task["gateway"].child].state = "reconciling"

Shape ==
  /\ TypeOK /\ task \in [Task -> TaskRecord] /\ Owned
  /\ \A s \in Submitter : SubmitterFits(task[s])
  /\ \A n \in Notifier : NotifierFits(n, task[n], commands)
  /\ \A i \in DOMAIN pending : Present(pending[i])

(* The turn.                                                               *)
OneTurn == \A t, u \in Task : Holds(t) /\ Holds(u) => t = u
TurnOrActive == (\E t \in Task : Holds(t)) => ActiveNow = {}
OneActive == \A o, p \in ActiveNow : o = p
LinksFit ==
  /\ \A o \in ActiveNow : linked[o] = objectives[o].version
  /\ \A o \in Objective : linked[o] <= objectives[o].version
  /\ \A o \in Objective : linked[o] # 0 => Linked(o) \in Child /\ Present(Linked(o))
  /\ \A o \in PendingNow : linked[o] # 0 => linked[o] < objectives[o].version
  /\ \A o \in Objective : objectives[o].status = "absent" => linked[o] = 0

(* Nobody can give the mission another command.                            *)
Stuck == NoHolder /\ ActiveNow = {}
Chooses(t, c) == At(t, "activate") /\ c = ChosenChild(task[t].snap)
OpenIsKnown ==
  \A c \in Open : \/ c[1] \in ActiveNow /\ c = Linked(c[1])
                  \/ \E t \in Task : Chooses(t, c)
                  \/ Stuck /\ Open = {c}

(* What became of the commands of earlier versions; and a command whose    *)
(* objective was not activated for it is being activated, or never will.   *)
Versions ==
  /\ \A c \in Execute : Present(c) => c \in Child
  /\ \A c \in Child : Present(c) =>
       /\ c[2] >= 1
       /\ c[2] < linked[c[1]] => commands[c].state = "failed"
       /\ c[2] = linked[c[1]] /\ c[1] \in PendingNow => commands[c].state = "failed"
       /\ c[2] > linked[c[1]] => /\ c[1] \in PendingNow
                                 /\ c[2] = objectives[c[1]].version + 1
                                 /\ (\E t \in Task : Chooses(t, c)) \/ Stuck

Lost == {o \in Objective : objectives[o].status \in {"failed", "blocked_unknown"}}
LostIsLast ==
  Lost # {} => /\ Open = {} /\ ActiveNow = {}
               /\ \A t \in Task : Holds(t) => task[t].pc \in Rebalancing

(* Whoever has the turn knows the objectives: they move only at its hand.  *)
Knows(t) ==
  /\ task[t].pc \in Informed => task[t].snap.objectives = objectives
  /\ task[t].pc \in {"fundProposal", "append"} => Unproposed(task[t].snap) # {}
  /\ At(t, "activate") => /\ Ready(task[t].snap) # {}
                          /\ ChosenChild(task[t].snap) \in Child
                          /\ Present(ChosenChild(task[t].snap))
  /\ task[t].pc \in Rebalancing => /\ Lost = {ObjectiveOf(t)}
                                   /\ linked[ObjectiveOf(t)] = task[t].child[2]
                                   /\ objectives[ObjectiveOf(t)].status = "failed"

(* While commands are admitted the gateway only follows a termination; a   *)
(* command put back by a rebalance is not in its hands.                    *)
GatewayTerminated ==
  accepting =>
    /\ pending = <<>>
    /\ ~At("gateway", "idle") =>
         \/ At("gateway", "terminates") /\ commands[task["gateway"].child].state = "reconciling"
         \/ /\ task["gateway"].pc \notin {"waits", "reconciles", "terminates"}
            /\ commands[task["gateway"].child].state = "cancelled"
InHand == {pending[i] : i \in DOMAIN pending}
          \union {c \in {task["gateway"].child} : ~At("gateway", "idle")}
NoEcho ==
  /\ ~At("gateway", "activate")
  /\ At("worker", "activate") =>
       \A c \in InHand : ~(c[1] \in PendingNow /\ linked[c[1]] = c[2])

SubmitterFirst ==
  (\E s \in Submitter : Holds(s)) =>
    \A o \in Objective : linked[o] = 0 /\ objectives[o].status \in {"pending", "absent"}
NotYet ==
  mission.status = "absent" =>
    /\ NoHolder
    /\ \A o \in Objective : linked[o] = 0 /\ objectives[o].status = "absent"

(* No command is open or about to be, and no other objective than that of  *)
(* c is active; with Closing, none is.  Both stay once they hold, until    *)
(* the task that follows c takes the turn.                                 *)
Resting == Open = {} /\ NobodyActivates /\ (accepting => NoHolder)
Settling(c) == Resting /\ \A o \in ActiveNow : Linked(o) = c
Closing == Resting /\ ActiveNow = {}

OnRow(n) == task[n].snap.linked[ObjectiveOf(n)] = task[n].child[2]
ReadsChild(n) == task[n].next \in {"child", "rebalance"}
Committed(n) ==
  \/ task[n].pc \in {"child", "rebalance"} /\ StatusRead(n) = "active" /\ OnRow(n)
  \/ task[n].pc \in {"settle", "endObjective", "failObjective"}

Follows(n) ==
  /\ task[n].pc \in {"account", "objectives"} /\ ReadsChild(n) /\ OnRow(n)
       => linked[ObjectiveOf(n)] = task[n].child[2]
  /\ Committed(n) => /\ OnRow(n) /\ StatusRead(n) = "active"
                     /\ VersionRead(n) = task[n].child[2]
                     /\ Settling(task[n].child)
  /\ At(n, "child") /\ Replayed(n) => Closing
  /\ At(n, "endMission") => Closing

EndedIsClosing == mission.status \in MissionEnds => Closing

Turns ==
  /\ OneTurn /\ TurnOrActive /\ OneActive /\ LinksFit /\ OpenIsKnown /\ Versions
  /\ LostIsLast /\ GatewayTerminated /\ NoEcho /\ SubmitterFirst /\ NotYet
  /\ EndedIsClosing
  /\ \A t \in Task : Knows(t)
  /\ \A n \in Notifier : Follows(n)

-----------------------------------------------------------------------------
(* Constants and types.                                                    *)
LEMMA Names ==
  /\ "worker" \notin Submitter /\ "gateway" \notin Submitter
  /\ "worker" \in Task /\ "gateway" \in Task /\ Task = Submitter \union Notifier
  /\ Child \subseteq Execute /\ Child \subseteq Id /\ NoId \notin Child /\ IsFiniteSet(Child)
  /\ \A c \in Child : c = <<c[1], c[2]>> /\ c[1] \in Objective /\ c[2] \in Nat
  /\ \A o \in Objective : o \in Nat /\ o > 0
  /\ IsFiniteSet(Objective) /\ First \subseteq Objective /\ Limit \in Nat
  /\ Cost \in [Objective -> Nat] /\ \A o \in Objective : Cost[o] # 0
<1>1. \A c \in Id : c \in Nat \X Nat
  BY CoordinatorAssumption
<1>2. \A c \in Child : c = <<c[1], c[2]>> /\ c[1] \in Objective /\ c[2] \in Nat
  BY <1>1 DEF Child, Execute
<1>3. Cost \in [Objective -> Nat \ {0}]
  BY SpecAssumption
<1> QED
  BY <1>2, <1>3, CoordinatorAssumption, SpecAssumption, NoIdAssumption
  DEF Task, Notifier, Child, Execute

LEMMA Records ==
  /\ InitialAccount \in Account /\ NoSnapshot \in SnapRecord /\ Idle \in TaskRecord
  /\ Idle.pc = "idle" /\ SubmitterFits(Idle)
<1>1. InitialAccount \in Account
  BY Names DEF InitialAccount, Account
<1>2. NoSnapshot \in SnapRecord
  BY <1>1 DEF NoSnapshot, SnapRecord, MissionStatuses, ObjectiveStatuses
<1>3. Idle \in TaskRecord
  BY <1>1, <1>2 DEF Idle, TaskRecord, Pcs
<1> QED
  BY <1>1, <1>2, <1>3 DEF Idle, SubmitterFits, Reads

LEMMA IdleFits ==
  ASSUME NEW n, NEW rows
  PROVE  NotifierFits(n, Idle, rows)
BY DEF Idle, NotifierFits, Called, Holding, ByRebalance, ByChild, Unlooked, Onward,
       Informed, Rebalancing, Reads

LEMMA ReadingRecord ==
  ASSUME NEW x \in TaskRecord, NEW p \in Procedures
  PROVE  /\ Reading(x, p) \in TaskRecord
         /\ Reading(x, p).pc = "mission" /\ Reading(x, p).next = p
         /\ Reading(x, p).snap = NoSnapshot
         /\ Reading(x, p).child = x.child /\ Reading(x, p).seen = x.seen
         /\ Reading(x, p).caller = x.caller /\ Reading(x, p).account = x.account
BY Records DEF Reading, TaskRecord, Pcs, Reads

LEMMA OnChildRecord ==
  ASSUME NEW x \in TaskRecord
  PROVE  /\ OnChild(x) \in TaskRecord
         /\ OnChild(x).pc = "mission" /\ OnChild(x).next = "child"
         /\ OnChild(x).snap = NoSnapshot /\ OnChild(x).child = x.child
         /\ OnChild(x).seen = x.seen /\ OnChild(x).caller = "child"
<1> DEFINE y == [x EXCEPT !.caller = "child"]
<1>1. y \in TaskRecord /\ y.child = x.child /\ y.seen = x.seen /\ y.caller = "child"
  BY DEF TaskRecord
<1>2. "child" \in Procedures /\ OnChild(x) = Reading(y, "child")
  BY DEF Procedures, OnChild
<1> HIDE DEF y
<1> QED
  BY <1>1, <1>2, ReadingRecord

(* What a step does to the rows of the journal, as far as tasks depend on  *)
(* them: rows do not vanish, and what ended does not run again.            *)
Aged ==
  \A c \in Id :
    /\ Present(c) => commands'[c].state # "absent"
    /\ commands[c].state \in Settled => commands'[c].state = commands[c].state
    /\ commands[c].state \notin Unended => commands'[c].state \notin Unended

LEMMA FitsStay ==
  ASSUME Aged, NEW n \in Notifier, NEW x \in TaskRecord, NotifierFits(n, x, commands)
  PROVE  NotifierFits(n, x, commands')
<1>1. x.pc # "idle" => x.child \in Child /\ x.child \in Id
  BY Names DEF NotifierFits
<1>2. x.seen \in Settled /\ commands[x.child].state = x.seen => commands[x.child].state \in Settled
  OBVIOUS
<1> QED
  BY <1>1, <1>2 DEF NotifierFits, Aged, Present, Unlooked

LEMMA ShapeMoves ==
  ASSUME Shape, NEW t \in Task, NEW x \in TaskRecord, Becomes(t, x),
         JournalTypeOK', RepositoryTypeOK', Aged, advanced' \in SUBSET Child,
         pending' \in Seq(Child),
         \A i \in DOMAIN pending' : commands'[pending'[i]].state # "absent",
         usage' \in [Child -> Nat], mishaps' \in SUBSET Mishaps,
         restarts' \in 0..MaxRestarts,
         t \in Submitter => SubmitterFits(x),
         t \in Notifier => NotifierFits(t, x, commands'),
         t = "worker" /\ x.pc = "runs" => commands'[x.child].state = "running",
         t # "worker" /\ At("worker", "runs")
           => commands'[task["worker"].child].state = "running",
         t = "gateway" /\ x.pc \in {"terminates", "reconciles"}
           => commands'[x.child].state = "reconciling",
         t # "gateway" /\ task["gateway"].pc \in {"terminates", "reconciles"}
           => commands'[task["gateway"].child].state = "reconciling"
  PROVE  Shape'
<1>1. task \in [Task -> TaskRecord]
  BY DEF Shape
<1>2. task' \in [Task -> TaskRecord] /\ task'[t] = x /\ \A u \in Task \ {t} : task'[u] = task[u]
  BY <1>1 DEF Becomes
<1>3. TypeOK'
  BY <1>2 DEF TypeOK, TaskRecord
<1>4. \A s \in Submitter : SubmitterFits(task'[s])
  BY <1>2, Names DEF Shape
<1>5. ASSUME NEW n \in Notifier PROVE NotifierFits(n, task'[n], commands')
  <2>1. CASE n = t
    BY <1>2, <2>1
  <2>2. CASE n # t
    <3>1. task'[n] = task[n] /\ task[n] \in TaskRecord /\ NotifierFits(n, task[n], commands)
      BY <1>1, <1>2, <2>2, Names DEF Shape
    <3> QED BY <3>1, FitsStay
  <2> QED BY <2>1, <2>2
<1>6. Owned'
  BY <1>2, Names DEF Owned, At
<1> QED
  BY <1>2, <1>3, <1>4, <1>5, <1>6 DEF Shape, Present

(* The operations of the repository.                                       *)
LEMMA MissionTargets ==
  ASSUME NEW status, NEW target \in MissionSuccessors(status)
  PROVE  target \in MissionStatuses /\ target # "absent" /\ target # "accepted"
BY DEF MissionSuccessors, MissionStatuses, MissionEnds

LEMMA ObjectiveTargets ==
  ASSUME NEW status, NEW target \in ObjectiveSuccessors(status)
  PROVE  /\ target \in ObjectiveStatuses
         /\ \/ status = "pending" /\ target = "active"
            \/ status = "pending" /\ target = "blocked_unknown"
            \/ status = "active" /\ target \in {"completed", "failed", "blocked_unknown"}
BY DEF ObjectiveSuccessors, ObjectiveStatuses

LEMMA MissionTyped ==
  ASSUME RepositoryTypeOK, NEW version, NEW target, TransitionMission(version, target)
  PROVE  /\ RepositoryTypeOK' /\ mission'.status = target
         /\ mission'.version = mission.version + 1
         /\ target \in MissionSuccessors(mission.status)
         /\ UNCHANGED <<objectives, linked, retryRecords, proposals, account>>
<1>1. /\ mission.version = version /\ target \in MissionSuccessors(mission.status)
      /\ mission' = [status |-> target, version |-> version + 1]
      /\ UNCHANGED <<objectives, linked, retryRecords, proposals, account>>
  BY DEF TransitionMission, MissionAdmits
<1>2. target \in MissionStatuses
  BY <1>1, MissionTargets
<1> QED
  BY <1>1, <1>2 DEF RepositoryTypeOK

LEMMA ObjectiveTyped ==
  ASSUME RepositoryTypeOK, NEW o \in Objective, NEW version, NEW target, NEW k \in Nat,
         TransitionObjective(o, version, target, k)
  PROVE  /\ RepositoryTypeOK'
         /\ objectives[o].version = version
         /\ target \in ObjectiveSuccessors(objectives[o].status)
         /\ objectives'[o].status = target /\ objectives'[o].version = version + 1
         /\ \A p \in Objective \ {o} : objectives'[p] = objectives[p] /\ linked'[p] = linked[p]
         /\ linked'[o] = k
         /\ UNCHANGED <<mission, retryRecords, proposals, account>>
<1>1. /\ objectives[o].version = version
      /\ target \in ObjectiveSuccessors(objectives[o].status)
      /\ objectives' = [objectives EXCEPT ![o].status = target, ![o].version = version + 1]
      /\ linked' = [linked EXCEPT ![o] = k]
      /\ UNCHANGED <<mission, retryRecords, proposals, account>>
  BY DEF TransitionObjective, ObjectiveAdmits
<1>2. target \in ObjectiveStatuses
  BY <1>1, ObjectiveTargets
<1> QED
  BY <1>1, <1>2 DEF RepositoryTypeOK

LEMMA ReplaceTyped ==
  ASSUME RepositoryTypeOK, NEW o \in Objective, NEW version, NEW amount \in Nat,
         ReplaceObjectiveBudget(o, version, amount)
  PROVE  /\ RepositoryTypeOK'
         /\ objectives[o].version = version /\ objectives[o].status = "failed"
         /\ objectives'[o].status = "failed" /\ objectives'[o].version = version + 1
         /\ \A p \in Objective \ {o} : objectives'[p] = objectives[p]
         /\ UNCHANGED <<mission, linked, proposals, account>>
<1>1. /\ objectives[o].version = version /\ objectives[o].status = "failed"
      /\ objectives' = [objectives EXCEPT ![o].budget = amount, ![o].version = version + 1]
      /\ retryRecords' = retryRecords + 1
      /\ UNCHANGED <<mission, linked, proposals, account>>
  BY DEF ReplaceObjectiveBudget, MayRetry
<1>2. version \in Nat
  BY <1>1 DEF RepositoryTypeOK
<1> QED BY <1>1, <1>2 DEF RepositoryTypeOK

LEMMA RearmTyped ==
  ASSUME RepositoryTypeOK, NEW o \in Objective, NEW version, RearmObjective(o, version)
  PROVE  /\ RepositoryTypeOK'
         /\ objectives[o].version = version /\ objectives[o].status = "failed"
         /\ objectives'[o].status = "pending" /\ objectives'[o].version = version + 1
         /\ \A p \in Objective \ {o} : objectives'[p] = objectives[p]
         /\ UNCHANGED <<mission, linked, proposals, account>>
<1>1. /\ objectives[o].version = version /\ objectives[o].status = "failed"
      /\ objectives' = [objectives EXCEPT ![o].status = "pending", ![o].version = version + 1]
      /\ retryRecords' = retryRecords + 1
      /\ UNCHANGED <<mission, linked, proposals, account>>
  BY DEF RearmObjective, MayRetry
<1>2. version \in Nat /\ "pending" \in ObjectiveStatuses
  BY <1>1 DEF RepositoryTypeOK, ObjectiveStatuses
<1> QED BY <1>1, <1>2 DEF RepositoryTypeOK

LEMMA AppendTyped ==
  ASSUME RepositoryTypeOK, NEW o \in Objective, AppendObjective(o)
  PROVE  /\ RepositoryTypeOK'
         /\ objectives[o].status = "absent" /\ objectives'[o].status = "pending"
         /\ objectives'[o].version = objectives[o].version
         /\ \A p \in Objective \ {o} : objectives'[p] = objectives[p]
         /\ UNCHANGED <<mission, linked, proposals, account>>
<1>1. /\ objectives[o].status = "absent"
      /\ objectives' = [objectives EXCEPT ![o].status = "pending"]
      /\ UNCHANGED <<mission, linked, retryRecords, proposals, account>>
  BY DEF AppendObjective
<1>2. "pending" \in ObjectiveStatuses
  BY DEF ObjectiveStatuses
<1> QED BY <1>1, <1>2 DEF RepositoryTypeOK

LEMMA AccountTyped ==
  ASSUME RepositoryTypeOK, NEW acct \in Account, SaveBudget(acct)
  PROVE  /\ RepositoryTypeOK' /\ account' = acct
         /\ UNCHANGED <<mission, objectives, linked, retryRecords, proposals>>
BY DEF SaveBudget, RepositoryTypeOK

(* BudgetAccount.                                                          *)
LEMMA ReserveTyped ==
  ASSUME NEW acct \in Account, NEW o \in Objective, NEW amount \in Nat
  PROVE  /\ Reserve(acct, o, amount) \in Account
         /\ Reserve(acct, o, amount).used = acct.used
         /\ Reserve(acct, o, amount).reserved[o] = amount
         /\ \A p \in Objective \ {o} : Reserve(acct, o, amount).reserved[p] = acct.reserved[p]
BY DEF Reserve, Account

LEMMA SettleTyped ==
  ASSUME NEW acct \in Account, NEW o \in Objective, NEW amount \in Nat
  PROVE  /\ Settle(acct, o, amount) \in Account
         /\ Settle(acct, o, amount).used = acct.used + amount
         /\ Settle(acct, o, amount).reserved[o] = 0
         /\ \A p \in Objective \ {o} : Settle(acct, o, amount).reserved[p] = acct.reserved[p]
<1>1. acct.used + amount \in Nat
  BY DEF Account
<1> QED
  BY <1>1 DEF Settle, Account

(* The least member of a set of objectives is one.                         *)
LEMMA LeastMember ==
  ASSUME NEW S, S \subseteq Objective, S # {}
  PROVE  Min(S) \in S
<1>1. S \subseteq Nat
  BY Names
<1>2. PICK x \in S : \A y \in S : x <= y
  BY <1>1, LeastNatural
<1> QED
  BY <1>2, Zenon DEF Min

(* The operations of the journal, as far as a mission looks at its rows.   *)
LEMMA StateMembers ==
  States \union {"absent"} = {"absent", "queued", "running", "reconciling",
    "cancelled_by_stop", "interrupted_before_start", "succeeded", "succeeded_reconciled",
    "failed", "failed_reconciled", "cancelled", "cancelled_reconciled", "blocked_unknown"}
BY DEF States, Terminal, Settled, UnstartedEnds, RunEnds

LEMMA TransitionAged ==
  ASSUME JournalTypeOK, NEW c \in Id, NEW version, NEW target, Transition(c, version, target)
  PROVE  /\ Aged /\ JournalTypeOK'
         /\ target \in Successors(commands[c].state) /\ target \in States \ {"queued"}
         /\ commands'[c].state = target
         /\ commands'[c].cancelRequested = commands[c].cancelRequested
         /\ \A d \in Id \ {c} : commands'[d] = commands[d]
         /\ UNCHANGED <<tombstone, accepting, barrier, lastSequence, late>>
<1>1. /\ version = commands[c].version /\ target \in Successors(commands[c].state)
      /\ commands[c] \in Row /\ version \in Nat
      /\ UNCHANGED <<tombstone, accepting, barrier, lastSequence, late>>
  BY DEF Transition, Admits, JournalTypeOK, Row
<1>2. target \in States \ {"queued"} /\ target # "absent"
  BY <1>1, StateMembers DEF Successors, UnstartedEnds, RunEnds
<1> DEFINE started == commands[c].started \/ target = "running"
           row == [commands[c] EXCEPT !.state = target, !.version = version + 1,
                                      !.started = started]
<1>3. commands' = [commands EXCEPT ![c] = row]
  BY <1>1 DEF Transition, Row
<1>4. started \in BOOLEAN /\ version + 1 \in Nat /\ target \in States \union {"absent"}
  BY <1>1, <1>2
<1> HIDE DEF started
<1>5. row \in Row
  BY <1>1, <1>4 DEF Row
<1>6. row.state = target /\ row.cancelRequested = commands[c].cancelRequested
  BY <1>1 DEF Row
<1> HIDE DEF row
<1>7. /\ commands' \in [Id -> Row] /\ commands'[c] = row
      /\ \A d \in Id \ {c} : commands'[d] = commands[d]
  BY <1>3, <1>5 DEF JournalTypeOK
<1>8. JournalTypeOK'
  BY <1>1, <1>7 DEF JournalTypeOK
<1>9. /\ commands[c].state \notin Settled
      /\ commands[c].state \notin Unended => target \notin Unended
  BY <1>1 DEF Successors, Settled, Unended, UnstartedEnds, RunEnds
<1>10. Aged
  BY <1>2, <1>6, <1>7, <1>9 DEF Aged, Present
<1> QED BY <1>1, <1>2, <1>6, <1>7, <1>8, <1>10

LEMMA NothingAges ==
  ASSUME UNCHANGED commands
  PROVE  Aged
BY DEF Aged, Present

(* A step of one task that leaves the journal, or all rows, alone.         *)
LEMMA ShapeOfTask ==
  ASSUME Shape, NEW t \in Task, NEW x \in TaskRecord, Becomes(t, x),
         UNCHANGED journalVars, RepositoryTypeOK',
         advanced' \in SUBSET Child, UNCHANGED <<pending, usage, restarts>>,
         mishaps' \in SUBSET Mishaps, x.pc \notin {"runs", "terminates", "reconciles"},
         t \in Submitter => SubmitterFits(x),
         t \in Notifier => NotifierFits(t, x, commands)
  PROVE  Shape'
<1>1. UNCHANGED <<commands, accepting>> /\ JournalTypeOK' /\ Aged
  BY NothingAges DEF journalVars, Shape, TypeOK, JournalTypeOK
<1>2. /\ pending' \in Seq(Child) /\ usage' \in [Child -> Nat] /\ restarts' \in 0..MaxRestarts
      /\ \A i \in DOMAIN pending' : commands'[pending'[i]].state # "absent"
  BY <1>1 DEF Shape, TypeOK, Present
<1>3. /\ t \in Notifier => NotifierFits(t, x, commands')
      /\ At("worker", "runs") => commands'[task["worker"].child].state = "running"
      /\ task["gateway"].pc \in {"terminates", "reconciles"}
           => commands'[task["gateway"].child].state = "reconciling"
  BY <1>1 DEF Shape, Owned
<1> QED
  BY <1>1, <1>2, <1>3, ShapeMoves

(* What a task becomes.                                                    *)
LEMMA GoesRecord ==
  ASSUME NEW x \in TaskRecord, NEW p \in Pcs
  PROVE  /\ [x EXCEPT !.pc = p] \in TaskRecord
         /\ [x EXCEPT !.pc = p].pc = p /\ [x EXCEPT !.pc = p].child = x.child
         /\ [x EXCEPT !.pc = p].seen = x.seen /\ [x EXCEPT !.pc = p].next = x.next
         /\ [x EXCEPT !.pc = p].caller = x.caller /\ [x EXCEPT !.pc = p].snap = x.snap
         /\ [x EXCEPT !.pc = p].account = x.account
BY DEF TaskRecord

LEMMA FitsOn ==
  ASSUME NEW n, NEW rows, NEW x, NEW y, NotifierFits(n, x, rows), x.pc \notin Unlooked,
         y.pc \notin Unlooked \union {"fund", "plan"}, y.child = x.child, y.seen = x.seen,
         y.pc \in Reads => y.next \in Procedures, Called(y)
  PROVE  NotifierFits(n, y, rows)
BY DEF NotifierFits, Unlooked

LEMMA CalledOn ==
  ASSUME NEW x, NEW y, Called(x), x.pc \notin Unlooked \union {"checks"},
         y.caller = x.caller, y.seen = x.seen,
         ByRebalance(y) => ByRebalance(x), ByChild(y) => ByChild(x), Holding(y) => Holding(x)
  PROVE  Called(y)
BY DEF Called

LEMMA OnChildFits ==
  ASSUME NEW n, NEW rows, NEW x \in TaskRecord, NotifierFits(n, x, rows), x.pc \notin Unlooked
  PROVE  NotifierFits(n, OnChild(x), rows)
<1> DEFINE y == OnChild(x)
<1>1. /\ y.pc = "mission" /\ y.next = "child" /\ y.child = x.child /\ y.seen = x.seen
      /\ y.caller = "child"
  BY OnChildRecord
<1> HIDE DEF y
<1>2. y.pc \notin Unlooked \union {"fund", "plan"} /\ y.next \in Procedures
  BY <1>1 DEF Unlooked, Procedures
<1>3. ~ByRebalance(y) /\ ~Holding(y)
  BY <1>1 DEF ByRebalance, Holding, Rebalancing, Informed, Onward, Reads
<1>4. Called(y)
  BY <1>1, <1>3 DEF Called
<1>5. NotifierFits(n, y, rows)
  BY <1>1, <1>2, <1>4, FitsOn
<1> QED BY <1>5 DEF y

LEMMA ReturnsTo ==
  ASSUME Shape, NEW t \in Task, NEW status, Returns(t, status), ~At(t, "idle"),
         t \in Submitter => task[t].caller = "submit"
  PROVE  \E y \in TaskRecord :
           /\ Becomes(t, y) /\ advanced' \in SUBSET Child /\ UNCHANGED <<pending, usage, restarts>>
           /\ \/ y = Idle
              \/ /\ y = Reading(task[t], "adapt")
                 /\ task[t].caller = "child" /\ status = "waiting_evidence"
<1>1. task[t] \in TaskRecord /\ (t \in Notifier => task[t].child \in Child)
  BY DEF Shape, NotifierFits, At
<1>2. Reading(task[t], "adapt") \in TaskRecord /\ Idle \in TaskRecord
  BY <1>1, ReadingRecord, Records DEF Procedures
<1>3. advanced \in SUBSET Child
  BY DEF Shape, TypeOK
<1>4. task[t].caller \in {"child", "rebalance"} => task[t].child \in Child
  BY <1>1, Names
<1>5. advanced' \in SUBSET Child /\ UNCHANGED <<pending, usage, restarts>>
  BY <1>3, <1>4 DEF Returns
<1>6. CASE task[t].caller = "child" /\ status = "waiting_evidence" /\ Objective # First
  BY <1>2, <1>5, <1>6 DEF Returns
<1>7. CASE ~(task[t].caller = "child" /\ status = "waiting_evidence" /\ Objective # First)
  BY <1>2, <1>5, <1>7 DEF Returns
<1> QED BY <1>6, <1>7

LEMMA RaisesTo ==
  ASSUME Shape, NEW t \in Task, Raises(t)
  PROVE  \E y \in TaskRecord :
           /\ Becomes(t, y) /\ UNCHANGED <<advanced, pending, usage, restarts>>
           /\ \/ y = Idle
              \/ y = OnChild(task[t]) /\ task[t].caller = "rebalance"
<1>1. task[t] \in TaskRecord
  BY DEF Shape
<1>2. OnChild(task[t]) \in TaskRecord /\ Idle \in TaskRecord
  BY <1>1, OnChildRecord, Records
<1> QED BY <1>2 DEF Raises

(* How a notifier returns from a procedure, or out of it.                  *)
LEMMA AdaptFits ==
  ASSUME NEW n, NEW rows, NEW x \in TaskRecord, NotifierFits(n, x, rows),
         x.pc \notin Unlooked, x.caller = "child", x.seen = "succeeded",
         NEW p \in {"adapt", "verify", "explore", "advance"}
  PROVE  NotifierFits(n, Reading(x, p), rows)
<1> DEFINE y == Reading(x, p)
<1>1. /\ y.pc = "mission" /\ y.next = p /\ y.child = x.child /\ y.seen = x.seen
      /\ y.caller = x.caller /\ p \in Procedures
  BY ReadingRecord DEF Procedures
<1> HIDE DEF y
<1>2. y.pc \notin Unlooked \union {"fund", "plan"}
  BY <1>1 DEF Unlooked
<1>3. ~ByRebalance(y)
  BY <1>1 DEF ByRebalance, Rebalancing
<1>4. Called(y)
  BY <1>1, <1>3 DEF Called
<1>5. NotifierFits(n, y, rows)
  BY <1>1, <1>2, <1>4, FitsOn
<1> QED BY <1>5 DEF y

LEMMA NotifierMoves ==
  ASSUME Shape, NEW n \in Notifier, NEW y \in TaskRecord, Becomes(n, y),
         UNCHANGED journalVars, RepositoryTypeOK', Forgets,
         y.pc \notin {"runs", "terminates", "reconciles"}, NotifierFits(n, y, commands)
  PROVE  Shape'
<1>1. advanced' \in SUBSET Child /\ mishaps' \in SUBSET Mishaps
      /\ UNCHANGED <<pending, usage, restarts>>
  BY DEF Forgets, worldVars, Shape, TypeOK
<1>2. n \in Task /\ n \notin Submitter
  BY Names, CoordinatorAssumption
<1> QED BY <1>1, <1>2, ShapeOfTask

LEMMA NotifierBecomes ==
  ASSUME Shape, NEW n \in Notifier, NEW y \in TaskRecord, NEW p \in Pcs, Becomes(n, y),
         y.pc = p, y.child = task[n].child, y.seen = task[n].seen,
         y.caller = task[n].caller,
         UNCHANGED journalVars, RepositoryTypeOK', Forgets,
         task[n].pc \notin Unlooked \union {"checks"},
         p \notin Unlooked \union Reads \union {"fund", "plan"},
         p \in Rebalancing \union {"rebalance", "failObjective"} => ByRebalance(task[n]),
         p \in {"child", "settle", "endObjective", "endMission", "adapt", "explore",
                "verify", "fundProposal", "append"} => ByChild(task[n]),
         p \in Rebalancing \union Informed =>
           \/ Holding(task[n])
           \/ task[n].seen = IF task[n].caller = "rebalance" THEN "failed" ELSE "succeeded"
  PROVE  Shape'
<1> DEFINE x == task[n]
<1>1. NotifierFits(n, x, commands) /\ Called(x)
  BY Names DEF Shape, NotifierFits
<1> HIDE DEF x
<1>4. /\ ByRebalance(y) => ByRebalance(x)
      /\ ByChild(y) => ByChild(x)
      /\ Holding(y) => p \in Rebalancing \union Informed
  BY DEF ByRebalance, ByChild, Holding, x
<1>5. Called(y)
  BY <1>1, <1>4 DEF Called, x
<1>6. NotifierFits(n, y, commands) /\ y.pc \notin {"runs", "terminates", "reconciles"}
  BY <1>1, <1>5, FitsOn DEF x, Unlooked
<1> QED BY <1>6, NotifierMoves

LEMMA NotifierGoes ==
  ASSUME Shape, NEW n \in Notifier, NEW p \in Pcs, Goes(n, p),
         UNCHANGED journalVars, RepositoryTypeOK', Forgets,
         task[n].pc \notin Unlooked \union {"checks"},
         p \notin Unlooked \union Reads \union {"fund", "plan"},
         p \in Rebalancing \union {"rebalance", "failObjective"} => ByRebalance(task[n]),
         p \in {"child", "settle", "endObjective", "endMission", "adapt", "explore",
                "verify", "fundProposal", "append"} => ByChild(task[n]),
         p \in Rebalancing \union Informed =>
           \/ Holding(task[n])
           \/ task[n].seen = IF task[n].caller = "rebalance" THEN "failed" ELSE "succeeded"
  PROVE  Shape'
<1> DEFINE y == [task[n] EXCEPT !.pc = p]
<1>1. task[n] \in TaskRecord
  BY Names DEF Shape
<1>2. /\ y \in TaskRecord /\ y.pc = p /\ y.child = task[n].child /\ y.seen = task[n].seen
      /\ y.caller = task[n].caller
  BY <1>1, GoesRecord
<1>3. Becomes(n, y)
  BY DEF Goes
<1> HIDE DEF y
<1> QED BY <1>2, <1>3, NotifierBecomes

LEMMA NotifierIdles ==
  ASSUME Shape, NEW n \in Notifier, Becomes(n, Idle),
         UNCHANGED journalVars, RepositoryTypeOK', Forgets
  PROVE  Shape'
BY IdleFits, Records, NotifierMoves

LEMMA NotifierToChild ==
  ASSUME Shape, NEW n \in Notifier, Becomes(n, OnChild(task[n])), task[n].pc \notin Unlooked,
         UNCHANGED journalVars, RepositoryTypeOK', Forgets
  PROVE  Shape'
<1>1. task[n] \in TaskRecord /\ NotifierFits(n, task[n], commands)
  BY Names DEF Shape
<1>2. OnChild(task[n]) \in TaskRecord /\ OnChild(task[n]).pc \notin {"runs", "terminates", "reconciles"}
  BY <1>1, OnChildRecord
<1>3. NotifierFits(n, OnChild(task[n]), commands)
  BY <1>1, OnChildFits
<1> QED BY <1>2, <1>3, NotifierMoves

LEMMA NotifierReads ==
  ASSUME Shape, NEW n \in Notifier, NEW p \in {"adapt", "verify", "explore", "advance"},
         Becomes(n, Reading(task[n], p)), task[n].pc \notin Unlooked,
         task[n].caller = "child", task[n].seen = "succeeded",
         UNCHANGED journalVars, RepositoryTypeOK', Forgets
  PROVE  Shape'
<1>1. task[n] \in TaskRecord /\ NotifierFits(n, task[n], commands) /\ p \in Procedures
  BY Names DEF Shape, Procedures
<1>2. Reading(task[n], p) \in TaskRecord /\ Reading(task[n], p).pc \notin {"runs", "terminates", "reconciles"}
  BY <1>1, ReadingRecord
<1>3. NotifierFits(n, Reading(task[n], p), commands)
  BY <1>1, AdaptFits
<1> QED BY <1>2, <1>3, NotifierMoves

(* The rows that only tasks change.                                        *)
LEMMA RowsTyped ==
  ASSUME Shape, UNCHANGED repositoryVars
  PROVE  RepositoryTypeOK'
BY DEF Shape, TypeOK, repositoryVars, RepositoryTypeOK

LEMMA TaskOnly ==
  ASSUME Shape, OnlyTask
  PROVE  UNCHANGED journalVars /\ RepositoryTypeOK' /\ Forgets
BY RowsTyped DEF OnlyTask, repositoryVars

LEMMA MissionMoved ==
  ASSUME Shape, NEW t \in Task, NEW target, NEW status, ~At(t, "idle"),
         MissionMoves(t, target, Returns(t, status)),
         t \in Submitter => task[t].caller = "submit"
  PROVE  /\ RepositoryTypeOK'
         /\ UNCHANGED <<objectives, linked, retryRecords, proposals, account>>
         /\ \E y \in TaskRecord :
              /\ Becomes(t, y)
              /\ advanced' \in SUBSET Child /\ UNCHANGED <<pending, usage, restarts>>
              /\ \/ /\ mission'.status = target /\ target \in MissionSuccessors(mission.status)
                    /\ \/ y = Idle
                       \/ /\ y = Reading(task[t], "adapt")
                          /\ task[t].caller = "child" /\ status = "waiting_evidence"
                 \/ /\ mission' = mission
                    /\ \/ y = Idle
                       \/ y = OnChild(task[t]) /\ task[t].caller = "rebalance"
<1> DEFINE version == task[t].snap.mission.version
<1>1. CASE MissionAdmits(version, target)
  <2>1. TransitionMission(version, target) /\ Returns(t, status)
    BY <1>1 DEF MissionMoves
  <2>2. RepositoryTypeOK
    BY DEF Shape, TypeOK
  <2> QED BY <2>1, <2>2, MissionTyped, ReturnsTo
<1>2. CASE ~MissionAdmits(version, target)
  <2>1. UNCHANGED repositoryVars /\ Raises(t)
    BY <1>2 DEF MissionMoves
  <2>2. advanced \in SUBSET Child
    BY DEF Shape, TypeOK
  <2> QED BY <2>1, <2>2, RowsTyped, RaisesTo DEF repositoryVars
<1> QED BY <1>1, <1>2

(* The four reads of a snapshot.                                           *)
LEMMA ReadsRecord ==
  ASSUME Shape, NEW t \in Task, Snapshots(t)
  PROVE  \E y \in TaskRecord :
           /\ Becomes(t, y) /\ OnlyTask
           /\ y.child = task[t].child /\ y.seen = task[t].seen /\ y.next = task[t].next
           /\ y.caller = task[t].caller /\ y.account = task[t].account
           /\ task[t].pc \in Reads
           /\ \/ /\ At(t, "mission") /\ y.pc = "transitions" /\ y.snap.mission = mission
                 /\ y.snap.account = task[t].snap.account
              \/ /\ At(t, "transitions") /\ y.pc = "account" /\ y.snap.linked = linked
                 /\ y.snap.account = task[t].snap.account
                 /\ y.snap.objectives = task[t].snap.objectives
                 /\ y.snap.mission = task[t].snap.mission
              \/ /\ At(t, "account") /\ y.pc = "objectives" /\ y.snap.account = account
                 /\ y.snap.linked = task[t].snap.linked
                 /\ y.snap.objectives = task[t].snap.objectives
                 /\ y.snap.mission = task[t].snap.mission /\ y.snap.proposals = proposals
              \/ /\ At(t, "objectives") /\ y.pc = y.next /\ y.snap.objectives = objectives
                 /\ y.snap.linked = task[t].snap.linked
                 /\ y.snap.account = task[t].snap.account
                 /\ y.snap.mission = task[t].snap.mission
                 /\ y.snap.proposals = task[t].snap.proposals
<1>1. task[t] \in TaskRecord /\ RepositoryTypeOK
  BY DEF Shape, TypeOK
<1>2. CASE ReadMission(t)
  <2> DEFINE y == [task[t] EXCEPT !.pc = "transitions", !.snap.mission = mission]
  <2>1. y \in TaskRecord /\ y.pc = "transitions"
    BY <1>1 DEF TaskRecord, SnapRecord, RepositoryTypeOK, Pcs, Reads
  <2>2. /\ y.child = task[t].child /\ y.seen = task[t].seen /\ y.next = task[t].next
        /\ y.caller = task[t].caller /\ y.account = task[t].account /\ y.snap.mission = mission
        /\ y.snap.account = task[t].snap.account
    BY <1>1 DEF TaskRecord, SnapRecord
  <2>3. Becomes(t, y) /\ OnlyTask /\ At(t, "mission") /\ task[t].pc \in Reads
    BY <1>2 DEF ReadMission, At, Reads
  <2> HIDE DEF y
  <2> QED BY <2>1, <2>2, <2>3
<1>3. CASE ReadTransitions(t)
  <2> DEFINE y == [task[t] EXCEPT !.pc = "account", !.snap.linked = linked,
                                  !.snap.retryRecords = retryRecords]
  <2>1. y \in TaskRecord /\ y.pc = "account"
    BY <1>1 DEF TaskRecord, SnapRecord, RepositoryTypeOK, Pcs, Reads
  <2>2. /\ y.child = task[t].child /\ y.seen = task[t].seen /\ y.next = task[t].next
        /\ y.caller = task[t].caller /\ y.account = task[t].account /\ y.snap.linked = linked
        /\ y.snap.account = task[t].snap.account /\ y.snap.objectives = task[t].snap.objectives
        /\ y.snap.mission = task[t].snap.mission
    BY <1>1 DEF TaskRecord, SnapRecord
  <2>3. Becomes(t, y) /\ OnlyTask /\ At(t, "transitions") /\ task[t].pc \in Reads
    BY <1>3 DEF ReadTransitions, At, Reads
  <2> HIDE DEF y
  <2> QED BY <2>1, <2>2, <2>3
<1>4. CASE ReadAccount(t)
  <2> DEFINE y == [task[t] EXCEPT !.pc = "objectives", !.snap.proposals = proposals,
                                  !.snap.account = account]
  <2>1. y \in TaskRecord /\ y.pc = "objectives"
    BY <1>1 DEF TaskRecord, SnapRecord, RepositoryTypeOK, Pcs, Reads
  <2>2. /\ y.child = task[t].child /\ y.seen = task[t].seen /\ y.next = task[t].next
        /\ y.caller = task[t].caller /\ y.account = task[t].account
        /\ y.snap.account = account /\ y.snap.objectives = task[t].snap.objectives
        /\ y.snap.linked = task[t].snap.linked
        /\ y.snap.mission = task[t].snap.mission /\ y.snap.proposals = proposals
    BY <1>1 DEF TaskRecord, SnapRecord
  <2>3. Becomes(t, y) /\ OnlyTask /\ At(t, "account") /\ task[t].pc \in Reads
    BY <1>4 DEF ReadAccount, At, Reads
  <2> HIDE DEF y
  <2> QED BY <2>1, <2>2, <2>3
<1>5. CASE ReadObjectives(t)
  <2> DEFINE y == [task[t] EXCEPT !.pc = task[t].next, !.snap.objectives = objectives]
  <2>0. task[t].next \in Pcs
    BY <1>1 DEF TaskRecord, Pcs
  <2>1. y \in TaskRecord /\ y.pc = task[t].next
    BY <1>1, <2>0 DEF TaskRecord, SnapRecord, RepositoryTypeOK
  <2>2. /\ y.child = task[t].child /\ y.seen = task[t].seen /\ y.next = task[t].next
        /\ y.caller = task[t].caller /\ y.account = task[t].account
        /\ y.snap.account = task[t].snap.account /\ y.snap.objectives = objectives
        /\ y.snap.linked = task[t].snap.linked /\ y.snap.mission = task[t].snap.mission
        /\ y.snap.proposals = task[t].snap.proposals
    BY <1>1 DEF TaskRecord, SnapRecord
  <2>3. Becomes(t, y) /\ OnlyTask /\ At(t, "objectives") /\ task[t].pc \in Reads
    BY <1>5 DEF ReadObjectives, At, Reads
  <2> HIDE DEF y
  <2> QED BY <2>1, <2>2, <2>3
<1> QED BY <1>2, <1>3, <1>4, <1>5 DEF Snapshots

LEMMA SnapshotsShape ==
  ASSUME Shape, NEW t \in Task, Snapshots(t)
  PROVE  Shape'
<1> DEFINE x == task[t]
<1>1. PICK y \in TaskRecord :
        /\ Becomes(t, y) /\ OnlyTask
        /\ y.child = x.child /\ y.seen = x.seen /\ y.next = x.next /\ y.caller = x.caller
        /\ x.pc \in Reads
        /\ y.pc \in Reads \/ y.pc = x.next
  BY ReadsRecord DEF Reads
<1>2. UNCHANGED journalVars /\ RepositoryTypeOK' /\ Forgets
  BY <1>1, TaskOnly
<1> HIDE DEF x
<1>3. CASE t \in Submitter
  <2>1. SubmitterFits(x)
    BY <1>3 DEF Shape, x
  <2>2. SubmitterFits(y) /\ y.pc \notin {"runs", "terminates", "reconciles"}
    BY <1>1, <2>1 DEF SubmitterFits, Reads
  <2>3. t \notin Notifier /\ advanced' \in SUBSET Child /\ mishaps' \in SUBSET Mishaps
        /\ UNCHANGED <<pending, usage, restarts>>
    BY <1>2, <1>3, CoordinatorAssumption DEF Forgets, worldVars, Shape, TypeOK
  <2> QED BY <1>1, <1>2, <2>2, <2>3, ShapeOfTask
<1>4. CASE t \in Notifier
  <2>1. NotifierFits(t, x, commands) /\ Called(x) /\ x.next \in Procedures
    BY <1>1, <1>4 DEF Shape, x, NotifierFits
  <2>2. x.pc \notin Unlooked \union {"checks"}
    BY <1>1 DEF Unlooked, Reads
  <2>3. y.pc \in Reads \union Procedures
    BY <1>1, <2>1
  <2>4. y.pc \notin Unlooked \union {"fund", "plan", "runs", "terminates", "reconciles"}
    BY <2>3 DEF Unlooked, Reads, Procedures
  <2>5. /\ ByRebalance(y) => ByRebalance(x)
        /\ ByChild(y) => ByChild(x)
        /\ Holding(y) => Holding(x)
    BY <1>1, <2>1, <2>3 DEF ByRebalance, ByChild, Holding, Reads, Procedures, Rebalancing,
       Informed, Onward
  <2>6. Called(y)
    BY <1>1, <2>1, <2>2, <2>5, CalledOn
  <2>7. NotifierFits(t, y, commands)
    BY <1>1, <2>1, <2>2, <2>4, <2>6, FitsOn
  <2> QED BY <1>1, <1>2, <1>4, <2>4, <2>7, NotifierMoves
<1> QED BY <1>3, <1>4, Names

(* _advance.                                                               *)
LEMMA LeavesFit ==
  ASSUME Shape, NEW t \in Task, task[t].pc \notin Unlooked,
         t \in Submitter => task[t].caller = "submit", NEW y \in TaskRecord,
         \/ y = Idle
         \/ y = Reading(task[t], "adapt") /\ task[t].caller = "child" /\ Holds(t)
         \/ y = OnChild(task[t]) /\ task[t].caller = "rebalance"
  PROVE  /\ t \in Submitter => SubmitterFits(y)
         /\ t \in Notifier => NotifierFits(t, y, commands)
         /\ y.pc \notin {"runs", "terminates", "reconciles"}
<1>1. task[t] \in TaskRecord
  BY DEF Shape
<1>2. t \in Notifier => NotifierFits(t, task[t], commands) /\ Called(task[t])
  BY DEF Shape, NotifierFits
<1>3. CASE y = Idle
  BY <1>3, Records, IdleFits
<1>4. CASE y = Reading(task[t], "adapt") /\ task[t].caller = "child" /\ Holds(t)
  <2>1. t \in Notifier /\ y.pc = "mission"
    BY <1>1, <1>4, Names, ReadingRecord DEF Procedures
  <2>2. task[t].seen = "succeeded"
    BY <1>2, <1>4, <2>1 DEF Called, Holds
  <2>3. NotifierFits(t, y, commands)
    BY <1>1, <1>2, <1>4, <2>1, <2>2, AdaptFits
  <2> QED BY <2>1, <2>3, CoordinatorAssumption
<1>5. CASE y = OnChild(task[t]) /\ task[t].caller = "rebalance"
  <2>1. t \in Notifier /\ y.pc = "mission"
    BY <1>1, <1>5, Names, OnChildRecord
  <2>2. NotifierFits(t, y, commands)
    BY <1>1, <1>2, <1>5, <2>1, OnChildFits
  <2> QED BY <2>1, <2>2, CoordinatorAssumption
<1> QED BY <1>3, <1>4, <1>5

LEMMA SubmitCalled ==
  ASSUME Shape, NEW t \in Task, task[t].pc \in {"advance", "activate", "run"}
  PROVE  /\ t \in Submitter => task[t].caller = "submit"
         /\ ~At(t, "idle") /\ task[t].pc \notin Unlooked
         /\ task[t] \in TaskRecord
BY DEF Shape, SubmitterFits, At, Unlooked

LEMMA AdvanceGoes ==
  ASSUME Shape, NEW t \in Task, NEW p \in {"activate", "run"}, Goes(t, p),
         task[t].pc \in {"advance", "activate"}
  PROVE  \E y \in TaskRecord :
           /\ Becomes(t, y) /\ y = [task[t] EXCEPT !.pc = p] /\ y.pc = p
           /\ y.child = task[t].child /\ y.seen = task[t].seen /\ y.next = task[t].next
           /\ y.caller = task[t].caller /\ y.snap = task[t].snap
           /\ y.account = task[t].account
           /\ t \in Submitter => SubmitterFits(y)
           /\ t \in Notifier => NotifierFits(t, y, commands)
<1> DEFINE x == task[t]
           y == [x EXCEPT !.pc = p]
<1>1. x \in TaskRecord /\ p \in Pcs
  BY DEF Shape, Pcs
<1>2. /\ y \in TaskRecord /\ y.pc = p /\ y.child = x.child /\ y.seen = x.seen
      /\ y.next = x.next /\ y.caller = x.caller /\ y.snap = x.snap /\ y.account = x.account
  BY <1>1, GoesRecord
<1>3. Becomes(t, y)
  BY DEF Goes
<1>4. y = [task[t] EXCEPT !.pc = p]
  OBVIOUS
<1> HIDE DEF x, y
<1>5. ASSUME t \in Submitter PROVE SubmitterFits(y)
  <2>1. SubmitterFits(x)
    BY <1>5 DEF Shape, x
  <2> QED BY <1>2, <2>1 DEF SubmitterFits, Reads, x
<1>6. ASSUME t \in Notifier PROVE NotifierFits(t, y, commands)
  <2>1. NotifierFits(t, x, commands) /\ Called(x)
    BY <1>6 DEF Shape, x, NotifierFits
  <2>2. /\ ~ByRebalance(y) /\ ~ByChild(y)
        /\ Holding(x) /\ x.pc \notin Unlooked \union {"checks"}
        /\ y.pc \notin Unlooked \union {"fund", "plan"} \union Reads
    BY <1>2 DEF ByRebalance, ByChild, Holding, Informed, Onward, Rebalancing, Unlooked, Reads, x
  <2>3. Called(y)
    BY <1>2, <2>1, <2>2, CalledOn
  <2> QED BY <1>2, <2>1, <2>2, <2>3, FitsOn
<1> QED BY <1>2, <1>3, <1>4, <1>5, <1>6 DEF x

LEMMA CreatesNothingShape ==
  ASSUME Shape, NEW t \in Task, AdvanceCreatesNothing(t)
  PROVE  Shape'
<1>1. /\ At(t, "advance") /\ UNCHANGED <<journalVars, mishaps>> /\ Holds(t)
      /\ task[t].pc \in {"advance", "activate", "run"}
  BY DEF AdvanceCreatesNothing, Holds, Holding, Informed, Onward, At
<1>2. /\ t \in Submitter => task[t].caller = "submit"
      /\ ~At(t, "idle") /\ task[t].pc \notin Unlooked
  BY <1>1, SubmitCalled
<1>3. PICK y \in TaskRecord :
        /\ Becomes(t, y) /\ advanced' \in SUBSET Child /\ UNCHANGED <<pending, usage, restarts>>
        /\ RepositoryTypeOK'
        /\ \/ y = Idle
           \/ y = Reading(task[t], "adapt") /\ task[t].caller = "child" /\ Holds(t)
           \/ y = OnChild(task[t]) /\ task[t].caller = "rebalance"
  <2>1. CASE Finishes(task[t].snap)
    <3>1. MissionMoves(t, CompletionTarget, Returns(t, CompletionTarget))
      BY <2>1 DEF AdvanceCreatesNothing
    <3> QED BY <1>1, <1>2, <3>1, MissionMoved
  <2>2. CASE ~Finishes(task[t].snap)
    <3>1. UNCHANGED repositoryVars /\ Returns(t, task[t].snap.mission.status)
      BY <2>2 DEF AdvanceCreatesNothing
    <3> QED BY <1>1, <1>2, <3>1, ReturnsTo, RowsTyped
  <2> QED BY <2>1, <2>2
<1>4. /\ t \in Submitter => SubmitterFits(y)
      /\ t \in Notifier => NotifierFits(t, y, commands)
      /\ y.pc \notin {"runs", "terminates", "reconciles"}
  BY <1>2, <1>3, LeavesFit
<1>5. mishaps' \in SUBSET Mishaps /\ UNCHANGED journalVars
  BY <1>1 DEF Shape, TypeOK
<1> QED BY <1>3, <1>4, <1>5, ShapeOfTask

LEMMA RefusedShape ==
  ASSUME Shape, NEW t \in Task, AdvanceRefused(t)
  PROVE  Shape'
<1>1. /\ task[t].pc \in {"advance", "activate", "run"}
      /\ UNCHANGED <<journalVars, repositoryVars>> /\ Raises(t)
      /\ mishaps' = mishaps \union {"refused"}
  BY DEF AdvanceRefused, AdvanceReady, At
<1>2. /\ t \in Submitter => task[t].caller = "submit"
      /\ ~At(t, "idle") /\ task[t].pc \notin Unlooked
  BY <1>1, SubmitCalled
<1>3. PICK y \in TaskRecord :
        /\ Becomes(t, y) /\ UNCHANGED <<advanced, pending, usage, restarts>>
        /\ \/ y = Idle
           \/ y = OnChild(task[t]) /\ task[t].caller = "rebalance"
  BY <1>1, RaisesTo
<1>4. /\ t \in Submitter => SubmitterFits(y)
      /\ t \in Notifier => NotifierFits(t, y, commands)
      /\ y.pc \notin {"runs", "terminates", "reconciles"}
  BY <1>2, <1>3, LeavesFit
<1>5. /\ mishaps' \in SUBSET Mishaps /\ advanced' \in SUBSET Child
      /\ UNCHANGED journalVars /\ RepositoryTypeOK'
  BY <1>1, <1>3, RowsTyped DEF Shape, TypeOK, Mishaps
<1> QED BY <1>3, <1>4, <1>5, ShapeOfTask

LEMMA RunsShape ==
  ASSUME Shape, NEW t \in Task, AdvanceRuns(t)
  PROVE  Shape'
<1>1. /\ task[t].pc \in {"advance", "activate", "run"}
      /\ UNCHANGED <<journalVars, mishaps>>
      /\ MissionMoves(t, "running", Returns(t, "running"))
  BY DEF AdvanceRuns, At
<1>2. /\ t \in Submitter => task[t].caller = "submit"
      /\ ~At(t, "idle") /\ task[t].pc \notin Unlooked
  BY <1>1, SubmitCalled
<1>3. PICK y \in TaskRecord :
        /\ Becomes(t, y) /\ advanced' \in SUBSET Child /\ UNCHANGED <<pending, usage, restarts>>
        /\ RepositoryTypeOK'
        /\ \/ y = Idle
           \/ y = OnChild(task[t]) /\ task[t].caller = "rebalance"
  BY <1>1, <1>2, MissionMoved
<1>4. /\ t \in Submitter => SubmitterFits(y)
      /\ t \in Notifier => NotifierFits(t, y, commands)
      /\ y.pc \notin {"runs", "terminates", "reconciles"}
  BY <1>2, <1>3, LeavesFit
<1>5. mishaps' \in SUBSET Mishaps /\ UNCHANGED journalVars
  BY <1>1 DEF Shape, TypeOK
<1> QED BY <1>3, <1>4, <1>5, ShapeOfTask

LEMMA ChosenIsReady ==
  ASSUME NEW snap \in SnapRecord, Ready(snap) # {}
  PROVE  /\ Chosen(snap) \in Ready(snap) /\ Chosen(snap) \in Objective
         /\ snap.objectives[Chosen(snap)].status = "pending"
         /\ snap.objectives[Chosen(snap)].version \in Nat
         /\ ChosenChild(snap)[1] = Chosen(snap)
         /\ ChosenChild(snap)[2] = snap.objectives[Chosen(snap)].version + 1
<1>1. Ready(snap) \subseteq Objective
  BY DEF Ready
<1>2. Chosen(snap) \in Ready(snap)
  BY <1>1, LeastMember DEF Chosen
<1>3. snap.objectives \in [Objective -> [status : ObjectiveStatuses, version : Nat, budget : Nat]]
  BY DEF SnapRecord
<1> QED
  BY <1>1, <1>2, <1>3 DEF Ready, ChosenChild

(* The objective that is chosen is still pending when it is activated.     *)
LEMMA Activation ==
  ASSUME Shape, NEW t \in Task, Knows(t), AdvanceActivates(t)
  PROVE  LET o == Chosen(task[t].snap)
             version == objectives[o].version
         IN /\ o \in Objective /\ o \in PendingNow /\ version \in Nat
            /\ ChosenChild(task[t].snap) = <<o, version + 1>>
            /\ ChosenChild(task[t].snap) \in Child /\ Present(ChosenChild(task[t].snap))
            /\ TransitionObjective(o, version, "active", version + 1)
            /\ UNCHANGED <<journalVars, mishaps, pending, usage, restarts>>
            /\ advanced' \in SUBSET Child
            /\ \E y \in TaskRecord :
                 /\ Becomes(t, y)
                 /\ \/ y = Idle
                    \/ /\ y.pc = "run" /\ y.child = task[t].child
                       /\ y.snap = task[t].snap /\ y.account = task[t].account
                 /\ t \in Submitter => SubmitterFits(y)
                 /\ t \in Notifier => NotifierFits(t, y, commands)
<1> DEFINE snap == task[t].snap
           o == Chosen(snap)
           version == snap.objectives[o].version
<1>1. /\ At(t, "activate") /\ task[t].pc \in {"advance", "activate", "run"}
      /\ UNCHANGED <<journalVars, mishaps>>
  BY DEF AdvanceActivates, At
<1>2. /\ task[t] \in TaskRecord /\ snap \in SnapRecord /\ ~At(t, "idle")
      /\ t \in Submitter => task[t].caller = "submit"
      /\ task[t].pc \notin Unlooked
  BY <1>1, SubmitCalled DEF TaskRecord
<1>3. /\ snap.objectives = objectives /\ Ready(snap) # {}
      /\ ChosenChild(snap) \in Child /\ Present(ChosenChild(snap))
  BY <1>1 DEF Knows, Informed, At
<1>4. /\ o \in Objective /\ objectives[o].status = "pending" /\ objectives[o].version \in Nat
      /\ version = objectives[o].version
  BY <1>2, <1>3, ChosenIsReady
<1>5. ObjectiveAdmits(o, version, "active")
  BY <1>4 DEF ObjectiveAdmits, ObjectiveSuccessors
<1>6. /\ TransitionObjective(o, version, "active", version + 1)
      /\ \/ Goes(t, "run") /\ UNCHANGED <<advanced, pending, usage, restarts>>
         \/ /\ Returns(t, snap.mission.status)
            /\ snap.mission.status \notin {"planning", "waiting_evidence"}
  BY <1>5 DEF AdvanceActivates
<1> HIDE DEF version, o, snap
<1>7. CASE Goes(t, "run") /\ UNCHANGED <<advanced, pending, usage, restarts>>
  <2>1. advanced' \in SUBSET Child
    BY <1>7 DEF Shape, TypeOK
  <2>2. PICK y \in TaskRecord : /\ Becomes(t, y) /\ y.pc = "run" /\ y.child = task[t].child
                                /\ y.snap = task[t].snap /\ y.account = task[t].account
                                /\ t \in Submitter => SubmitterFits(y)
                                /\ t \in Notifier => NotifierFits(t, y, commands)
    BY <1>1, <1>7, AdvanceGoes DEF At
  <2>3. ChosenChild(snap) = <<o, version + 1>>
    BY <1>4 DEF ChosenChild, o, version
  <2> QED BY <1>1, <1>3, <1>4, <1>6, <1>7, <2>1, <2>2, <2>3 DEF o, snap, PendingNow
<1>8. CASE /\ Returns(t, snap.mission.status)
           /\ snap.mission.status \notin {"planning", "waiting_evidence"}
  <2>1. PICK y \in TaskRecord : /\ Becomes(t, y) /\ y = Idle /\ advanced' \in SUBSET Child
                                /\ UNCHANGED <<pending, usage, restarts>>
    BY <1>2, <1>8, ReturnsTo
  <2>2. SubmitterFits(y) /\ NotifierFits(t, y, commands)
    BY <2>1, Records, IdleFits
  <2>3. ChosenChild(snap) = <<o, version + 1>>
    BY <1>4 DEF ChosenChild, o, version
  <2> QED BY <1>1, <1>3, <1>4, <1>6, <2>1, <2>2, <2>3 DEF o, snap, PendingNow
<1> QED BY <1>6, <1>7, <1>8

LEMMA ActivatesShape ==
  ASSUME Shape, NEW t \in Task, Knows(t), AdvanceActivates(t)
  PROVE  Shape'
<1> DEFINE o == Chosen(task[t].snap)
           version == objectives[o].version
<1>1. /\ o \in Objective /\ version \in Nat
      /\ TransitionObjective(o, version, "active", version + 1)
      /\ UNCHANGED <<journalVars, mishaps, pending, usage, restarts>>
      /\ advanced' \in SUBSET Child
  BY Activation
<1>2. PICK y \in TaskRecord : /\ Becomes(t, y)
                              /\ y = Idle \/ (y.pc = "run" /\ y.child = task[t].child)
                              /\ t \in Submitter => SubmitterFits(y)
                              /\ t \in Notifier => NotifierFits(t, y, commands)
  BY Activation
<1> HIDE DEF o, version
<1>3. RepositoryTypeOK /\ version + 1 \in Nat /\ mishaps' \in SUBSET Mishaps
  BY <1>1 DEF Shape, TypeOK
<1>4. RepositoryTypeOK'
  BY <1>1, <1>3, ObjectiveTyped
<1>5. y.pc \notin {"runs", "terminates", "reconciles"}
  BY <1>2, Records
<1> QED BY <1>1, <1>2, <1>3, <1>4, <1>5, ShapeOfTask

LEMMA CreationAged ==
  ASSUME JournalTypeOK, NEW c, CreateCommand(c)
  PROVE  /\ c \in Execute /\ accepting /\ ~Present(c) /\ JournalTypeOK' /\ Aged
         /\ commands'[c].state = "queued"
         /\ \A d \in Id \ {c} : commands'[d] = commands[d]
         /\ UNCHANGED accepting
<1>1. /\ c \in Execute /\ c \in Id /\ accepting /\ ~Present(c)
      /\ commands' = [commands EXCEPT ![c] = NewRow] /\ UNCHANGED accepting
  BY DEF CreateCommand, ClaimRequest, Execute
<1>2. NewRow \in Row /\ Draft[c].request \in Request
  <2>1. NewRow \in Row
    BY StateMembers DEF NewRow, Row, JournalTypeOK
  <2> QED BY <1>1, <2>1, DraftAssumption
<1>3. JournalTypeOK'
  BY <1>1, <1>2 DEF CreateCommand, ClaimRequest, JournalTypeOK
<1>4. commands'[c].state = "queued" /\ \A d \in Id \ {c} : commands'[d] = commands[d]
  BY <1>1 DEF JournalTypeOK, NewRow
<1>5. Aged
  BY <1>1, <1>4, StateMembers DEF Aged, Present, Unended, Settled, UnstartedEnds, RunEnds
<1> QED BY <1>1, <1>3, <1>4, <1>5

LEMMA CreatesShape ==
  ASSUME Shape, NEW t \in Task, AdvanceCreates(t)
  PROVE  Shape'
<1> DEFINE c == ChosenChild(task[t].snap)
<1>1. /\ Goes(t, "activate") /\ UNCHANGED repositoryVars /\ Forgets /\ At(t, "advance")
      /\ IF Present(c) THEN UNCHANGED journalVars ELSE CreateCommand(c)
  BY DEF AdvanceCreates, AdvanceReady
<1>2. PICK y \in TaskRecord : /\ Becomes(t, y) /\ y.pc = "activate"
                              /\ t \in Submitter => SubmitterFits(y)
                              /\ t \in Notifier => NotifierFits(t, y, commands)
  BY <1>1, AdvanceGoes DEF At
<1>3. RepositoryTypeOK'
  BY <1>1, RowsTyped
<1>4. /\ advanced' \in SUBSET Child /\ UNCHANGED <<pending, usage, restarts>>
      /\ mishaps' \in SUBSET Mishaps
  BY <1>1 DEF Forgets, worldVars, Shape, TypeOK
<1> HIDE DEF c
<1>5. CASE Present(c)
  BY <1>1, <1>2, <1>3, <1>4, <1>5, ShapeOfTask
<1>6. CASE ~Present(c)
  <2>1. /\ CreateCommand(c) /\ JournalTypeOK' /\ Aged /\ c \in Id /\ ~Present(c)
        /\ \A d \in Id \ {c} : commands'[d] = commands[d]
    BY <1>1, <1>6, CreationAged DEF Shape, TypeOK, Execute
  <2>2. /\ pending' \in Seq(Child) /\ usage' \in [Child -> Nat] /\ restarts' \in 0..MaxRestarts
    BY <1>4 DEF Shape, TypeOK
  <2>3. \A i \in DOMAIN pending' : commands'[pending'[i]].state # "absent"
    <3>1. \A i \in DOMAIN pending : pending[i] \in Id /\ Present(pending[i])
      BY Names DEF Shape, TypeOK
    <3> QED BY <1>4, <2>1, <3>1 DEF Aged
  <2>4. t \in Notifier => NotifierFits(t, y, commands')
    BY <1>2, <2>1, FitsStay
  <2>5. At("worker", "runs") => commands'[task["worker"].child].state = "running"
    <3>1. ASSUME At("worker", "runs") PROVE task["worker"].child \in Id \ {c}
      BY <2>1, <3>1, Names DEF Shape, NotifierFits, At, Notifier, Present
    <3> QED BY <2>1, <3>1 DEF Shape, Owned
  <2>6. task["gateway"].pc \in {"terminates", "reconciles"}
          => commands'[task["gateway"].child].state = "reconciling"
    <3>1. ASSUME task["gateway"].pc \in {"terminates", "reconciles"}
          PROVE  task["gateway"].child \in Id \ {c}
      BY <2>1, <3>1, Names DEF Shape, NotifierFits, Notifier, Present
    <3> QED BY <2>1, <3>1 DEF Shape, Owned
  <2> QED BY <1>2, <1>3, <1>4, <2>1, <2>2, <2>3, <2>4, <2>5, <2>6, ShapeMoves
<1> QED BY <1>5, <1>6

(* The other steps of a notifier, which leave the journal alone.           *)
LEMMA NotifiesShape ==
  ASSUME Shape, NEW n \in Notifier,
         NotifyLooks(n) \/ NotifySkips(n) \/ NotifyRebalances(n) \/ NotifyTransitions(n)
  PROVE  Shape'
<1> DEFINE x == task[n]
<1>1. x \in TaskRecord /\ NotifierFits(n, x, commands) /\ Called(x)
  BY Names DEF Shape, NotifierFits
<1>2. OnlyTask
  BY DEF NotifyLooks, NotifySkips, NotifyRebalances, NotifyTransitions
<1>3. UNCHANGED journalVars /\ RepositoryTypeOK' /\ Forgets
  BY <1>2, TaskOnly
<1>4. CASE NotifyLooks(n)
  <2> DEFINE c == x.child
             state == commands[c].state
             y == [x EXCEPT !.pc = "checks", !.seen = state]
  <2>1. /\ At(n, "looks") /\ Becomes(n, IF state \in Terminal THEN y ELSE Idle)
    BY <1>4 DEF NotifyLooks
  <2>2. CASE state \notin Terminal
    BY <1>3, <2>1, <2>2, NotifierIdles
  <2>3. CASE state \in Terminal
    <3>1. /\ c \in Child /\ Present(c) /\ x.pc = "looks"
      BY <1>1, <2>1 DEF NotifierFits, At, Present
    <3>2. /\ y \in TaskRecord /\ y.pc = "checks" /\ y.seen = state /\ y.child = c
          /\ y.caller = x.caller
      BY <1>1, <2>3 DEF TaskRecord, Pcs, States
    <3> HIDE DEF y
    <3>3. y.pc \notin {"fund", "plan", "runs", "waits", "reconciles", "terminates"} \union Reads
      BY <3>2 DEF Reads
    <3>4. state \notin Unended
      BY <2>3, StateMembers DEF Unended, Terminal, Settled, UnstartedEnds, RunEnds
    <3>5. ~ByRebalance(y) /\ ~ByChild(y) /\ ~Holding(y)
      BY <3>2 DEF ByRebalance, ByChild, Holding, Rebalancing, Informed, Onward, Reads
    <3>6. Called(y)
      BY <3>2, <3>5 DEF Called
    <3>7. NotifierFits(n, y, commands)
      BY <2>3, <3>1, <3>2, <3>3, <3>4, <3>6 DEF NotifierFits, Present
    <3>8. Becomes(n, y)
      BY <2>1, <2>3
    <3> QED BY <1>3, <3>2, <3>3, <3>7, <3>8, NotifierMoves
  <2> QED BY <2>2, <2>3
<1>5. CASE NotifySkips(n)
  BY <1>3, <1>5, NotifierIdles DEF NotifySkips
<1>6. CASE NotifyRebalances(n)
  <2> DEFINE z == [x EXCEPT !.caller = "rebalance"]
             y == Reading(z, "rebalance")
  <2>1. x.pc = "checks" /\ x.seen = "failed" /\ Becomes(n, y)
    BY <1>6 DEF NotifyRebalances, At
  <2>2. z \in TaskRecord /\ z.child = x.child /\ z.seen = x.seen /\ z.caller = "rebalance"
    BY <1>1 DEF TaskRecord
  <2> HIDE DEF z
  <2>3. /\ y \in TaskRecord /\ y.pc = "mission" /\ y.next = "rebalance"
        /\ y.child = x.child /\ y.seen = x.seen /\ y.caller = "rebalance"
    BY <2>2, ReadingRecord DEF Procedures
  <2> HIDE DEF y, x
  <2>4. y.pc \notin Unlooked \union {"fund", "plan", "runs", "terminates", "reconciles"} /\ y.next \in Procedures
    BY <2>3 DEF Unlooked, Procedures
  <2>5. ~ByChild(y) /\ ~Holding(y)
    BY <2>3 DEF ByChild, Holding, Rebalancing, Informed, Onward
  <2>6. Called(y)
    BY <2>1, <2>3, <2>5 DEF Called
  <2>7. NotifierFits(n, y, commands)
    BY <1>1, <2>1, <2>3, <2>4, <2>6, FitsOn DEF Unlooked
  <2> QED BY <1>3, <2>1, <2>3, <2>4, <2>7, NotifierMoves
<1>7. CASE NotifyTransitions(n)
  <2>1. Becomes(n, OnChild(task[n])) /\ task[n].pc \notin Unlooked
    BY <1>7 DEF NotifyTransitions, At, Unlooked
  <2> QED BY <1>3, <2>1, NotifierToChild
<1> QED BY <1>4, <1>5, <1>6, <1>7

LEMMA SavedTyped ==
  ASSUME Shape, NEW acct \in Account, SaveBudget(acct)
  PROVE  RepositoryTypeOK'
BY AccountTyped DEF Shape, TypeOK

LEMMA AboutChild ==
  ASSUME Shape, NEW n \in Notifier, ~At(n, "idle")
  PROVE  /\ task[n] \in TaskRecord /\ task[n].child \in Child
         /\ ObjectiveOf(n) \in Objective /\ task[n].child[2] \in Nat
         /\ task[n].child = <<ObjectiveOf(n), task[n].child[2]>>
         /\ NotifierFits(n, task[n], commands) /\ Called(task[n])
         /\ task[n].snap \in SnapRecord /\ task[n].snap.account \in Account
         /\ task[n].account \in Account
         /\ usage[task[n].child] \in Nat
         /\ VersionRead(n) \in Nat
<1>1. task[n] \in TaskRecord /\ NotifierFits(n, task[n], commands) /\ Called(task[n])
  BY Names DEF Shape, NotifierFits
<1>2. task[n].child \in Child
  BY <1>1 DEF NotifierFits, At
<1>3. /\ ObjectiveOf(n) \in Objective /\ task[n].child[2] \in Nat
      /\ task[n].child = <<ObjectiveOf(n), task[n].child[2]>>
  BY <1>2, Names DEF ObjectiveOf
<1>4. task[n].snap \in SnapRecord /\ task[n].account \in Account
  BY <1>1 DEF TaskRecord
<1>5. task[n].snap.account \in Account
  BY <1>4 DEF SnapRecord
<1>6. usage[task[n].child] \in Nat
  BY <1>2 DEF Shape, TypeOK
<1>7. VersionRead(n) \in Nat
  BY <1>3, <1>4 DEF SnapRecord, VersionRead
<1> QED BY <1>1, <1>2, <1>3, <1>4, <1>5, <1>6, <1>7

LEMMA DeclinesShape ==
  ASSUME Shape, NEW n \in Notifier,
         RebalanceDeclined(n) \/ PlannerRaises(n) \/ PlannerDeclines(n)
         \/ ChildRefused(n) \/ ChildAnswers(n) \/ AdaptStops(n)
  PROVE  Shape'
<1>1. OnlyTask
  BY DEF RebalanceDeclined, PlannerRaises, PlannerDeclines, ChildRefused, ChildAnswers, AdaptStops
<1>2. UNCHANGED journalVars /\ RepositoryTypeOK' /\ Forgets
  BY <1>1, TaskOnly
<1>3. CASE RebalanceDeclined(n) \/ PlannerRaises(n)
  <2>1. Becomes(n, OnChild(task[n])) /\ task[n].pc \notin Unlooked
    BY <1>3 DEF RebalanceDeclined, PlannerRaises, At, Unlooked
  <2> QED BY <1>2, <2>1, NotifierToChild
<1>4. CASE PlannerDeclines(n)
  <2>1. Goes(n, "failMission") /\ task[n].pc = "planner"
    BY <1>4 DEF PlannerDeclines, At
  <2>2. ByRebalance(task[n]) /\ Holding(task[n]) /\ "failMission" \in Pcs
        /\ "failMission" \notin Unlooked \union Reads \union {"fund", "plan"}
        /\ task[n].pc \notin Unlooked \union {"checks"}
    BY <2>1 DEF ByRebalance, Holding, Rebalancing, Pcs, Unlooked, Reads
  <2> QED BY <1>2, <2>1, <2>2, NotifierGoes
<1>5. CASE ChildAnswers(n)
  <2>1. Goes(n, "settle") /\ task[n].pc = "child"
    BY <1>5 DEF ChildAnswers, At
  <2>2. ByChild(task[n]) /\ "settle" \in Pcs
        /\ "settle" \notin Unlooked \union Reads \union {"fund", "plan"} \union Rebalancing
                    \union Informed \union {"rebalance", "failObjective"}
        /\ task[n].pc \notin Unlooked \union {"checks"}
    BY <2>1 DEF ByChild, Rebalancing, Informed, Onward, Pcs, Unlooked, Reads
  <2> QED BY <1>2, <2>1, <2>2, NotifierGoes
<1>6. CASE ChildRefused(n) \/ AdaptStops(n)
  BY <1>2, <1>6, NotifierIdles DEF ChildRefused, AdaptStops
<1> QED BY <1>3, <1>4, <1>5, <1>6

LEMMA SettledRecord ==
  ASSUME Shape, NEW n \in Notifier, RebalanceSettles(n)
  PROVE  LET o == ObjectiveOf(n)
             before == task[n].snap.account
             after == Settle(before, o, usage[task[n].child])
             y == [task[n] EXCEPT !.pc = "failObjective", !.account = after]
         IN /\ after \in Account /\ y \in TaskRecord /\ y.pc = "failObjective"
            /\ y.child = task[n].child /\ y.seen = task[n].seen /\ y.next = task[n].next
            /\ y.caller = task[n].caller /\ y.snap = task[n].snap /\ y.account = after
            /\ Becomes(n, y) /\ SaveBudget(after) /\ OnlyRows /\ task[n].pc = "rebalance"
            /\ RebalanceCandidate(n) /\ Settles(before, o, usage[task[n].child])
<1> DEFINE o == ObjectiveOf(n)
           before == task[n].snap.account
           after == Settle(before, o, usage[task[n].child])
           y == [task[n] EXCEPT !.pc = "failObjective", !.account = after]
<1>1. task[n].pc = "rebalance" /\ ~At(n, "idle")
  BY DEF RebalanceSettles, At
<1>2. task[n] \in TaskRecord /\ before \in Account /\ o \in Objective /\ usage[task[n].child] \in Nat
  BY <1>1, AboutChild
<1>3. after \in Account /\ "failObjective" \in Pcs
  BY <1>2, SettleTyped DEF Pcs
<1>4. /\ Becomes(n, y) /\ SaveBudget(after) /\ OnlyRows
      /\ RebalanceCandidate(n) /\ Settles(before, o, usage[task[n].child])
  BY DEF RebalanceSettles
<1> HIDE DEF after
<1>5. /\ y \in TaskRecord /\ y.pc = "failObjective"
      /\ y.child = task[n].child /\ y.seen = task[n].seen /\ y.next = task[n].next
      /\ y.caller = task[n].caller /\ y.snap = task[n].snap /\ y.account = after
  BY <1>2, <1>3 DEF TaskRecord
<1> QED BY <1>1, <1>3, <1>4, <1>5 DEF after

LEMMA ProposedRecord ==
  ASSUME Shape, NEW n \in Notifier, NEW amount \in 1..Limit, PlannerProposes(n, amount)
  PROVE  LET o == ObjectiveOf(n)
             after == Reserve(task[n].account, o, amount)
             y == [task[n] EXCEPT !.pc = "saveRetry", !.account = after]
         IN /\ after \in Account /\ y \in TaskRecord /\ y.pc = "saveRetry"
            /\ y.child = task[n].child /\ y.seen = task[n].seen /\ y.next = task[n].next
            /\ y.caller = task[n].caller /\ y.snap = task[n].snap /\ y.account = after
            /\ Becomes(n, y) /\ OnlyTask /\ task[n].pc = "planner"
            /\ amount \in 1..Remaining(task[n].account) /\ amount \in Nat
<1> DEFINE o == ObjectiveOf(n)
           after == Reserve(task[n].account, o, amount)
           y == [task[n] EXCEPT !.pc = "saveRetry", !.account = after]
<1>1. task[n].pc = "planner" /\ ~At(n, "idle")
  BY DEF PlannerProposes, At
<1>2. task[n] \in TaskRecord /\ task[n].account \in Account /\ o \in Objective /\ amount \in Nat
  BY <1>1, AboutChild, Names
<1>3. after \in Account /\ "saveRetry" \in Pcs
  BY <1>2, ReserveTyped DEF Pcs
<1>4. Becomes(n, y) /\ OnlyTask /\ amount \in 1..Remaining(task[n].account)
  BY <1>2 DEF PlannerProposes
<1> HIDE DEF after
<1>5. /\ y \in TaskRecord /\ y.pc = "saveRetry"
      /\ y.child = task[n].child /\ y.seen = task[n].seen /\ y.next = task[n].next
      /\ y.caller = task[n].caller /\ y.snap = task[n].snap /\ y.account = after
  BY <1>2, <1>3 DEF TaskRecord
<1> QED BY <1>1, <1>2, <1>3, <1>4, <1>5 DEF after

LEMMA RebalancesShape ==
  ASSUME Shape, NEW n \in Notifier,
         \/ RebalanceSettles(n) \/ RebalanceFailsObjective(n)
         \/ \E amount \in 1..Limit : PlannerProposes(n, amount)
         \/ RebalanceFailsMission(n) \/ RebalanceReserves(n)
         \/ RebalanceReplaces(n) \/ RebalanceRearms(n)
  PROVE  Shape'
<1> DEFINE x == task[n]
<1>0. RepositoryTypeOK
  BY DEF Shape, TypeOK
<1>1. CASE RebalanceSettles(n)
  <2> DEFINE after == Settle(x.snap.account, ObjectiveOf(n), usage[x.child])
             y == [x EXCEPT !.pc = "failObjective", !.account = after]
  <2>1. /\ after \in Account /\ y \in TaskRecord /\ y.pc = "failObjective"
        /\ y.child = x.child /\ y.seen = x.seen /\ y.caller = x.caller
        /\ Becomes(n, y) /\ SaveBudget(after) /\ OnlyRows /\ x.pc = "rebalance"
    BY <1>1, SettledRecord
  <2> HIDE DEF y, after
  <2>2. RepositoryTypeOK' /\ UNCHANGED journalVars /\ Forgets
    BY <2>1, SavedTyped DEF OnlyRows
  <2>3. ByRebalance(x) /\ "failObjective" \in Pcs
        /\ "failObjective" \notin Unlooked \union Reads \union {"fund", "plan"} \union Rebalancing
                    \union Informed
        /\ x.pc \notin Unlooked \union {"checks"}
    BY <2>1 DEF ByRebalance, Rebalancing, Informed, Onward, Pcs, Unlooked, Reads
  <2> QED BY <2>1, <2>2, <2>3, NotifierBecomes
<1>2. CASE RebalanceFailsObjective(n)
  <2> DEFINE o == ObjectiveOf(n)
  <2>1. x.pc = "failObjective" /\ OnlyRows /\ ~At(n, "idle") /\ x.pc \notin Unlooked \union {"checks"}
    BY <1>2 DEF RebalanceFailsObjective, At, Unlooked
  <2>2. o \in Objective /\ x.child[2] \in Nat /\ Called(x) /\ VersionRead(n) \in Nat
    BY <2>1, AboutChild
  <2>3. UNCHANGED journalVars /\ Forgets
    BY <2>1 DEF OnlyRows
  <2>4. CASE ~ObjectiveAdmits(o, VersionRead(n), "failed")
    <3>1. UNCHANGED repositoryVars /\ Becomes(n, OnChild(x))
      BY <1>2, <2>4 DEF RebalanceFailsObjective
    <3> QED BY <2>1, <2>3, <3>1, RowsTyped, NotifierToChild
  <2>5. CASE ObjectiveAdmits(o, VersionRead(n), "failed")
    <3>1. TransitionObjective(o, VersionRead(n), "failed", x.child[2]) /\ Goes(n, "planner")
      BY <1>2, <2>5 DEF RebalanceFailsObjective
    <3>2. RepositoryTypeOK'
      BY <1>0, <2>2, <3>1, ObjectiveTyped
    <3>3. ByRebalance(x) /\ "planner" \in Pcs
          /\ "planner" \notin Unlooked \union Reads \union {"fund", "plan"}
          /\ x.seen = "failed" /\ x.caller = "rebalance"
      BY <2>1, <2>2 DEF ByRebalance, Pcs, Unlooked, Reads, Called
    <3> QED BY <2>1, <2>3, <3>1, <3>2, <3>3, NotifierGoes
  <2> QED BY <2>4, <2>5
<1>3. ASSUME NEW amount \in 1..Limit, PlannerProposes(n, amount) PROVE Shape'
  <2> DEFINE after == Reserve(x.account, ObjectiveOf(n), amount)
             y == [x EXCEPT !.pc = "saveRetry", !.account = after]
  <2>1. /\ y \in TaskRecord /\ y.pc = "saveRetry"
        /\ y.child = x.child /\ y.seen = x.seen /\ y.caller = x.caller
        /\ Becomes(n, y) /\ OnlyTask /\ x.pc = "planner"
    BY <1>3, ProposedRecord
  <2> HIDE DEF y, after
  <2>2. RepositoryTypeOK' /\ UNCHANGED journalVars /\ Forgets
    BY <2>1, TaskOnly
  <2>3. ByRebalance(x) /\ Holding(x) /\ "saveRetry" \in Pcs
        /\ "saveRetry" \notin Unlooked \union Reads \union {"fund", "plan"}
        /\ x.pc \notin Unlooked \union {"checks"}
    BY <2>1 DEF ByRebalance, Holding, Rebalancing, Informed, Onward, Pcs, Unlooked, Reads
  <2> QED BY <2>1, <2>2, <2>3, NotifierBecomes
<1>4. CASE RebalanceFailsMission(n)
  <2>1. /\ x.pc = "failMission" /\ ~At(n, "idle") /\ x.pc \notin Unlooked
        /\ MissionMoves(n, "failed", Returns(n, "failed")) /\ UNCHANGED <<journalVars, mishaps>>
    BY <1>4 DEF RebalanceFailsMission, At, Unlooked
  <2>2. n \in Task /\ n \notin Submitter
    BY Names, CoordinatorAssumption
  <2>3. PICK y \in TaskRecord :
          /\ Becomes(n, y) /\ advanced' \in SUBSET Child /\ UNCHANGED <<pending, usage, restarts>>
          /\ RepositoryTypeOK'
          /\ y = Idle \/ (y = OnChild(x) /\ x.caller = "rebalance")
    BY <2>1, <2>2, MissionMoved
  <2>4. NotifierFits(n, y, commands) /\ y.pc \notin {"runs", "terminates", "reconciles"}
    BY <2>1, <2>2, <2>3, LeavesFit
  <2>5. mishaps' \in SUBSET Mishaps /\ UNCHANGED journalVars
    BY <2>1 DEF Shape, TypeOK
  <2> QED BY <2>2, <2>3, <2>4, <2>5, ShapeOfTask
<1>5. CASE RebalanceReserves(n)
  <2>1. x.pc = "saveRetry" /\ ~At(n, "idle") /\ SaveBudget(x.account) /\ Goes(n, "replace") /\ OnlyRows
    BY <1>5 DEF RebalanceReserves, At
  <2>2. RepositoryTypeOK' /\ UNCHANGED journalVars /\ Forgets
    BY <2>1, AboutChild, SavedTyped DEF OnlyRows
  <2>3. ByRebalance(x) /\ Holding(x) /\ "replace" \in Pcs
        /\ "replace" \notin Unlooked \union Reads \union {"fund", "plan"}
        /\ x.pc \notin Unlooked \union {"checks"}
    BY <2>1 DEF ByRebalance, Holding, Rebalancing, Informed, Onward, Pcs, Unlooked, Reads
  <2> QED BY <2>1, <2>2, <2>3, NotifierGoes
<1>6. CASE RebalanceReplaces(n)
  <2> DEFINE o == ObjectiveOf(n)
  <2>1. x.pc = "replace" /\ OnlyRows /\ ~At(n, "idle") /\ x.pc \notin Unlooked \union {"checks"}
    BY <1>6 DEF RebalanceReplaces, At, Unlooked
  <2>2. o \in Objective /\ VersionRead(n) \in Nat /\ x.account \in Account
    BY <2>1, AboutChild
  <2>3. UNCHANGED journalVars /\ Forgets
    BY <2>1 DEF OnlyRows
  <2>4. CASE ~MayRetry(o, VersionRead(n) + 1)
    <3>1. UNCHANGED repositoryVars /\ Becomes(n, OnChild(x))
      BY <1>6, <2>4 DEF RebalanceReplaces
    <3> QED BY <2>1, <2>3, <3>1, RowsTyped, NotifierToChild
  <2>5. CASE MayRetry(o, VersionRead(n) + 1)
    <3>1. /\ ReplaceObjectiveBudget(o, VersionRead(n) + 1, x.account.reserved[o])
          /\ Goes(n, "rearm")
      BY <1>6, <2>5 DEF RebalanceReplaces
    <3>2. x.account.reserved[o] \in Nat /\ VersionRead(n) + 2 \in Nat
      BY <2>2 DEF Account
    <3>3. RepositoryTypeOK'
      BY <1>0, <2>2, <3>1, <3>2, ReplaceTyped
    <3>4. ByRebalance(x) /\ Holding(x) /\ "rearm" \in Pcs
          /\ "rearm" \notin Unlooked \union Reads \union {"fund", "plan"}
      BY <2>1 DEF ByRebalance, Holding, Rebalancing, Informed, Onward, Pcs, Unlooked, Reads
    <3> QED BY <2>1, <2>3, <3>1, <3>3, <3>4, NotifierGoes
  <2> QED BY <2>4, <2>5
<1>7. CASE RebalanceRearms(n)
  <2> DEFINE o == ObjectiveOf(n)
  <2>1. x.pc = "rearm" /\ OnlyRows /\ ~At(n, "idle") /\ x.pc \notin Unlooked \union {"checks"}
    BY <1>7 DEF RebalanceRearms, At, Unlooked
  <2>2. /\ o \in Objective /\ VersionRead(n) \in Nat /\ Called(x) /\ x \in TaskRecord
        /\ NotifierFits(n, x, commands)
    BY <2>1, AboutChild
  <2>3. UNCHANGED journalVars /\ Forgets
    BY <2>1 DEF OnlyRows
  <2>4. CASE ~MayRetry(o, VersionRead(n) + 2)
    <3>1. UNCHANGED repositoryVars /\ Becomes(n, OnChild(x))
      BY <1>7, <2>4 DEF RebalanceRearms
    <3> QED BY <2>1, <2>3, <3>1, RowsTyped, NotifierToChild
  <2>5. CASE MayRetry(o, VersionRead(n) + 2)
    <3>1. /\ RearmObjective(o, VersionRead(n) + 2)
          /\ Becomes(n, Reading(x, "advance"))
      BY <1>7, <2>5 DEF RebalanceRearms, Calls
    <3>2. VersionRead(n) + 3 \in Nat
      BY <2>2
    <3>3. RepositoryTypeOK'
      BY <1>0, <2>2, <3>1, RearmTyped
    <3>4. x.caller = "rebalance" /\ x.seen = "failed"
      BY <2>1, <2>2 DEF Called, ByRebalance, Rebalancing, Unlooked
    <3> DEFINE y == Reading(x, "advance")
    <3>5. /\ y \in TaskRecord /\ y.pc = "mission" /\ y.next = "advance"
          /\ y.child = x.child /\ y.seen = x.seen /\ y.caller = x.caller
          /\ "advance" \in Procedures
      BY <2>2, ReadingRecord DEF Procedures
    <3> HIDE DEF y, x
    <3>6. ~ByChild(y) /\ y.pc \notin Unlooked \union {"fund", "plan", "runs", "terminates", "reconciles"}
      BY <3>5 DEF ByChild, Unlooked
    <3>7. Called(y)
      BY <3>4, <3>5, <3>6 DEF Called
    <3>8. NotifierFits(n, y, commands)
      BY <2>1, <2>2, <3>5, <3>6, <3>7, FitsOn
    <3> QED BY <2>3, <3>1, <3>3, <3>5, <3>6, <3>8, NotifierMoves DEF x, y
  <2> QED BY <2>4, <2>5
<1> QED BY <1>1, <1>2, <1>3, <1>4, <1>5, <1>6, <1>7

LEMMA EndsShape ==
  ASSUME Shape, NEW n \in Notifier, ChildReplayed(n) \/ ChildEndsMission(n)
  PROVE  Shape'
<1> DEFINE x == task[n]
<1>1. PICK target : /\ x.pc \in {"child", "endMission"} /\ MissionMoves(n, target, Returns(n, target))
                    /\ UNCHANGED <<journalVars, mishaps>> /\ target # "waiting_evidence"
  <2>1. CASE ChildReplayed(n)
    BY <2>1 DEF ChildReplayed, At
  <2>2. CASE ChildEndsMission(n)
    <3>1. Outcome(n) # "waiting_evidence"
      BY DEF Outcome
    <3> QED BY <2>2, <3>1 DEF ChildEndsMission, At
  <2> QED BY <2>1, <2>2
<1>2. n \in Task /\ n \notin Submitter /\ ~At(n, "idle") /\ x.pc \notin Unlooked
  BY <1>1, Names, CoordinatorAssumption DEF At, Unlooked
<1>3. PICK y \in TaskRecord :
        /\ Becomes(n, y) /\ advanced' \in SUBSET Child /\ UNCHANGED <<pending, usage, restarts>>
        /\ RepositoryTypeOK'
        /\ y = Idle \/ (y = OnChild(x) /\ x.caller = "rebalance")
  BY <1>1, <1>2, MissionMoved
<1>4. NotifierFits(n, y, commands) /\ y.pc \notin {"runs", "terminates", "reconciles"}
  BY <1>2, <1>3, LeavesFit
<1>5. mishaps' \in SUBSET Mishaps /\ UNCHANGED journalVars
  BY <1>1 DEF Shape, TypeOK
<1> QED BY <1>2, <1>3, <1>4, <1>5, ShapeOfTask

LEMMA ChildShape ==
  ASSUME Shape, NEW n \in Notifier, ChildSettles(n) \/ ChildEndsObjective(n)
  PROVE  Shape'
<1> DEFINE x == task[n]
           o == ObjectiveOf(n)
<1>0. /\ x.pc \in {"settle", "endObjective"} /\ OnlyRows /\ ~At(n, "idle")
      /\ x.pc \notin Unlooked \union {"checks"}
  BY DEF ChildSettles, ChildEndsObjective, At, Unlooked
<1>1. /\ o \in Objective /\ Called(x) /\ x.child[2] \in Nat /\ VersionRead(n) \in Nat
      /\ x.snap.account \in Account /\ usage[x.child] \in Nat
  BY <1>0, AboutChild
<1>2. UNCHANGED journalVars /\ Forgets /\ RepositoryTypeOK
  BY <1>0 DEF OnlyRows, Shape, TypeOK
<1>3. ByChild(x) /\ x.caller = "child"
  BY <1>0, <1>1 DEF ByChild, Called
<1>4. CASE ChildSettles(n)
  <2> DEFINE after == Settle(x.snap.account, o, usage[x.child])
  <2>1. CASE ~Settles(x.snap.account, o, usage[x.child])
    <3>1. UNCHANGED repositoryVars /\ Becomes(n, Idle)
      BY <1>4, <2>1 DEF ChildSettles
    <3> QED BY <1>2, <3>1, RowsTyped, NotifierIdles
  <2>2. CASE Settles(x.snap.account, o, usage[x.child])
    <3>1. SaveBudget(after) /\ Goes(n, "endObjective")
      BY <1>4, <2>2 DEF ChildSettles
    <3>2. after \in Account
      BY <1>1, SettleTyped
    <3> HIDE DEF after
    <3>3. RepositoryTypeOK'
      BY <3>1, <3>2, SavedTyped
    <3>4. "endObjective" \in Pcs
          /\ "endObjective" \notin Unlooked \union Reads \union {"fund", "plan"} \union Rebalancing
                    \union Informed \union {"rebalance", "failObjective"}
      BY DEF Rebalancing, Informed, Onward, Pcs, Unlooked, Reads
    <3> QED BY <1>0, <1>2, <1>3, <3>1, <3>3, <3>4, NotifierGoes
  <2> QED BY <2>1, <2>2
<1>5. CASE ChildEndsObjective(n)
  <2>1. CASE ~ObjectiveAdmits(o, VersionRead(n), Outcome(n))
    <3>1. UNCHANGED repositoryVars /\ Becomes(n, Idle)
      BY <1>5, <2>1 DEF ChildEndsObjective
    <3> QED BY <1>2, <3>1, RowsTyped, NotifierIdles
  <2>2. CASE ObjectiveAdmits(o, VersionRead(n), Outcome(n))
    <3>1. /\ TransitionObjective(o, VersionRead(n), Outcome(n), x.child[2])
          /\ IF Outcome(n) = "completed" THEN Calls(n, "advance") ELSE Goes(n, "endMission")
      BY <1>5, <2>2 DEF ChildEndsObjective
    <3>2. RepositoryTypeOK'
      BY <1>1, <1>2, <3>1, ObjectiveTyped
    <3>3. CASE Outcome(n) = "completed"
      <4>1. x.seen = "succeeded"
        BY <3>3 DEF Outcome, Verification
      <4>2. Becomes(n, Reading(x, "advance"))
        BY <3>1, <3>3 DEF Calls
      <4> QED BY <1>0, <1>2, <1>3, <3>2, <4>1, <4>2, NotifierReads
    <3>4. CASE Outcome(n) # "completed"
      <4>1. Goes(n, "endMission")
        BY <3>1, <3>4
      <4>2. "endMission" \in Pcs
            /\ "endMission" \notin Unlooked \union Reads \union {"fund", "plan"} \union Rebalancing
                      \union Informed \union {"rebalance", "failObjective"}
        BY DEF Rebalancing, Informed, Onward, Pcs, Unlooked, Reads
      <4> QED BY <1>0, <1>2, <1>3, <3>2, <4>1, <4>2, NotifierGoes
    <3> QED BY <3>3, <3>4
  <2> QED BY <2>1, <2>2
<1> QED BY <1>4, <1>5

LEMMA UnproposedChosen ==
  ASSUME NEW snap \in SnapRecord, Unproposed(snap) # {}
  PROVE  Min(Unproposed(snap)) \in Objective \ First /\ Min(Unproposed(snap)) \notin snap.proposals
<1>1. Unproposed(snap) \subseteq Objective
  BY DEF Unproposed
<1>2. Min(Unproposed(snap)) \in Unproposed(snap)
  BY <1>1, LeastMember
<1> QED BY <1>2 DEF Unproposed

LEMMA AdaptsShape ==
  ASSUME Shape, NEW n \in Notifier, AdaptDecides(n) \/ VerifyCompletes(n)
  PROVE  Shape'
<1> DEFINE x == task[n]
<1>1. CASE AdaptDecides(n)
  <2>1. x.pc = "adapt" /\ ~At(n, "idle") /\ OnlyTask /\ x.pc \notin Unlooked
    BY <1>1 DEF AdaptDecides, At, Unlooked
  <2>2. PICK p \in {"verify", "explore"} : Becomes(n, Reading(x, p))
    BY <1>1 DEF AdaptDecides, Calls
  <2>3. x.caller = "child" /\ x.seen = "succeeded"
    BY <2>1, AboutChild DEF Called, ByChild, Holding, Informed, Onward
  <2>4. UNCHANGED journalVars /\ RepositoryTypeOK' /\ Forgets
    BY <2>1, TaskOnly
  <2> QED BY <2>1, <2>2, <2>3, <2>4, NotifierReads
<1>2. CASE VerifyCompletes(n)
  <2> DEFINE version == x.snap.mission.version
  <2>1. Becomes(n, Idle) /\ OnlyRows
    BY <1>2 DEF VerifyCompletes
  <2>2. TransitionMission(version, "completed") \/ UNCHANGED repositoryVars
    BY <1>2 DEF VerifyCompletes
  <2>3. RepositoryTypeOK
    BY DEF Shape, TypeOK
  <2>4. RepositoryTypeOK'
    BY <2>2, <2>3, MissionTyped, RowsTyped
  <2> QED BY <2>1, <2>4, NotifierIdles DEF OnlyRows
<1> QED BY <1>1, <1>2

LEMMA ExploresShape ==
  ASSUME Shape, NEW n \in Notifier, Knows(n),
         ExploreProposes(n) \/ ExploreFunds(n) \/ ExploreAppends(n)
  PROVE  Shape'
<1> DEFINE x == task[n]
           o == Proposed(n)
<1>1. /\ x.pc \in {"explore", "fundProposal", "append"} /\ OnlyRows /\ ~At(n, "idle")
      /\ x.pc \notin Unlooked \union {"checks"} /\ Unproposed(x.snap) # {}
  BY DEF ExploreProposes, ExploreFunds, ExploreAppends, At, Unlooked, Knows
<1>2. /\ x \in TaskRecord /\ Called(x) /\ x.snap \in SnapRecord /\ x.snap.account \in Account
      /\ NotifierFits(n, x, commands)
  BY <1>1, AboutChild
<1>3. o \in Objective \ First /\ Cost[o] \in Nat
  BY <1>1, <1>2, UnproposedChosen, Names DEF Proposed
<1>4. UNCHANGED journalVars /\ Forgets /\ RepositoryTypeOK
  BY <1>1 DEF OnlyRows, Shape, TypeOK
<1>5. ByChild(x) /\ Holding(x) /\ x.caller = "child" /\ x.seen = "succeeded"
  BY <1>1, <1>2 DEF ByChild, Called, Holding, Informed, Onward
<1> HIDE DEF o
<1>6. CASE ExploreProposes(n)
  <2>1. Goes(n, "fundProposal") /\ (SaveProposal(o) \/ UNCHANGED repositoryVars)
    BY <1>6 DEF ExploreProposes, o
  <2>2. RepositoryTypeOK'
    BY <1>3, <1>4, <2>1, RowsTyped DEF SaveProposal, RepositoryTypeOK
  <2>3. "fundProposal" \in Pcs
        /\ "fundProposal" \notin Unlooked \union Reads \union {"fund", "plan"} \union Rebalancing
                  \union {"rebalance", "failObjective"}
    BY DEF Rebalancing, Pcs, Unlooked, Reads
  <2> QED BY <1>1, <1>4, <1>5, <2>1, <2>2, <2>3, NotifierGoes
<1>7. CASE ExploreFunds(n)
  <2>1. CASE Fits(n)
    <3> DEFINE after == Reserve(x.snap.account, o, Cost[o])
    <3>1. SaveBudget(after) /\ Goes(n, "append")
      BY <1>7, <2>1 DEF ExploreFunds, o
    <3>2. after \in Account
      BY <1>2, <1>3, ReserveTyped
    <3> HIDE DEF after
    <3>3. RepositoryTypeOK'
      BY <3>1, <3>2, SavedTyped
    <3>4. "append" \in Pcs
          /\ "append" \notin Unlooked \union Reads \union {"fund", "plan"} \union Rebalancing
                    \union {"rebalance", "failObjective"}
      BY DEF Rebalancing, Pcs, Unlooked, Reads
    <3> QED BY <1>1, <1>4, <1>5, <3>1, <3>3, <3>4, NotifierGoes
  <2>2. CASE ~Fits(n)
    <3>1. SaveBudget(x.snap.account) /\ Becomes(n, Idle)
      BY <1>7, <2>2 DEF ExploreFunds
    <3>2. RepositoryTypeOK'
      BY <1>2, <3>1, SavedTyped
    <3> QED BY <1>4, <3>1, <3>2, NotifierIdles
  <2> QED BY <2>1, <2>2
<1>8. CASE ExploreAppends(n)
  <2>1. CASE objectives[o].status # "absent"
    <3>1. UNCHANGED repositoryVars /\ Becomes(n, Idle)
      BY <1>8, <2>1 DEF ExploreAppends, o
    <3> QED BY <1>4, <3>1, RowsTyped, NotifierIdles
  <2>2. CASE objectives[o].status = "absent"
    <3> DEFINE z == [x EXCEPT !.caller = "explore"]
               y == Reading(z, "advance")
    <3>1. AppendObjective(o) /\ Becomes(n, y)
      BY <1>8, <2>2 DEF ExploreAppends, o
    <3>2. RepositoryTypeOK'
      BY <1>3, <1>4, <3>1, AppendTyped
    <3>3. z \in TaskRecord /\ z.child = x.child /\ z.seen = x.seen /\ z.caller = "explore"
      BY <1>2 DEF TaskRecord
    <3> HIDE DEF z
    <3>4. /\ y \in TaskRecord /\ y.pc = "mission" /\ y.next = "advance"
          /\ y.child = x.child /\ y.seen = x.seen /\ y.caller = "explore"
          /\ "advance" \in Procedures
      BY <3>3, ReadingRecord DEF Procedures
    <3> HIDE DEF x, y
    <3>5. ~ByChild(y) /\ ~ByRebalance(y) /\ y.pc \notin Unlooked \union {"fund", "plan", "runs", "terminates", "reconciles"}
      BY <3>4 DEF ByChild, ByRebalance, Rebalancing, Unlooked
    <3>6. Called(y)
      BY <1>5, <3>4, <3>5 DEF Called
    <3>7. NotifierFits(n, y, commands)
      BY <1>1, <1>2, <3>4, <3>5, <3>6, FitsOn
    <3> QED BY <1>4, <3>1, <3>2, <3>4, <3>5, <3>7, NotifierMoves
  <2> QED BY <2>1, <2>2
<1> QED BY <1>6, <1>7, <1>8

(* Submitters.                                                             *)
LEMMA SubmitsShape ==
  ASSUME Shape, NEW s \in Submitter,
         SubmitCreates(s) \/ SubmitFunds(s) \/ SubmitPlans(s) \/ SubmitCut(s)
  PROVE  Shape'
<1> DEFINE x == task[s]
<1>1. x \in TaskRecord /\ SubmitterFits(x) /\ RepositoryTypeOK /\ s \in Task /\ s \notin Notifier
  BY Names, CoordinatorAssumption DEF Shape, TypeOK
<1>2. ASSUME OnlyRows
      PROVE  /\ advanced' \in SUBSET Child /\ mishaps' \in SUBSET Mishaps /\ UNCHANGED journalVars
             /\ UNCHANGED <<pending, usage, restarts>>
  BY <1>2 DEF OnlyRows, Forgets, worldVars, Shape, TypeOK
<1>3. CASE SubmitCreates(s)
  <2> DEFINE y == [x EXCEPT !.pc = "fund"]
  <2>1. CreateMission /\ Becomes(s, y) /\ OnlyRows
    BY <1>3 DEF SubmitCreates, Goes
  <2>2. y \in TaskRecord /\ y.pc = "fund"
    BY <1>1, GoesRecord DEF Pcs
  <2> HIDE DEF y
  <2>3. RepositoryTypeOK'
    <3>1. "pending" \in ObjectiveStatuses /\ "accepted" \in MissionStatuses
      BY DEF ObjectiveStatuses, MissionStatuses
    <3> QED BY <1>1, <2>1, <3>1 DEF CreateMission, RepositoryTypeOK
  <2>4. SubmitterFits(y) /\ y.pc \notin {"runs", "terminates", "reconciles"}
    BY <2>2 DEF SubmitterFits, Reads
  <2> QED BY <1>1, <1>2, <2>1, <2>2, <2>3, <2>4, ShapeOfTask
<1>4. CASE SubmitFunds(s)
  <2> DEFINE y == [x EXCEPT !.pc = "plan"]
  <2>1. SaveBudget(InitialAccount) /\ Becomes(s, y) /\ OnlyRows
    BY <1>4 DEF SubmitFunds, Goes
  <2>2. y \in TaskRecord /\ y.pc = "plan"
    BY <1>1, GoesRecord DEF Pcs
  <2> HIDE DEF y
  <2>3. RepositoryTypeOK'
    BY <2>1, Records, SavedTyped
  <2>4. SubmitterFits(y) /\ y.pc \notin {"runs", "terminates", "reconciles"}
    BY <2>2 DEF SubmitterFits, Reads
  <2> QED BY <1>1, <1>2, <2>1, <2>2, <2>3, <2>4, ShapeOfTask
<1>5. CASE SubmitPlans(s)
  <2> DEFINE z == [x EXCEPT !.caller = "submit"]
             y == Reading(z, "advance")
  <2>1. TransitionMission(0, "planning") /\ Becomes(s, y) /\ OnlyRows
    BY <1>5 DEF SubmitPlans
  <2>2. z \in TaskRecord /\ z.caller = "submit"
    BY <1>1 DEF TaskRecord
  <2> HIDE DEF z
  <2>3. y \in TaskRecord /\ y.pc = "mission" /\ y.next = "advance" /\ y.caller = "submit"
    BY <2>2, ReadingRecord DEF Procedures
  <2> HIDE DEF y
  <2>4. RepositoryTypeOK'
    BY <1>1, <2>1, MissionTyped
  <2>5. SubmitterFits(y) /\ y.pc \notin {"runs", "terminates", "reconciles"}
    BY <2>3 DEF SubmitterFits, Reads
  <2> QED BY <1>1, <1>2, <2>1, <2>3, <2>4, <2>5, ShapeOfTask
<1>6. CASE SubmitCut(s)
  <2>1. /\ Becomes(s, Idle) /\ UNCHANGED <<journalVars, repositoryVars, pending, usage, restarts>>
        /\ advanced' \in SUBSET Child /\ mishaps' \in SUBSET Mishaps
    BY <1>6 DEF SubmitCut, Shape, TypeOK, Mishaps
  <2>2. RepositoryTypeOK'
    BY <2>1, RowsTyped
  <2> QED BY <1>1, <2>1, <2>2, Records, ShapeOfTask
<1> QED BY <1>3, <1>4, <1>5, <1>6

(* The steps that change rows of the journal.                              *)
LEMMA ListsMembers ==
  ASSUME NEW S, IsFiniteSet(S)
  PROVE  SetToSeq(S) \in Seq(S)
<1>1. Cardinality(S) \in Nat /\ ExistsBijection(1..Cardinality(S), S)
  BY FS_CardinalityType
<1>2. PICK f \in Bijection(1..Cardinality(S), S) : TRUE
  BY <1>1 DEF ExistsBijection
<1>3. f \in [1..Cardinality(S) -> S] /\ IsInjective(f)
  BY <1>2 DEF Bijection, Injection
<1>4. SetToSeq(S) \in [1..Cardinality(S) -> S]
  BY <1>3, Zenon DEF SetToSeq
<1> QED BY <1>1, <1>4

LEMMA JournalMoves ==
  ASSUME Shape, NEW n \in Notifier, NEW y \in TaskRecord, Becomes(n, y),
         NEW c \in Id, NEW version, NEW target, Transition(c, version, target),
         UNCHANGED <<repositoryVars, advanced, restarts>>, usage' \in [Child -> Nat],
         mishaps' \in SUBSET Mishaps, pending' \in Seq(Child),
         \A i \in DOMAIN pending' : Present(pending'[i]),
         NotifierFits(n, y, commands'),
         n = "worker" /\ y.pc = "runs" => target = "running" /\ y.child = c,
         n = "gateway" => commands[c].state # "running",
         n = "gateway" /\ y.pc \in {"terminates", "reconciles"}
           => target = "reconciling" /\ y.child = c,
         n = "worker" => commands[c].state # "reconciling"
  PROVE  Shape'
<1>1. /\ Aged /\ JournalTypeOK' /\ commands'[c].state = target
      /\ \A d \in Id \ {c} : commands'[d] = commands[d]
  BY TransitionAged DEF Shape, TypeOK
<1>2. RepositoryTypeOK' /\ advanced' \in SUBSET Child /\ restarts' \in 0..MaxRestarts
  BY RowsTyped DEF Shape, TypeOK
<1>3. \A i \in DOMAIN pending' : commands'[pending'[i]].state # "absent"
  BY <1>1, Names DEF Aged
<1>4. n # "worker" /\ At("worker", "runs") => commands'[task["worker"].child].state = "running"
  <2>1. ASSUME n # "worker", At("worker", "runs") PROVE task["worker"].child \in Id \ {c}
    BY <2>1, Names DEF Shape, Owned, NotifierFits, At, Notifier
  <2> QED BY <1>1, <2>1 DEF Shape, Owned
<1>6. n # "gateway" /\ task["gateway"].pc \in {"terminates", "reconciles"}
        => commands'[task["gateway"].child].state = "reconciling"
  <2>1. ASSUME n # "gateway", task["gateway"].pc \in {"terminates", "reconciles"}
        PROVE  task["gateway"].child \in Id \ {c}
    BY <2>1, Names DEF Shape, Owned, NotifierFits, Notifier
  <2> QED BY <1>1, <2>1 DEF Shape, Owned
<1>5. n \in Task /\ n \notin Submitter
  BY Names, CoordinatorAssumption
<1> QED BY <1>1, <1>2, <1>3, <1>4, <1>5, <1>6, ShapeMoves

LEMMA StartRecords ==
  ASSUME NEW c \in Child, NEW p \in {"runs", "waits", "terminates", "looks"}
  PROVE  /\ [Idle EXCEPT !.pc = p, !.child = c] \in TaskRecord
         /\ [Idle EXCEPT !.pc = p, !.child = c].pc = p
         /\ [Idle EXCEPT !.pc = p, !.child = c].child = c
BY Records DEF TaskRecord, Pcs

\* a task that has not looked at its command yet
LEMMA UnlookedFits ==
  ASSUME NEW n, NEW rows, NEW y, y.pc \in Unlooked, y.child \in Child,
         rows[y.child].state # "absent", n = "gateway" => y.pc # "runs",
         n = "worker" => y.pc \notin {"waits", "reconciles", "terminates"}
  PROVE  NotifierFits(n, y, rows)
BY DEF NotifierFits, Called, ByRebalance, ByChild, Holding, Rebalancing, Informed, Onward,
       Unlooked, Reads

LEMMA Executed ==
  ASSUME Versions, NEW c \in Id, c \in Queued \/ c \in Active
  PROVE  c \in Child /\ Present(c) /\ commands[c].state # "failed"
BY DEF Versions, Queued, Active, Present, ActiveStates

LEMMA WorkersShape ==
  ASSUME Shape, Versions, NEW c \in Id, WorkerExpires(c) \/ WorkerStarts(c)
  PROVE  Shape'
<1>0. "worker" \in Notifier /\ "worker" \in Task
  BY Names DEF Notifier
<1>1. task["worker"] \in TaskRecord /\ task \in [Task -> TaskRecord] /\ At("worker", "idle")
  BY <1>0 DEF Shape, WorkerExpires, WorkerStarts
<1>2. c \in Queued /\ c \in Child /\ Present(c) /\ commands[c].state = "queued"
  BY Executed DEF WorkerExpires, WorkerStarts, Eligible, Queued
<1>3. /\ UNCHANGED <<repositoryVars, advanced, pending, restarts, usage>>
      /\ mishaps' \in SUBSET Mishaps
  BY DEF WorkerExpires, WorkerStarts, Rows, Shape, TypeOK, Mishaps
<1>4. /\ usage' \in [Child -> Nat] /\ pending' \in Seq(Child)
      /\ \A i \in DOMAIN pending' : Present(pending'[i])
  BY <1>3 DEF Shape, TypeOK
<1>5. CASE WorkerExpires(c)
  <2>1. Becomes("worker", task["worker"]) /\ Transition(c, commands[c].version, "failed")
    BY <1>1, <1>5 DEF WorkerExpires, Becomes
  <2>2. NotifierFits("worker", task["worker"], commands') /\ task["worker"].pc \notin {"runs", "terminates", "reconciles"}
    BY <1>1 DEF At, NotifierFits, Called, ByRebalance, ByChild, Holding, Rebalancing, Informed,
       Onward, Unlooked, Reads
  <2> QED BY <1>0, <1>1, <1>2, <1>3, <1>4, <2>1, <2>2, JournalMoves
<1>6. CASE WorkerStarts(c)
  <2> DEFINE y == [Idle EXCEPT !.pc = "runs", !.child = c]
  <2>1. Becomes("worker", y) /\ Transition(c, commands[c].version, "running")
    BY <1>6 DEF WorkerStarts
  <2>2. y \in TaskRecord /\ y.pc = "runs" /\ y.child = c
    BY <1>2, StartRecords
  <2> HIDE DEF y
  <2>3. commands'[c].state = "running"
    BY <2>1, TransitionAged DEF Shape, TypeOK
  <2>4. NotifierFits("worker", y, commands')
    BY <1>2, <2>2, <2>3, UnlookedFits DEF Unlooked
  <2> QED BY <1>0, <1>2, <1>3, <1>4, <2>1, <2>2, <2>4, JournalMoves
<1> QED BY <1>5, <1>6

LEMMA WorkerEndsShape ==
  ASSUME Shape, NEW outcome \in WorkerOutcomes, NEW actual \in Usage,
         WorkerEnds(outcome, actual)
  PROVE  Shape'
<1> DEFINE x == task["worker"]
           c == x.child
           y == [x EXCEPT !.pc = "looks"]
<1>1. /\ "worker" \in Notifier /\ x.pc = "runs" /\ ~At("worker", "idle")
      /\ Transition(c, commands[c].version, outcome) /\ Becomes("worker", y)
      /\ UNCHANGED <<repositoryVars, advanced, pending, restarts>>
      /\ usage' = [usage EXCEPT ![c] = actual]
  BY DEF WorkerEnds, Rows, Goes, At, Notifier
<1>2. c \in Child /\ c \in Id /\ x \in TaskRecord /\ commands[c].state = "running"
  BY <1>1, AboutChild, Names DEF Shape, Owned, At
<1>3. /\ usage' \in [Child -> Nat] /\ pending' \in Seq(Child)
      /\ \A i \in DOMAIN pending' : Present(pending'[i])
      /\ mishaps' \in SUBSET Mishaps
  <2>1. actual \in Nat
    BY CoordinatorAssumption
  <2>2. mishaps' \subseteq mishaps \union {"early", "overspent"}
    BY DEF WorkerEnds
  <2> QED BY <1>1, <2>1, <2>2 DEF Shape, TypeOK, Mishaps
<1>4. y \in TaskRecord /\ y.pc = "looks" /\ y.child = c
  BY <1>2, GoesRecord DEF Pcs
<1>5. commands'[c].state # "absent"
  BY <1>1, <1>2, TransitionAged DEF Shape, TypeOK, WorkerOutcomes
<1> HIDE DEF y, c
<1>6. NotifierFits("worker", y, commands')
  BY <1>2, <1>4, <1>5, UnlookedFits DEF Unlooked
<1> QED BY <1>1, <1>2, <1>3, <1>4, <1>6, JournalMoves

LEMMA GatewayMovesShape ==
  ASSUME Shape, NEW c \in Child, NEW target, NEW y \in TaskRecord,
         Becomes("gateway", y), Transition(c, commands[c].version, target),
         GatewayMoves, UNCHANGED pending, commands[c].state # "running",
         y.pc \in {"reconciles", "terminates"} => target = "reconciling",
         y = Idle \/ (y.child = c /\ y.pc \in {"reconciles", "terminates", "looks"})
  PROVE  Shape'
<1>1. "gateway" \in Notifier /\ "gateway" # "worker" /\ c \in Id
  BY Names DEF Notifier
<1>2. /\ UNCHANGED <<repositoryVars, advanced, restarts>> /\ usage' \in [Child -> Nat]
      /\ mishaps' \in SUBSET Mishaps /\ pending' \in Seq(Child)
      /\ \A i \in DOMAIN pending' : Present(pending'[i])
  BY DEF GatewayMoves, worldVars, Shape, TypeOK
<1>3. commands'[c].state # "absent"
  BY <1>1, TransitionAged, StateMembers DEF Shape, TypeOK, States, Terminal, Settled,
     UnstartedEnds, RunEnds
<1>4. NotifierFits("gateway", y, commands')
  BY <1>3, IdleFits, UnlookedFits DEF Unlooked
<1>5. y.pc # "runs" /\ (y.pc \in {"terminates", "reconciles"} => y.child = c)
  BY Records
<1> QED BY <1>1, <1>2, <1>4, <1>5, JournalMoves

LEMMA GatewayShape ==
  ASSUME Shape,
         \/ GatewayWaits \/ GatewayReconciles \/ GatewayCancels \/ GatewayNotifies
         \/ \E outcome \in WorkerOutcomes : GatewaySettles(outcome)
         \/ \E c \in Child : GatewayTerminates(c)
  PROVE  Shape'
<1> DEFINE x == task["gateway"]
<1>0. "gateway" \in Notifier /\ "gateway" \in Task
  BY Names DEF Notifier
<1>1. CASE GatewayWaits
  <2>1. Becomes("gateway", Idle) /\ UNCHANGED journalVars /\ RepositoryTypeOK' /\ Forgets
    BY <1>1, RowsTyped DEF GatewayWaits, GatewayMoves, Forgets
  <2> QED BY <1>0, <2>1, NotifierIdles
<1>2. CASE GatewayNotifies
  <2> DEFINE c == Head(pending)
             y == [Idle EXCEPT !.pc = "looks", !.child = c]
  <2>1. /\ pending # <<>> /\ pending' = Tail(pending) /\ Becomes("gateway", y)
        /\ UNCHANGED <<journalVars, repositoryVars, advanced, worldVars>>
    BY <1>2 DEF GatewayNotifies, GatewayMoves
  <2>2. pending \in Seq(Child) /\ \A i \in DOMAIN pending : Present(pending[i])
    BY DEF Shape, TypeOK
  <2>3. 1 \in DOMAIN pending /\ c = pending[1]
    BY <2>1, <2>2
  <2>4. c \in Child /\ Present(c)
    BY <2>2, <2>3
  <2>5. /\ pending' \in Seq(Child)
        /\ \A i \in DOMAIN pending' : i + 1 \in DOMAIN pending /\ pending'[i] = pending[i + 1]
    BY <2>1, <2>2
  <2>6. y \in TaskRecord /\ y.pc = "looks" /\ y.child = c
    BY <2>4, StartRecords
  <2> HIDE DEF y, c
  <2>7. NotifierFits("gateway", y, commands)
    BY <2>4, <2>6, UnlookedFits DEF Unlooked, Present
  <2>8. /\ UNCHANGED commands /\ JournalTypeOK' /\ Aged /\ RepositoryTypeOK'
    BY <2>1, NothingAges, RowsTyped DEF journalVars, Shape, TypeOK, JournalTypeOK
  <2>9. /\ advanced' \in SUBSET Child /\ usage' \in [Child -> Nat] /\ mishaps' \in SUBSET Mishaps
        /\ restarts' \in 0..MaxRestarts
    BY <2>1 DEF worldVars, Shape, TypeOK
  <2>10. \A i \in DOMAIN pending' : commands'[pending'[i]].state # "absent"
    BY <2>2, <2>5, <2>8 DEF Present
  <2>11. "gateway" \notin Submitter /\ "gateway" # "worker"
         /\ (At("worker", "runs") => commands'[task["worker"].child].state = "running")
    BY <2>8, Names DEF Shape, Owned
  <2> QED BY <1>0, <2>1, <2>5, <2>6, <2>7, <2>8, <2>9, <2>10, <2>11, ShapeMoves
<1>3. CASE GatewayReconciles \/ GatewayCancels \/ \E outcome \in WorkerOutcomes : GatewaySettles(outcome)
  <2> DEFINE c == x.child
  <2>1. /\ x.pc \in {"waits", "reconciles", "terminates"} /\ ~At("gateway", "idle")
        /\ UNCHANGED pending /\ GatewayMoves
    BY <1>3 DEF GatewayReconciles, GatewayCancels, GatewaySettles, At
  <2>2. x \in TaskRecord /\ c \in Child
    BY <1>0, <2>1, AboutChild
  <2>3. CASE GatewayReconciles
    <3> DEFINE y == [x EXCEPT !.pc = "reconciles"]
    <3>1. /\ Becomes("gateway", y) /\ Transition(c, commands[c].version, "reconciling")
          /\ commands[c].state # "running"
      BY <2>3 DEF GatewayReconciles, Goes
    <3>2. y \in TaskRecord /\ y.pc = "reconciles" /\ y.child = c
      BY <2>2, GoesRecord DEF Pcs
    <3> HIDE DEF y, c
    <3> QED BY <2>1, <2>2, <3>1, <3>2, GatewayMovesShape
  <2>4. CASE GatewayCancels
    <3> DEFINE y == [x EXCEPT !.pc = "looks"]
    <3>1. /\ Becomes("gateway", y) /\ Transition(c, commands[c].version, "cancelled")
          /\ commands[c].state # "running"
      BY <2>4 DEF GatewayCancels, Goes, Shape, Owned, At
    <3>2. y \in TaskRecord /\ y.pc = "looks" /\ y.child = c
      BY <2>2, GoesRecord DEF Pcs
    <3> HIDE DEF y, c
    <3> QED BY <2>1, <2>2, <3>1, <3>2, GatewayMovesShape
  <2>5. ASSUME NEW outcome \in WorkerOutcomes, GatewaySettles(outcome) PROVE Shape'
    <3>1. /\ Becomes("gateway", Idle) /\ Transition(c, commands[c].version, outcome)
          /\ commands[c].state # "running"
      BY <2>5 DEF GatewaySettles, Shape, Owned, At
    <3> HIDE DEF c
    <3> QED BY <2>1, <2>2, <3>1, Records, GatewayMovesShape
  <2> QED BY <1>3, <2>3, <2>4, <2>5
<1>4. ASSUME NEW c \in Child, GatewayTerminates(c) PROVE Shape'
  <2> DEFINE y == [Idle EXCEPT !.pc = "terminates", !.child = c]
  <2>1. /\ Becomes("gateway", y) /\ Transition(c, commands[c].version, "reconciling")
        /\ commands[c].state # "running" /\ UNCHANGED pending /\ GatewayMoves
    BY <1>4 DEF GatewayTerminates
  <2>2. y \in TaskRecord /\ y.pc = "terminates" /\ y.child = c
    BY StartRecords
  <2> HIDE DEF y
  <2> QED BY <2>1, <2>2, GatewayMovesShape
<1> QED BY <1>1, <1>2, <1>3, <1>4

LEMMA StopAged ==
  ASSUME JournalTypeOK, NEW s, NEW target \in Child \union {NoId}, ApplyStopBarrier(s, target)
  PROVE  /\ s \in Stop /\ ~Present(s) /\ Aged /\ JournalTypeOK' /\ accepting' = FALSE
         /\ \A c \in Execute : commands'[c].state =
              IF commands[c].state = "queued" THEN "cancelled_by_stop" ELSE commands[c].state
<1>1. /\ s \in Stop /\ s \in Id /\ target \in Id \union {NoId} /\ accepting' = FALSE
      /\ ~Present(s) /\ s # target /\ commands \in [Id -> Row]
  BY Names, NoIdAssumption DEF ApplyStopBarrier, ClaimRequest, Stop, JournalTypeOK, BarrierTargets,
     Active, ActiveStates, Execute
<1> DEFINE after(c) == CASE c = s -> NewRow
                         [] c \in Queued -> CancelledRow(commands[c])
                         [] c = target -> FlaggedRow(commands[c])
                         [] OTHER -> commands[c]
<1>2. commands' = [c \in Id |-> after(c)]
  BY DEF ApplyStopBarrier
<1>3. after(s) = NewRow /\ s \notin Queued /\ target \notin Queued
  <2>1. s \notin Queued
    BY <1>1 DEF Queued, Present
  <2>2. target \notin Queued
    BY NoIdAssumption DEF ApplyStopBarrier, BarrierTargets, Active, ActiveStates, Queued, Execute
  <2> QED BY <1>1, <2>1, <2>2
<1>4. ASSUME NEW c \in Id \ {s}
      PROVE  \/ c \in Queued /\ after(c) = CancelledRow(commands[c])
             \/ c \notin Queued /\ after(c) \in {FlaggedRow(commands[c]), commands[c]}
  <2>1. CASE c \in Queued
    BY <1>3, <1>4, <2>1
  <2>2. CASE c \notin Queued
    BY <1>4, <2>2
  <2> QED BY <2>1, <2>2
<1> HIDE DEF after
<1>5. NewRow \in Row /\ NewRow.state = "queued"
  BY StateMembers DEF NewRow, Row, JournalTypeOK
<1>6. ASSUME NEW c \in Id \ {s}
       PROVE  /\ after(c) \in Row
              /\ c \in Queued => after(c).state = "cancelled_by_stop"
              /\ c \notin Queued => after(c).state = commands[c].state
  <2>1. commands[c] \in Row /\ "cancelled_by_stop" \in States \union {"absent"}
    BY <1>1, StateMembers
  <2>2. commands[c].version + 1 \in Nat /\ commands[c].started \in BOOLEAN
    BY <2>1 DEF Row
  <2>3. CancelledRow(commands[c]) \in Row
    <3>1. CancelledRow(commands[c]) = [commands[c] EXCEPT !.state = "cancelled_by_stop",
                                                          !.version = commands[c].version + 1]
      BY <2>1 DEF CancelledRow, Row
    <3> QED BY <2>1, <2>2, <3>1 DEF Row
  <2>4. CancelledRow(commands[c]).state = "cancelled_by_stop"
    BY <2>1 DEF CancelledRow, Row
  <2>5. FlaggedRow(commands[c]) \in Row /\ FlaggedRow(commands[c]).state = commands[c].state
    BY <2>1 DEF FlaggedRow, Row
  <2> QED BY <1>4, <2>1, <2>3, <2>4, <2>5
<1>7. /\ ~Present(s) /\ commands'[s].state = "queued"
      /\ \A c \in Id \ {s} :
           /\ c \in Queued => commands'[c].state = "cancelled_by_stop"
           /\ c \notin Queued => commands'[c].state = commands[c].state
  BY <1>1, <1>2, <1>3, <1>5, <1>6
<1>8. JournalTypeOK'
  <2>1. commands' \in [Id -> Row]
    BY <1>2, <1>3, <1>5, <1>6
  <2>2. tombstone' \in [Request -> Id \union {NoId}] /\ lastSequence' \in Nat
    BY <1>1, DraftAssumption DEF ApplyStopBarrier, ClaimRequest, JournalTypeOK
  <2>3. accepting' \in BOOLEAN /\ barrier' = s /\ late' = late
    BY <1>1 DEF ApplyStopBarrier
  <2> QED BY <1>1, <2>1, <2>2, <2>3, Zenon DEF JournalTypeOK
<1>9. Aged
  BY <1>1, <1>7, StateMembers DEF Aged, Present, Unended, Settled, UnstartedEnds, RunEnds, Queued
<1>10. \A c \in Execute : c \in Id \ {s} /\ (c \in Queued <=> commands[c].state = "queued")
  BY <1>1, DraftAssumption DEF Kinds, Execute, Stop, Queued
<1> QED BY <1>1, <1>7, <1>8, <1>9, <1>10

LEMMA StopsShape ==
  ASSUME Shape, Versions, NEW s \in Stop, NEW target \in Child \union {NoId},
         GatewayStops(s, target)
  PROVE  /\ Shape'
         /\ \A i \in DOMAIN pending' : /\ pending'[i] \in Child /\ Present(pending'[i])
                                       /\ commands[pending'[i]].state # "failed"
<1> DEFINE T == IF target = NoId THEN <<>> ELSE <<target>>
           y == IF target = NoId THEN Idle
                ELSE [Idle EXCEPT !.pc = "waits", !.child = target]
<1>1. /\ pending' = SetToSeq(Queued) \o T /\ ApplyStopBarrier(s, target)
      /\ Becomes("gateway", y) /\ UNCHANGED <<repositoryVars, advanced, worldVars>>
  BY DEF GatewayStops, GatewayMoves
<1>2. /\ Aged /\ JournalTypeOK'
      /\ \A c \in Execute : commands'[c].state =
           IF commands[c].state = "queued" THEN "cancelled_by_stop" ELSE commands[c].state
  BY <1>1, StopAged DEF Shape, TypeOK
<1>3. /\ IsFiniteSet(Queued)
      /\ \A c \in Queued : c \in Child /\ Present(c) /\ commands[c].state # "failed"
  <2>1. \A c \in Queued : c \in Child /\ Present(c) /\ commands[c].state # "failed"
    BY Executed DEF Queued, Execute
  <2>2. Queued \in SUBSET Child
    BY <2>1
  <2> QED BY <2>1, <2>2, Names, FS_Subset
<1>4. target # NoId => target \in Child /\ Present(target) /\ commands[target].state # "failed"
  <2>1. target # NoId => target \in Active
    BY <1>1 DEF ApplyStopBarrier, BarrierTargets
  <2> QED BY <2>1, Names, Executed
<1>5. SetToSeq(Queued) \in Seq(Queued)
  BY <1>3, ListsMembers
<1>6. /\ pending' \in Seq(Child)
      /\ \A i \in DOMAIN pending' : pending'[i] \in Queued \union {target} /\ pending'[i] \in Child
                                    /\ (pending'[i] \in Queued \/ target # NoId)
  <2> DEFINE q == SetToSeq(Queued)
  <2>1. q \in Seq(Queued) /\ Queued \subseteq Child
    BY <1>3, <1>5
  <2> HIDE DEF q
  <2>2. CASE target = NoId
    <3>1. pending' = q
      BY <1>1, <2>1, <2>2 DEF q
    <3> QED BY <2>1, <3>1
  <2>3. CASE target # NoId
    <3>1. pending' = q \o <<target>> /\ target \in Child
      BY <1>1, <1>4, <2>3 DEF q
    <3>2. q \in Seq(Child) /\ <<target>> \in Seq(Child)
      BY <2>1, <3>1
    <3>3. \A i \in DOMAIN pending' : i \in 1..(Len(q) + 1)
                /\ pending'[i] = IF i <= Len(q) THEN q[i] ELSE target
      BY <3>1, <3>2
    <3>4. \A i \in 1..(Len(q) + 1) : i <= Len(q) => q[i] \in Queued
      BY <2>1
    <3> QED BY <2>1, <2>3, <3>1, <3>2, <3>3, <3>4
  <2> QED BY <2>2, <2>3
<1>7. \A i \in DOMAIN pending' : /\ pending'[i] \in Child /\ Present(pending'[i])
                                 /\ commands[pending'[i]].state # "failed"
  BY <1>3, <1>4, <1>6
<1>8. \A i \in DOMAIN pending' : commands'[pending'[i]].state # "absent"
  BY <1>2, <1>7, Names DEF Aged
<1>9. /\ y \in TaskRecord /\ y.pc \notin {"runs", "terminates", "reconciles"}
      /\ NotifierFits("gateway", y, commands')
  <2>1. CASE target = NoId
    BY <2>1, Records, IdleFits
  <2>2. CASE target # NoId
    <3> DEFINE z == [Idle EXCEPT !.pc = "waits", !.child = target]
    <3>1. target \in Child /\ commands'[target].state # "absent"
      BY <1>2, <1>4, <2>2, Names DEF Aged
    <3>2. z \in TaskRecord /\ z.pc = "waits" /\ z.child = target
      BY <3>1, StartRecords
    <3>3. y = z
      BY <2>2
    <3> HIDE DEF y, z
    <3> QED BY <3>1, <3>2, <3>3, UnlookedFits DEF Unlooked
  <2> QED BY <2>1, <2>2
<1> HIDE DEF y
<1>10. /\ RepositoryTypeOK' /\ advanced' \in SUBSET Child /\ usage' \in [Child -> Nat]
       /\ mishaps' \in SUBSET Mishaps /\ restarts' \in 0..MaxRestarts
  BY <1>1, RowsTyped DEF worldVars, Shape, TypeOK
<1>11. At("worker", "runs") => commands'[task["worker"].child].state = "running"
  <2>1. At("worker", "runs") => task["worker"].child \in Execute
    BY Names DEF Shape, NotifierFits, At, Notifier
  <2> QED BY <1>2, <2>1 DEF Shape, Owned
<1>12. "gateway" \in Task /\ "gateway" \notin Submitter /\ "gateway" # "worker"
  BY Names
<1>13. Shape'
  BY <1>1, <1>2, <1>6, <1>8, <1>9, <1>10, <1>11, <1>12, ShapeMoves
<1> QED BY <1>7, <1>13

LEMMA RestartAged ==
  ASSUME Shape, Restart
  PROVE  /\ Aged /\ JournalTypeOK'
         /\ \A c \in Id : commands'[c].state = CASE commands[c].state = "queued" -> "interrupted_before_start"
                            [] commands[c].state \in {"running", "reconciling"} -> "blocked_unknown"
                            [] OTHER -> commands[c].state
         /\ task' = [t \in Task |-> Idle] /\ pending' = <<>> /\ advanced' = {}
         /\ restarts' \in 0..MaxRestarts /\ UNCHANGED <<repositoryVars, usage, mishaps>>
<1>1. JournalTypeOK /\ restarts \in 0..MaxRestarts /\ MaxRestarts \in Nat
  BY CoordinatorAssumption DEF Shape, TypeOK
<1>2. ASSUME NEW c \in Id
      PROVE  /\ commands'[c] \in Row
             /\ commands'[c].state = CASE commands[c].state = "queued" -> "interrupted_before_start"
                   [] commands[c].state \in {"running", "reconciling"} -> "blocked_unknown"
                   [] OTHER -> commands[c].state
  <2>1. commands[c] \in Row /\ commands'[c] = RecoveredRow(commands[c])
    BY <1>1 DEF Restart, JournalTypeOK
  <2>2. CASE commands[c].state \notin {"queued", "running", "reconciling"}
    BY <2>1, <2>2 DEF RecoveredRow
  <2>3. CASE commands[c].state \in {"queued", "running", "reconciling"}
    <3> DEFINE target == RecoveryTarget(commands[c].state)
    <3>1. /\ target \in States
          /\ target = IF commands[c].state = "queued" THEN "interrupted_before_start"
                      ELSE "blocked_unknown"
      BY StateMembers DEF RecoveryTarget, States, Terminal, Settled, UnstartedEnds
    <3> DEFINE version == commands[c].version + 1
    <3>2. /\ commands'[c] = [commands[c] EXCEPT !.state = target, !.version = version]
          /\ version \in Nat
      BY <2>1, <2>3 DEF RecoveredRow, Row
    <3> HIDE DEF target, version
    <3>3. commands'[c] \in Row /\ commands'[c].state = target
      BY <2>1, <3>1, <3>2 DEF Row
    <3> QED BY <2>3, <3>1, <3>3
  <2> QED BY <2>2, <2>3
<1>3. Aged
  BY <1>2, StateMembers DEF Aged, Present, Unended, Settled, UnstartedEnds, RunEnds
<1>4. commands' = [c \in Id |-> RecoveredRow(commands[c])] /\ accepting' \in BOOLEAN
  BY DEF Restart
<1>5. commands' \in [Id -> Row]
  <2> DEFINE f == [c \in Id |-> RecoveredRow(commands[c])]
  <2>1. commands' = f /\ DOMAIN f = Id
    BY <1>4
  <2>2. f = [c \in Id |-> f[c]]
    OBVIOUS
  <2> HIDE DEF f
  <2> QED BY <1>2, <2>1, <2>2
<1>6. JournalTypeOK'
  BY <1>1, <1>4, <1>5 DEF Restart, JournalTypeOK
<1>7. /\ task' = [t \in Task |-> Idle] /\ pending' = <<>> /\ advanced' = {}
      /\ restarts' \in 0..MaxRestarts /\ UNCHANGED <<repositoryVars, usage, mishaps>>
  BY <1>1 DEF Restart
<1> QED BY <1>2, <1>3, <1>6, <1>7

LEMMA RestartShape ==
  ASSUME Shape, Restart
  PROVE  Shape'
<1>1. /\ JournalTypeOK' /\ task' = [t \in Task |-> Idle] /\ pending' = <<>> /\ advanced' = {}
      /\ restarts' \in 0..MaxRestarts /\ UNCHANGED <<repositoryVars, usage, mishaps>>
  BY RestartAged
<1>2. RepositoryTypeOK'
  BY <1>1, RowsTyped
<1>3. task' \in [Task -> TaskRecord] /\ \A t \in Task : task'[t] = Idle
  BY <1>1, Records
<1>4. pending' \in Seq(Child) /\ DOMAIN pending' = {}
  BY <1>1
<1>5. TypeOK'
  BY <1>1, <1>2, <1>3, <1>4 DEF TypeOK, TaskRecord, Shape
<1>6. Owned'
  BY <1>3, Records, Names DEF Owned, At
<1> QED
  BY <1>3, <1>4, <1>5, <1>6, Records, IdleFits, Names DEF Shape

LEMMA ClockShape ==
  ASSUME Shape, NEW c, ClockAdvances(c)
  PROVE  Shape'
<1>1. /\ UNCHANGED <<commands, accepting, repositoryVars, task, advanced, pending, worldVars>>
      /\ DeadlinePasses(c)
  BY DEF ClockAdvances, DeadlinePasses, memoryVars
<1>2. JournalTypeOK'
  BY <1>1 DEF DeadlinePasses, Queued, Execute, Shape, TypeOK, JournalTypeOK
<1>3. RepositoryTypeOK'
  BY <1>1, RowsTyped
<1>4. TypeOK'
  BY <1>1, <1>2, <1>3 DEF Shape, TypeOK, worldVars
<1> QED
  BY <1>1, <1>4 DEF Shape, Owned, At, Present

LEMMA StutterShape ==
  ASSUME Shape, UNCHANGED vars
  PROVE  Shape'
<1>1. UNCHANGED <<journalVars, repositoryVars, task, advanced, pending, worldVars>>
  BY DEF vars, memoryVars
<1>2. UNCHANGED commands /\ JournalTypeOK' /\ RepositoryTypeOK'
  BY <1>1, RowsTyped DEF journalVars, Shape, TypeOK, JournalTypeOK
<1>3. TypeOK'
  BY <1>1, <1>2 DEF Shape, TypeOK, worldVars
<1> QED
  BY <1>1, <1>2, <1>3 DEF Shape, Owned, At, Present

LEMMA InitShape ==
  ASSUME Init
  PROVE  Shape
<1>1. JournalTypeOK /\ RepositoryTypeOK
  <2>1. JournalTypeOK
    BY StateMembers DEF Init, JournalInit, JournalTypeOK, AbsentRow, Row
  <2>2. RepositoryTypeOK
    BY Names, Records DEF Init, RepositoryInit, RepositoryTypeOK, MissionStatuses, ObjectiveStatuses
  <2> QED BY <2>1, <2>2
<1>2. task \in [Task -> TaskRecord] /\ \A t \in Task : task[t] = Idle
  BY Records DEF Init
<1>3. /\ pending \in Seq(Child) /\ DOMAIN pending = {} /\ advanced \in SUBSET Child
      /\ usage \in [Child -> Nat] /\ mishaps \in SUBSET Mishaps /\ restarts \in 0..MaxRestarts
  BY CoordinatorAssumption DEF Init
<1>4. TypeOK
  BY <1>1, <1>2, <1>3 DEF TypeOK, TaskRecord
<1>5. Owned
  BY <1>2, Records, Names DEF Owned, At
<1> QED
  BY <1>2, <1>3, <1>4, <1>5, Records, IdleFits, Names DEF Shape

-----------------------------------------------------------------------------
(* The turn.  Most steps take no turn: some rows end, and one task goes on *)
(* without the turn or keeps the turn it had.                              *)
LEMMA TurnStays ==
  ASSUME Shape, Turns, NEW t \in Task, NEW x \in TaskRecord, Becomes(t, x), Aged,
         \A c \in Execute : commands'[c].state # "absent" => Present(c),
         \A c \in Child : commands'[c].state \in {"queued", "running"}
                            => commands[c].state \in {"queued", "running"},
         accepting' => accepting, UNCHANGED linked,
         \A o \in Objective :
           \/ objectives'[o] = objectives[o]
           \/ /\ o \in Lost /\ objectives'[o].status = objectives[o].status
              /\ linked[o] <= objectives'[o].version,
         UNCHANGED objectives \/ Holds(t),
         x.pc # "activate", Holding(x) => Holds(t) /\ ~At(t, "activate"),
         task[t].pc \in Rebalancing /\ Holding(x) => x.pc \in Rebalancing,
         x.pc \in Rebalancing => task[t].pc \in Rebalancing /\ x.child = task[t].child,
         x.pc \in Informed => x.snap.objectives = objectives',
         x.pc \in {"fundProposal", "append"} => Unproposed(x.snap) # {},
         \A c \in InHand' : \/ c \in InHand
                            \/ c \in Child /\ Present(c) /\ commands[c].state # "failed",
         GatewayTerminated', t = "gateway" => x.pc # "activate",
         t \in Notifier => Follows(t)',
         mission'.status = "absent" => mission.status = "absent",
         mission'.status \in MissionEnds => mission.status \in MissionEnds \/ Closing'
  PROVE  Turns'
<1>1. task'[t] = x /\ \A u \in Task \ {t} : task'[u] = task[u]
  BY DEF Shape, Becomes
<1>2. \A u \in Task : /\ Holds(u)' => Holds(u)
                      /\ At(u, "activate")' => At(u, "activate") /\ u # t
                      /\ u # t => (Holds(u)' <=> Holds(u)) /\ (At(u, "activate")' <=> At(u, "activate"))
  BY <1>1 DEF Holds, At
<1>3. ActiveNow' = ActiveNow /\ PendingNow' = PendingNow /\ Lost' = Lost
  BY DEF ActiveNow, PendingNow, Lost
<1>4. Open' \subseteq Open
  BY DEF Open
<1>5. /\ NoHolder => NoHolder'
      /\ NobodyActivates => NobodyActivates'
      /\ Stuck => Stuck'
  BY <1>2, <1>3 DEF NoHolder, NobodyActivates, Stuck
<1>6. At(t, "activate") => Stuck'
  <2> SUFFICES ASSUME At(t, "activate") PROVE Stuck'
    OBVIOUS
  <2>1. Holds(t) /\ ~Holding(x)
    BY DEF Holds, Holding, Informed, At
  <2>2. \A u \in Task : ~Holds(u)'
    BY <1>1, <1>2, <2>1 DEF Turns, OneTurn, Holds
  <2>3. ActiveNow = {}
    BY <2>1 DEF Turns, TurnOrActive
  <2> QED BY <1>3, <2>2, <2>3 DEF Stuck, NoHolder
<1>7. \A u \in Task : \A c : Chooses(u, c) => Chooses(u, c)' \/ Stuck'
  BY <1>1, <1>6 DEF Chooses, At
<1>8. /\ Resting => Resting'
      /\ Closing => Closing'
      /\ \A c : Settling(c) => Settling(c)'
  BY <1>3, <1>4, <1>5 DEF Resting, Closing, Settling, Linked
<1>9. OneTurn' /\ TurnOrActive' /\ OneActive'
  BY <1>2, <1>3 DEF Turns, OneTurn, TurnOrActive, OneActive
<1>10. LinksFit'
  <2>1. \A o \in ActiveNow \union PendingNow : objectives'[o] = objectives[o] /\ o \in Objective
    BY DEF ActiveNow, PendingNow, Lost
  <2>2. \A o \in Objective : linked'[o] <= objectives'[o].version
    BY DEF Turns, LinksFit
  <2>3. \A o \in Objective :
          linked[o] # 0 => Linked(o) \in Child /\ commands'[Linked(o)].state # "absent"
    BY Names DEF Turns, LinksFit, Aged
  <2>4. \A o \in Objective : objectives'[o].status = "absent" => linked[o] = 0
    BY DEF Turns, LinksFit
  <2> QED BY <1>3, <2>1, <2>2, <2>3, <2>4 DEF Turns, LinksFit, Linked, Present
<1>11. OpenIsKnown'
  <2> SUFFICES ASSUME NEW c \in Open'
               PROVE  \/ c[1] \in ActiveNow' /\ c = Linked(c[1])'
                      \/ \E u \in Task : Chooses(u, c)'
                      \/ Stuck' /\ Open' = {c}
    BY DEF OpenIsKnown
  <2>1. c \in Open
    BY <1>4
  <2>2. CASE c[1] \in ActiveNow /\ c = Linked(c[1])
    BY <1>3, <2>2 DEF Linked
  <2>3. CASE Stuck /\ Open = {c}
    BY <1>4, <1>5, <2>3
  <2>4. ASSUME NEW u \in Task, Chooses(u, c) PROVE \/ \E v \in Task : Chooses(v, c)'
                                                   \/ Stuck' /\ Open' = {c}
    <3>1. CASE Chooses(u, c)'
      BY <3>1
    <3>2. CASE Stuck'
      <4>1. Holds(u) /\ ActiveNow = {}
        BY <2>4 DEF Chooses, At, Holds, Holding, Informed, Turns, TurnOrActive
      <4>2. \A d \in Open : d = c
        BY <2>4, <4>1 DEF Turns, OpenIsKnown, Stuck, NoHolder, OneTurn, Chooses, Holds, At, Holding,
           Informed
      <4> QED BY <1>4, <3>2, <4>2
    <3> QED BY <1>7, <2>4, <3>1, <3>2
  <2> QED BY <2>1, <2>2, <2>3, <2>4 DEF Turns, OpenIsKnown
<1>12. Versions'
  <2>1. \A c \in Execute : Present(c)' => c \in Child
    BY DEF Turns, Versions, Present
  <2>2. ASSUME NEW c \in Child, Present(c)'
        PROVE  /\ c[2] >= 1
               /\ c[2] < linked[c[1]] => commands'[c].state = "failed"
               /\ c[2] = linked[c[1]] /\ c[1] \in PendingNow => commands'[c].state = "failed"
               /\ c[2] > linked[c[1]] => /\ c[1] \in PendingNow
                                         /\ c[2] = objectives'[c[1]].version + 1
                                         /\ (\E u \in Task : Chooses(u, c)') \/ Stuck'
    <3>1. Present(c) /\ c \in Id
      BY <2>2, Names DEF Present
    <3>2. commands[c].state = "failed" => commands'[c].state = "failed"
      BY <3>1 DEF Aged, Settled, RunEnds
    <3>3. c[1] \in PendingNow => objectives'[c[1]] = objectives[c[1]]
      BY DEF PendingNow, Lost
    <3>4. /\ c[2] >= 1
          /\ c[2] < linked[c[1]] => commands[c].state = "failed"
          /\ c[2] = linked[c[1]] /\ c[1] \in PendingNow => commands[c].state = "failed"
          /\ c[2] > linked[c[1]] => /\ c[1] \in PendingNow
                                    /\ c[2] = objectives[c[1]].version + 1
                                    /\ (\E u \in Task : Chooses(u, c)) \/ Stuck
      BY <3>1 DEF Turns, Versions
    <3> QED BY <1>5, <1>7, <3>2, <3>3, <3>4
  <2> QED BY <1>3, <2>1, <2>2 DEF Versions
<1>13. LostIsLast'
  <2> SUFFICES ASSUME Lost # {} PROVE /\ Open' = {} /\ ActiveNow' = {}
                                     /\ \A u \in Task : Holds(u)' => task'[u].pc \in Rebalancing
    BY <1>3 DEF LostIsLast
  <2>1. /\ Open = {} /\ ActiveNow = {} /\ \A u \in Task : Holds(u) => task[u].pc \in Rebalancing
    BY DEF Turns, LostIsLast
  <2>2. \A u \in Task : Holds(u)' => task'[u].pc \in Rebalancing
    BY <1>1, <1>2, <2>1 DEF Holds
  <2> QED BY <1>3, <1>4, <2>1, <2>2
<1>14. ASSUME NEW u \in Task PROVE Knows(u)'
  <2>1. CASE u # t
    <3>1. task'[u] = task[u] /\ Knows(u)
      BY <1>1, <2>1 DEF Turns
    <3>2. Holds(u) => UNCHANGED objectives
      BY <2>1 DEF Turns, OneTurn
    <3>3. task[u].pc \in Informed \union Rebalancing \/ At(u, "activate") => Holds(u)
      BY DEF Holds, Holding, At, Informed
    <3>4. \A c \in Child : Present(c) => Present(c)'
      BY Names DEF Aged, Present
    <3>5. /\ task[u].pc \in Informed => task[u].snap.objectives = objectives'
          /\ task[u].pc \in {"fundProposal", "append"} => Unproposed(task[u].snap) # {}
      BY <3>1, <3>2, <3>3 DEF Knows
    <3>6. At(u, "activate") => /\ Ready(task[u].snap) # {}
                               /\ ChosenChild(task[u].snap) \in Child
                               /\ Present(ChosenChild(task[u].snap))'
      BY <3>1, <3>4 DEF Knows, Present
    <3>7. task[u].pc \in Rebalancing => /\ Lost' = {ObjectiveOf(u)}
                                        /\ linked'[ObjectiveOf(u)] = task[u].child[2]
                                        /\ objectives'[ObjectiveOf(u)].status = "failed"
      BY <1>3, <3>1, <3>2, <3>3 DEF Knows
    <3> QED BY <3>1, <3>5, <3>6, <3>7 DEF Knows, At, ObjectiveOf, Present, ChosenChild, Chosen
  <2>2. CASE u = t
    <3>1. task'[u] = x /\ Knows(t)
      BY <1>1, <2>2 DEF Turns
    <3>2. x.pc \in Rebalancing => /\ Lost' = {x.child[1]} /\ linked'[x.child[1]] = x.child[2]
                                  /\ objectives'[x.child[1]].status = "failed"
      <4>1. ASSUME x.pc \in Rebalancing
            PROVE  /\ Lost = {x.child[1]} /\ linked[x.child[1]] = x.child[2]
                   /\ objectives[x.child[1]].status = "failed" /\ x.child[1] \in Objective
        BY <3>1, <4>1 DEF Knows, ObjectiveOf, Lost
      <4> QED BY <1>3, <4>1
    <3> QED BY <3>1, <3>2 DEF Knows, At, ObjectiveOf
  <2> QED BY <2>1, <2>2
<1>15. ASSUME NEW n \in Notifier PROVE Follows(n)'
  <2>1. CASE n = t
    BY <2>1
  <2>2. CASE n # t
    <3>1. task'[n] = task[n] /\ Follows(n)
      BY <1>1, <2>2, Names DEF Turns
    <3>2. /\ OnRow(n)' <=> OnRow(n)
          /\ Committed(n)' <=> Committed(n)
          /\ StatusRead(n)' = StatusRead(n) /\ VersionRead(n)' = VersionRead(n)
          /\ ObjectiveOf(n)' = ObjectiveOf(n)
          /\ ReadsChild(n)' <=> ReadsChild(n)
          /\ Replayed(n)' <=> Replayed(n)
          /\ \A p : At(n, p)' <=> At(n, p)
      BY <3>1 DEF OnRow, Committed, StatusRead, VersionRead, ObjectiveOf, ReadsChild, Replayed, At
    <3>3. task[n].pc \in {"account", "objectives"} /\ ReadsChild(n) /\ OnRow(n)
            => linked'[ObjectiveOf(n)] = task[n].child[2]
      BY <3>1 DEF Follows
    <3>4. /\ Committed(n) => Settling(task[n].child)'
          /\ (At(n, "child") /\ Replayed(n)) \/ At(n, "endMission") => Closing'
      BY <1>8, <3>1 DEF Follows
    <3>5. Committed(n) => OnRow(n) /\ StatusRead(n) = "active" /\ VersionRead(n) = task[n].child[2]
      BY <3>1 DEF Follows
    <3> QED BY <3>1, <3>2, <3>3, <3>4, <3>5 DEF Follows, Settling, Resting, Linked
  <2> QED BY <2>1, <2>2
<1>16. NoEcho'
  <2>1. ~At("gateway", "activate")'
    BY <1>2, Names DEF Turns, NoEcho
  <2>2. ASSUME At("worker", "activate")', NEW d \in InHand', d[1] \in PendingNow, linked[d[1]] = d[2]
        PROVE  FALSE
    <3>1. At("worker", "activate")
      BY <1>2, <2>2, Names
    <3>2. CASE d \in InHand
      BY <2>2, <3>1, <3>2 DEF Turns, NoEcho
    <3>3. CASE d \in Child /\ Present(d) /\ commands[d].state # "failed"
      BY <2>2, <3>3 DEF Turns, Versions
    <3> QED BY <2>2, <3>2, <3>3
  <2> QED BY <1>3, <2>1, <2>2 DEF NoEcho
<1>17. SubmitterFirst'
  <2>1. (\E s \in Submitter : Holds(s)') => \E s \in Submitter : Holds(s)
    BY <1>2, Names
  <2>2. \A o \in Objective : objectives'[o].status = objectives[o].status
    OBVIOUS
  <2> QED BY <2>1, <2>2 DEF Turns, SubmitterFirst
<1>18. NotYet'
  BY <1>5 DEF Turns, NotYet
<1>19. EndedIsClosing'
  BY <1>8 DEF Turns, EndedIsClosing
<1> QED
  BY <1>9, <1>10, <1>11, <1>12, <1>13, <1>14, <1>15, <1>16, <1>17, <1>18, <1>19 DEF Turns

(* Steps of a task that leave the journal and the objectives alone.        *)
LEMMA TurnQuiet ==
  ASSUME Shape, Turns, NEW t \in Task, NEW x \in TaskRecord, Becomes(t, x),
         UNCHANGED <<journalVars, objectives, linked, pending>>,
         x.pc # "activate", Holding(x) => Holds(t) /\ ~At(t, "activate"),
         task[t].pc \in Rebalancing /\ Holding(x) => x.pc \in Rebalancing,
         x.pc \in Rebalancing => task[t].pc \in Rebalancing /\ x.child = task[t].child,
         x.pc \in Informed => x.snap.objectives = objectives,
         x.pc \in {"fundProposal", "append"} => Unproposed(x.snap) # {},
         t = "gateway" => \/ x.pc = "idle"
                          \/ /\ task[t].pc \notin {"idle", "waits", "reconciles", "terminates"}
                             /\ x.pc \notin {"waits", "reconciles", "terminates"}
                             /\ x.child = task[t].child,
         t \in Notifier => Follows(t)',
         mission'.status = "absent" => mission.status = "absent",
         mission'.status \in MissionEnds => mission.status \in MissionEnds \/ Closing'
  PROVE  Turns'
<1>1. UNCHANGED <<commands, accepting>> /\ Aged
  BY NothingAges DEF journalVars
<1>2. task'[t] = x /\ \A u \in Task \ {t} : task'[u] = task[u]
  BY DEF Shape, Becomes
<1>3. GatewayTerminated'
  <2>1. GatewayTerminated
    BY DEF Turns
  <2>2. CASE t # "gateway"
    <3>1. task'["gateway"] = task["gateway"]
      BY <1>2, <2>2, Names
    <3> QED BY <1>1, <2>1, <3>1 DEF GatewayTerminated, At
  <2>3. CASE t = "gateway"
    BY <1>1, <1>2, <2>1, <2>3 DEF GatewayTerminated, At
  <2> QED BY <2>2, <2>3
<1>4. \A c \in InHand' : c \in InHand
  <2>1. CASE t # "gateway"
    <3>1. task'["gateway"] = task["gateway"]
      BY <1>2, <2>1, Names
    <3> QED BY <3>1 DEF InHand, At
  <2>2. CASE t = "gateway"
    BY <1>2, <2>2 DEF InHand, At
  <2> QED BY <2>1, <2>2
<1>5. /\ \A c \in Execute : commands'[c].state # "absent" => Present(c)
      /\ \A c \in Child : commands'[c].state \in {"queued", "running"}
                            => commands[c].state \in {"queued", "running"}
  BY <1>1 DEF Present
<1> QED
  BY <1>1, <1>3, <1>4, <1>5, TurnStays

\* where a notifier depends on what others do to its objective
Following == {"account", "objectives", "child", "rebalance", "settle", "endObjective",
              "failObjective", "endMission"}

LEMMA FollowsNot ==
  ASSUME NEW n, task'[n].pc \notin Following
  PROVE  Follows(n)'
BY DEF Follows, Committed, Following, At

LEMMA TurnLeft ==
  ASSUME Shape, Turns, NEW t \in Task, NEW x \in TaskRecord, Becomes(t, x),
         UNCHANGED <<journalVars, objectives, linked, pending>>,
         ~Holding(x), x.pc \notin Following,
         t = "gateway" => \/ x.pc = "idle"
                          \/ /\ task[t].pc \notin {"idle", "waits", "reconciles", "terminates"}
                             /\ x.pc \notin {"waits", "reconciles", "terminates"}
                             /\ x.child = task[t].child,
         mission'.status = "absent" => mission.status = "absent",
         mission'.status \in MissionEnds => mission.status \in MissionEnds \/ Closing'
  PROVE  Turns'
<1>1. task'[t] = x
  BY DEF Shape, Becomes
<1>2. t \in Notifier => Follows(t)'
  BY <1>1, FollowsNot
<1>3. x.pc \notin Rebalancing \union Informed /\ x.pc # "activate"
      /\ x.pc \notin {"fundProposal", "append"}
  BY DEF Holding, Informed
<1> QED BY <1>2, <1>3, TurnQuiet

LEMMA TurnIdles ==
  ASSUME Shape, Turns, NEW t \in Task, Becomes(t, Idle),
         UNCHANGED <<journalVars, objectives, linked, pending>>,
         mission'.status = "absent" => mission.status = "absent",
         mission'.status \in MissionEnds => mission.status \in MissionEnds \/ Closing'
  PROVE  Turns'
<1>1. ~Holding(Idle) /\ Idle.pc \notin Following
  BY Records DEF Holding, Following, Rebalancing, Informed, Onward, Reads
<1> QED BY <1>1, Records, TurnLeft

LEMMA TurnToChild ==
  ASSUME Shape, Turns, NEW n \in Notifier, Becomes(n, OnChild(task[n])),
         task[n].pc \notin Unlooked,
         UNCHANGED <<journalVars, objectives, linked, pending>>,
         mission'.status = "absent" => mission.status = "absent",
         mission'.status \in MissionEnds => mission.status \in MissionEnds \/ Closing'
  PROVE  Turns'
<1> DEFINE x == OnChild(task[n])
<1>1. n \in Task /\ task[n] \in TaskRecord
  BY Names DEF Shape
<1>2. x \in TaskRecord /\ x.pc = "mission" /\ x.next = "child" /\ x.child = task[n].child
  BY <1>1, OnChildRecord
<1> HIDE DEF x
<1>3. ~Holding(x) /\ x.pc \notin Following
  BY <1>2 DEF Holding, Following, Rebalancing, Informed, Onward, Reads
<1>4. /\ task[n].pc \notin {"idle", "waits", "reconciles", "terminates"}
      /\ x.pc \notin {"waits", "reconciles", "terminates"}
  BY <1>2 DEF Unlooked
<1> QED BY <1>1, <1>2, <1>3, <1>4, TurnLeft DEF x

(* Who has the turn finds nothing open and nothing active.                 *)
LEMMA HolderAlone ==
  ASSUME Turns, NEW t \in Task, Holds(t)
  PROVE  /\ ActiveNow = {} /\ ~Stuck
         /\ \A u \in Task \ {t} : ~Holds(u) /\ ~At(u, "activate")
         /\ \A c \in Open : Chooses(t, c)
         /\ ~At(t, "activate") => Open = {} /\ NobodyActivates
         /\ task[t].pc \notin Rebalancing => Lost = {}
         /\ mission.status # "absent"
<1>1. ActiveNow = {} /\ ~Stuck
  BY DEF Turns, TurnOrActive, Stuck, NoHolder
<1>2. \A u \in Task : At(u, "activate") => Holds(u)
  BY DEF At, Holds, Holding, Informed
<1>3. \A u \in Task \ {t} : ~Holds(u) /\ ~At(u, "activate")
  BY <1>2 DEF Turns, OneTurn
<1>4. \A c \in Open : Chooses(t, c)
  BY <1>1, <1>3 DEF Turns, OpenIsKnown, Chooses
<1>5. ~At(t, "activate") => Open = {} /\ NobodyActivates
  BY <1>3, <1>4 DEF Chooses, NobodyActivates
<1>6. task[t].pc \notin Rebalancing => Lost = {}
  BY DEF Turns, LostIsLast
<1>7. mission.status # "absent"
  BY DEF Turns, NotYet, NoHolder
<1> QED BY <1>1, <1>3, <1>4, <1>5, <1>6, <1>7

(* When it gives up the turn, nothing goes on.                             *)
LEMMA HolderLeaves ==
  ASSUME Shape, Turns, NEW t \in Task, NEW x, Becomes(t, x), Holds(t), ~At(t, "activate"),
         ~Holding(x), x.pc # "activate", UNCHANGED <<commands, objectives>>
  PROVE  Closing'
<1>1. task'[t] = x /\ \A u \in Task \ {t} : task'[u] = task[u]
  BY DEF Shape, Becomes
<1>2. /\ ActiveNow = {} /\ Open = {}
      /\ \A u \in Task \ {t} : ~Holds(u) /\ ~At(u, "activate")
  BY HolderAlone
<1>3. ActiveNow' = {} /\ Open' = {}
  BY <1>2 DEF ActiveNow, Open
<1>4. \A u \in Task : ~Holds(u)' /\ ~At(u, "activate")'
  BY <1>1, <1>2 DEF Holds, At
<1> QED BY <1>3, <1>4 DEF Closing, Resting, NoHolder, NobodyActivates

LEMMA HolderEnded ==
  ASSUME Shape, NEW n \in Notifier, Holds(n)
  PROVE  /\ ~At(n, "idle") /\ commands[task[n].child].state = task[n].seen
         /\ task[n].seen = IF task[n].caller = "rebalance" THEN "failed" ELSE "succeeded"
         /\ task[n].pc \in Rebalancing => task[n].seen = "failed"
<1>1. task[n].pc \notin Unlooked \union {"checks"} /\ ~At(n, "idle")
  BY Names DEF Holds, Holding, Informed, Onward, Rebalancing, Reads, Unlooked, Shape, NotifierFits, At
<1>2. NotifierFits(n, task[n], commands) /\ Called(task[n])
  BY <1>1, AboutChild
<1>3. task[n].seen = IF task[n].caller = "rebalance" THEN "failed" ELSE "succeeded"
  BY <1>2 DEF Called, Holds
<1>4. task[n].pc \in Rebalancing => task[n].seen = "failed"
  BY <1>2, <1>3 DEF Called, ByRebalance
<1>5. commands[task[n].child].state = task[n].seen
  BY <1>1, <1>2, <1>3, StateMembers DEF NotifierFits, Settled, RunEnds
<1> QED BY <1>1, <1>3, <1>4, <1>5

\* while commands are admitted, the gateway follows commands it cancelled
LEMMA GatewayFollows ==
  ASSUME Shape, Turns, accepting
  PROVE  /\ ~Holds("gateway")
         /\ task["gateway"].pc \notin Unlooked =>
              commands[task["gateway"].child].state = "cancelled"
<1>1. task["gateway"].pc \notin Unlooked =>
        commands[task["gateway"].child].state = "cancelled"
  BY DEF Turns, GatewayTerminated, At, Unlooked
<1>2. "gateway" \in Notifier
  BY DEF Notifier
<1>3. ASSUME Holds("gateway") PROVE FALSE
  <2>1. task["gateway"].pc \notin Unlooked
    BY <1>2, <1>3 DEF Holds, Holding, Informed, Onward, Rebalancing, Reads, Unlooked, Shape, NotifierFits
  <2>2. commands[task["gateway"].child].state \in {"failed", "succeeded"}
    BY <1>2, <1>3, HolderEnded
  <2> QED BY <1>1, <2>1, <2>2
<1> QED BY <1>1, <1>3

LEMMA ReadsFollow ==
  ASSUME Shape, Turns, NEW n \in Notifier, Snapshots(n)
  PROVE  Follows(n)'
<1> DEFINE x == task[n]
           o == x.child[1]
<1>1. PICK y \in TaskRecord :
           /\ Becomes(n, y) /\ OnlyTask
           /\ y.child = x.child /\ y.seen = x.seen /\ y.next = x.next
           /\ x.pc \in Reads
           /\ \/ /\ At(n, "mission") /\ y.pc = "transitions"
              \/ /\ At(n, "transitions") /\ y.pc = "account" /\ y.snap.linked = linked
              \/ /\ At(n, "account") /\ y.pc = "objectives" /\ y.snap.linked = x.snap.linked
              \/ /\ At(n, "objectives") /\ y.pc = y.next /\ y.snap.objectives = objectives
                 /\ y.snap.linked = x.snap.linked
  BY Names, ReadsRecord
<1>2. /\ task'[n] = y
      /\ UNCHANGED <<commands, accepting, objectives, linked, proposals>>
      /\ \A u \in Task \ {n} : task'[u] = task[u]
  BY <1>1, Names DEF Shape, Becomes, OnlyTask, journalVars, repositoryVars
<1>3. /\ ~At(n, "idle") /\ x.pc \notin Unlooked /\ x \in TaskRecord /\ x.child \in Child
      /\ o \in Objective /\ x.child = <<o, x.child[2]>> /\ x.next \in Procedures
      /\ NotifierFits(n, x, commands) /\ Follows(n)
  <2>1. ~At(n, "idle") /\ x.pc \notin Unlooked
    BY <1>1 DEF At, Reads, Unlooked
  <2> QED BY <1>1, <2>1, AboutChild DEF ObjectiveOf, NotifierFits, Turns
<1>4. CASE At(n, "mission") /\ y.pc = "transitions"
  BY <1>2, <1>4, FollowsNot DEF Following
<1>5. CASE At(n, "transitions") /\ y.pc = "account" /\ y.snap.linked = linked
  BY <1>2, <1>5 DEF Follows, Committed, OnRow, At, ObjectiveOf
<1>6. CASE At(n, "account") /\ y.pc = "objectives" /\ y.snap.linked = x.snap.linked
  BY <1>1, <1>2, <1>3, <1>6 DEF Follows, Committed, OnRow, At, ObjectiveOf, ReadsChild
<1>7. CASE /\ At(n, "objectives") /\ y.pc = y.next /\ y.snap.objectives = objectives
           /\ y.snap.linked = x.snap.linked
  <2>1. CASE y.next \notin {"child", "rebalance"}
    <3>1. y.pc \notin Following
      BY <1>1, <1>3, <1>7, <2>1 DEF Procedures, Following
    <3> QED BY <1>2, <3>1, FollowsNot
  <2>2. CASE y.next \in {"child", "rebalance"}
    <3>1. ~Holds(n)
      BY <1>1, <1>7, <2>2 DEF Holds, Holding, Informed, Onward, Rebalancing, At
    <3>2. ASSUME Committed(n)'
          PROVE  /\ OnRow(n)' /\ StatusRead(n)' = "active" /\ VersionRead(n)' = x.child[2]
                 /\ Settling(x.child)'
      <4>1. /\ objectives[o].status = "active" /\ y.snap.linked[o] = x.child[2]
        BY <1>1, <1>2, <1>7, <2>2, <3>2 DEF Committed, StatusRead, OnRow, ObjectiveOf
      <4>2. linked[o] = x.child[2] /\ o \in ActiveNow
        BY <1>1, <1>3, <1>7, <2>2, <4>1 DEF Follows, OnRow, At, ReadsChild, ObjectiveOf, ActiveNow
      <4>3. objectives[o].version = x.child[2] /\ \A p \in ActiveNow : p = o
        BY <4>2 DEF Turns, LinksFit, OneActive
      <4>4. NoHolder /\ NobodyActivates
        <5>1. NoHolder
          BY <4>2 DEF Turns, TurnOrActive, NoHolder
        <5> QED BY <5>1 DEF NoHolder, NobodyActivates, Holds, Holding, Informed, At
      <4>5. Open = {}
        <5> SUFFICES ASSUME NEW d \in Open PROVE FALSE
          OBVIOUS
        <5>1. d = <<o, linked[o]>>
          BY <4>2, <4>3, <4>4 DEF Turns, OpenIsKnown, Chooses, NobodyActivates, Stuck, Linked
        <5>2. d = x.child
          BY <1>3, <4>2, <5>1
        <5> QED BY <1>3, <5>2 DEF NotifierFits, Unended, Open
      <4>6. Settling(x.child)
        BY <1>3, <4>2, <4>3, <4>4, <4>5 DEF Settling, Resting, Linked
      <4>7. \A u \in Task : (Holds(u)' <=> Holds(u)) /\ (At(u, "activate")' <=> At(u, "activate"))
        <5>1. ~Holding(y) /\ y.pc # "activate"
          BY <1>7, <2>2 DEF Holding, Informed, Onward, Rebalancing, Reads
        <5> QED BY <1>2, <3>1, <5>1, <4>4 DEF Holds, At, NobodyActivates
      <4>8. Settling(x.child)'
        BY <1>1, <1>2, <4>6, <4>7 DEF Settling, Resting, NoHolder, NobodyActivates, Open, ActiveNow, Linked
      <4>9. OnRow(n)' /\ StatusRead(n)' = "active" /\ VersionRead(n)' = x.child[2]
        BY <1>1, <1>2, <1>7, <4>1, <4>3 DEF OnRow, StatusRead, VersionRead, ObjectiveOf
      <4> QED BY <4>8, <4>9
    <3>3. ASSUME At(n, "child")', Replayed(n)'
          PROVE  Closing'
      <4>1. /\ objectives[o].status = "failed" /\ Verification(x.seen) = "failed" /\ o \in Lost
        BY <1>1, <1>2, <1>3, <1>7, <3>3 DEF Replayed, StatusRead, ObjectiveOf, Lost
      <4>2. Open = {} /\ ActiveNow = {} /\ \A u \in Task : Holds(u) => task[u].pc \in Rebalancing
        BY <4>1 DEF Turns, LostIsLast
      <4>3. NobodyActivates
        BY <4>2 DEF NobodyActivates, At, Holds, Holding, Informed, Rebalancing
      <4>4. ASSUME accepting, NEW u \in Task, Holds(u) PROVE FALSE
        <5>1. task[u].pc \in Rebalancing /\ u # n
          BY <3>1, <4>2, <4>4
        <5>2. u \in Notifier
          BY <5>1, Names DEF Shape, SubmitterFits, Rebalancing, Reads
        <5>3. u = "worker" /\ n = "gateway"
          BY <4>4, <5>1, <5>2, GatewayFollows DEF Notifier
        <5>4. commands[x.child].state = "cancelled"
          BY <1>3, <4>4, <5>3, GatewayFollows
        <5>5. /\ Lost = {task[u].child[1]} /\ linked[task[u].child[1]] = task[u].child[2]
          BY <5>1, Names DEF Turns, Knows, ObjectiveOf
        <5>6. commands[task[u].child].state = "failed" /\ task[u].child \in Child
          BY <4>4, <5>1, <5>2, HolderEnded, AboutChild
        <5>7. task[u].child = <<o, linked[o]>>
          BY <4>1, <5>5, <5>6, Names
        <5>8. Present(x.child) /\ x.child[1] = o /\ x.child[2] \in Nat /\ linked[o] \in Nat
          BY <1>3, <5>4, Names DEF Present, Shape, TypeOK, RepositoryTypeOK
        <5>9. o \notin PendingNow
          BY <4>1 DEF PendingNow
        <5>10. x.child[2] >= linked[o] /\ x.child[2] <= linked[o]
          BY <1>3, <5>4, <5>8, <5>9 DEF Turns, Versions
        <5>11. x.child = <<o, linked[o]>>
          BY <1>3, <5>8, <5>10
        <5> QED BY <5>4, <5>6, <5>7, <5>11
      <4>5. accepting => NoHolder
        BY <4>4 DEF NoHolder
      <4>6. \A u \in Task : (Holds(u)' <=> Holds(u)) /\ (At(u, "activate")' <=> At(u, "activate"))
        <5>1. ~Holding(y) /\ y.pc # "activate"
          BY <1>7, <2>2 DEF Holding, Informed, Onward, Rebalancing, Reads
        <5> QED BY <1>2, <3>1, <5>1, <4>3 DEF Holds, At, NobodyActivates
      <4> QED BY <1>2, <4>2, <4>3, <4>5, <4>6 DEF Closing, Resting, NoHolder, NobodyActivates, Open, ActiveNow
    <3>4. task'[n].pc \notin {"account", "objectives", "endMission"}
      BY <1>2, <1>7, <2>2
    <3>5. x.child = task'[n].child
      BY <1>1, <1>2
    <3> QED BY <3>2, <3>3, <3>4, <3>5 DEF Follows, At, Settling, Resting
  <2> QED BY <2>1, <2>2
<1> QED BY <1>1, <1>4, <1>5, <1>6, <1>7

LEMMA ReadsTurn ==
  ASSUME Shape, Turns, NEW t \in Task, Snapshots(t)
  PROVE  Turns'
<1> DEFINE x == task[t]
<1>1. PICK y \in TaskRecord :
           /\ Becomes(t, y) /\ OnlyTask
           /\ y.child = x.child /\ y.next = x.next /\ x.pc \in Reads
           /\ y.pc \in Reads \/ (y.pc = x.next /\ y.snap.objectives = objectives)
  BY ReadsRecord DEF Reads
<1>2. /\ UNCHANGED <<journalVars, objectives, linked, pending>> /\ mission' = mission
  BY <1>1 DEF OnlyTask, repositoryVars, Forgets
<1>3. x.next \in Procedures
  <2>1. CASE t \in Submitter
    BY <1>1, <2>1 DEF Shape, SubmitterFits, Procedures
  <2>2. CASE t \in Notifier
    BY <1>1, <2>2 DEF Shape, NotifierFits
  <2> QED BY <2>1, <2>2, Names
<1>4. /\ y.pc # "activate" /\ x.pc # "activate" /\ x.pc \notin Rebalancing
      /\ y.pc \notin Rebalancing \union {"waits", "reconciles", "terminates", "fundProposal", "append"}
      /\ x.pc \notin {"idle", "waits", "reconciles", "terminates"}
  BY <1>1, <1>3 DEF Reads, Procedures, Rebalancing
<1>5. Holding(y) => Holds(t)
  BY <1>1, <1>3, <1>4 DEF Holds, Holding, Informed, Onward, Reads, Procedures
<1>6. y.pc \in Informed => y.snap.objectives = objectives
  BY <1>1 DEF Informed, Onward, Reads
<1>7. t \in Notifier => Follows(t)'
  BY ReadsFollow
<1> QED BY <1>1, <1>2, <1>4, <1>5, <1>6, <1>7, TurnQuiet DEF At

LEMMA TurnReturns ==
  ASSUME Shape, Turns, NEW t \in Task, NEW y \in TaskRecord, Becomes(t, y),
         task[t].pc \notin Unlooked, ~At(t, "activate"),
         UNCHANGED <<journalVars, objectives, linked, pending>>,
         \/ y = Idle
         \/ y = Reading(task[t], "adapt") /\ Holds(t) /\ task[t].pc \notin Rebalancing
         \/ y = OnChild(task[t]),
         mission'.status = "absent" => mission.status = "absent",
         mission'.status \in MissionEnds => mission.status \in MissionEnds \/ Closing'
  PROVE  Turns'
<1>1. task[t] \in TaskRecord /\ "adapt" \in Procedures /\ Idle.pc = "idle"
  BY Records DEF Shape, Procedures
<1>2. /\ y.pc \in {"idle", "mission"}
      /\ y.pc # "idle" => y.child = task[t].child
      /\ Holding(y) => Holds(t) /\ task[t].pc \notin Rebalancing
  <2>1. CASE y = Idle
    BY <2>1, <1>1 DEF Holding, Informed, Onward, Rebalancing, Reads
  <2>2. CASE y = Reading(task[t], "adapt") /\ Holds(t) /\ task[t].pc \notin Rebalancing
    BY <2>2, <1>1, ReadingRecord
  <2>3. CASE y = OnChild(task[t])
    <3>1. y.pc = "mission" /\ y.next = "child" /\ y.child = task[t].child
      BY <2>3, <1>1, OnChildRecord
    <3> QED BY <3>1 DEF Holding, Informed, Onward, Rebalancing, Reads
  <2> QED BY <2>1, <2>2, <2>3
<1>3. /\ y.pc \notin Rebalancing \union Informed \union Following
      /\ y.pc \notin {"activate", "fundProposal", "append", "waits", "reconciles", "terminates"}
  BY <1>2 DEF Rebalancing, Informed, Onward, Following
<1>4. task'[t] = y /\ task[t].pc \notin {"idle", "waits", "reconciles", "terminates"}
  BY DEF Shape, Becomes, Unlooked
<1>5. Follows(t)'
  BY <1>3, <1>4, FollowsNot
<1> QED BY <1>2, <1>3, <1>4, <1>5, TurnQuiet

LEMMA CreatesNothingTurn ==
  ASSUME Shape, Turns, NEW t \in Task, AdvanceCreatesNothing(t)
  PROVE  Turns'
<1>1. /\ task[t].pc = "advance" /\ UNCHANGED <<journalVars, mishaps>> /\ Holds(t)
      /\ task[t].pc \in {"advance", "activate", "run"}
      /\ ~At(t, "activate") /\ task[t].pc \notin Rebalancing
  BY DEF AdvanceCreatesNothing, Holds, Holding, Informed, Onward, At, Rebalancing
<1>2. /\ t \in Submitter => task[t].caller = "submit"
      /\ ~At(t, "idle") /\ task[t].pc \notin Unlooked /\ task[t] \in TaskRecord
  BY <1>1, SubmitCalled
<1>3. PICK y \in TaskRecord :
        /\ Becomes(t, y) /\ UNCHANGED <<objectives, linked, pending>>
        /\ \/ y = Idle \/ y = Reading(task[t], "adapt") \/ y = OnChild(task[t])
        /\ mission'.status = "absent" => mission.status = "absent"
        /\ mission'.status \in MissionEnds =>
             \/ mission.status \in MissionEnds
             \/ y = Idle
  <2>1. CASE Finishes(task[t].snap)
    <3>1. MissionMoves(t, CompletionTarget, Returns(t, CompletionTarget))
      BY <2>1 DEF AdvanceCreatesNothing
    <3>2. /\ UNCHANGED <<objectives, linked>>
          /\ \E y \in TaskRecord :
              /\ Becomes(t, y) /\ UNCHANGED pending
              /\ \/ /\ mission'.status = CompletionTarget
                    /\ CompletionTarget \in MissionSuccessors(mission.status)
                    /\ \/ y = Idle
                       \/ y = Reading(task[t], "adapt") /\ CompletionTarget = "waiting_evidence"
                 \/ /\ mission' = mission
                    /\ y = Idle \/ y = OnChild(task[t])
      BY <1>2, <3>1, MissionMoved
    <3>3. "waiting_evidence" \notin MissionEnds
      BY DEF MissionEnds
    <3> QED BY <3>2, <3>3, MissionTargets
  <2>2. CASE ~Finishes(task[t].snap)
    <3>1. UNCHANGED repositoryVars /\ Returns(t, task[t].snap.mission.status)
      BY <2>2 DEF AdvanceCreatesNothing
    <3> QED BY <1>2, <3>1, ReturnsTo DEF repositoryVars
  <2> QED BY <2>1, <2>2
<1>4. y = Idle => Closing'
  <2>1. ~Holding(Idle) /\ Idle.pc # "activate"
    BY Records DEF Holding, Informed, Onward, Rebalancing, Reads
  <2>2. UNCHANGED commands
    BY <1>1 DEF journalVars
  <2> QED BY <1>1, <1>3, <2>1, <2>2, HolderLeaves
<1> QED BY <1>1, <1>2, <1>3, <1>4, TurnReturns

LEMMA LeavesTurn ==
  ASSUME Shape, Turns, NEW t \in Task, AdvanceRefused(t) \/ AdvanceRuns(t)
  PROVE  Turns'
<1>1. /\ task[t].pc \in {"advance", "activate", "run"} /\ UNCHANGED journalVars
      /\ ~At(t, "activate")
  BY DEF AdvanceRefused, AdvanceReady, AdvanceRuns, At
<1>2. /\ t \in Submitter => task[t].caller = "submit"
      /\ ~At(t, "idle") /\ task[t].pc \notin Unlooked
  BY <1>1, SubmitCalled
<1>3. PICK y \in TaskRecord :
        /\ Becomes(t, y) /\ UNCHANGED <<objectives, linked, pending>>
        /\ y = Idle \/ y = OnChild(task[t])
        /\ mission' = mission \/ mission'.status = "running"
  <2>1. CASE AdvanceRefused(t)
    <3>1. UNCHANGED repositoryVars /\ Raises(t)
      BY <2>1 DEF AdvanceRefused
    <3> QED BY <3>1, RaisesTo DEF repositoryVars
  <2>2. CASE AdvanceRuns(t)
    <3>1. MissionMoves(t, "running", Returns(t, "running"))
      BY <2>2 DEF AdvanceRuns
    <3> QED BY <1>2, <3>1, MissionMoved
  <2> QED BY <2>1, <2>2
<1>4. /\ mission'.status = "absent" => mission.status = "absent"
      /\ mission'.status \in MissionEnds => mission.status \in MissionEnds
  BY <1>3 DEF MissionEnds
<1> QED BY <1>1, <1>2, <1>3, <1>4, TurnReturns

LEMMA NotifiesTurn ==
  ASSUME Shape, Turns, NEW n \in Notifier,
         NotifyLooks(n) \/ NotifySkips(n) \/ NotifyRebalances(n) \/ NotifyTransitions(n)
  PROVE  Turns'
<1> DEFINE x == task[n]
<1>1. /\ x \in TaskRecord /\ n \in Task /\ OnlyTask
      /\ UNCHANGED <<journalVars, objectives, linked, pending, mission>>
  BY Names DEF Shape, NotifyLooks, NotifySkips, NotifyRebalances, NotifyTransitions, OnlyTask,
     repositoryVars, Forgets
<1>2. CASE NotifyLooks(n)
  <2> DEFINE state == commands[x.child].state
             y == [x EXCEPT !.pc = "checks", !.seen = state]
  <2>1. At(n, "looks") /\ Becomes(n, IF state \in Terminal THEN y ELSE Idle)
    BY <1>2 DEF NotifyLooks
  <2>2. CASE state \notin Terminal
    BY <1>1, <2>1, <2>2, TurnIdles
  <2>3. CASE state \in Terminal
    <3>1. Becomes(n, y)
      BY <2>1, <2>3
    <3>2. y \in TaskRecord /\ y.pc = "checks" /\ y.child = x.child
      BY <1>1, <2>3 DEF TaskRecord, Pcs, States
    <3> HIDE DEF y
    <3>3. ~Holding(y) /\ y.pc \notin Following
      BY <3>2 DEF Holding, Informed, Onward, Rebalancing, Reads, Following
    <3> QED BY <1>1, <2>1, <3>1, <3>2, <3>3, TurnLeft DEF At
  <2> QED BY <2>2, <2>3
<1>3. CASE NotifySkips(n)
  BY <1>1, <1>3, TurnIdles DEF NotifySkips
<1>4. CASE NotifyRebalances(n)
  <2> DEFINE z == [x EXCEPT !.caller = "rebalance"]
             y == Reading(z, "rebalance")
  <2>1. x.pc = "checks" /\ Becomes(n, y)
    BY <1>4 DEF NotifyRebalances, At
  <2>2. z \in TaskRecord /\ z.child = x.child
    BY <1>1 DEF TaskRecord
  <2> HIDE DEF z
  <2>3. /\ y \in TaskRecord /\ y.pc = "mission" /\ y.next = "rebalance" /\ y.child = x.child
    BY <2>2, ReadingRecord DEF Procedures
  <2> HIDE DEF y
  <2>4. ~Holding(y) /\ y.pc \notin Following
    BY <2>3 DEF Holding, Informed, Onward, Rebalancing, Reads, Following
  <2> QED BY <1>1, <2>1, <2>3, <2>4, TurnLeft
<1>5. CASE NotifyTransitions(n)
  <2>1. Becomes(n, OnChild(task[n])) /\ task[n].pc \notin Unlooked
    BY <1>5 DEF NotifyTransitions, At, Unlooked
  <2> QED BY <1>1, <2>1, TurnToChild
<1> QED BY <1>2, <1>3, <1>4, <1>5

LEMMA SubmitsTurn ==
  ASSUME Shape, Turns, NEW s \in Submitter,
         SubmitFunds(s) \/ SubmitPlans(s) \/ SubmitCut(s)
  PROVE  Turns'
<1> DEFINE x == task[s]
<1>1. /\ x \in TaskRecord /\ s \in Task /\ s \notin Notifier /\ s # "gateway"
      /\ UNCHANGED <<journalVars, objectives, linked, pending>>
  BY Names, CoordinatorAssumption DEF Shape, SubmitFunds, SubmitPlans, SubmitCut, OnlyRows,
     Forgets, SaveBudget, TransitionMission, repositoryVars
<1>2. CASE SubmitFunds(s)
  <2> DEFINE y == [x EXCEPT !.pc = "plan"]
  <2>1. Becomes(s, y) /\ UNCHANGED mission /\ Holds(s) /\ ~At(s, "activate") /\ x.pc \notin Rebalancing
    BY <1>2 DEF SubmitFunds, Goes, SaveBudget, Holds, Holding, At, Rebalancing
  <2>2. y \in TaskRecord /\ y.pc = "plan"
    BY <1>1, GoesRecord DEF Pcs
  <2> HIDE DEF y
  <2>3. y.pc \notin Rebalancing \union Informed /\ y.pc \notin {"activate", "fundProposal", "append"}
    BY <2>2 DEF Rebalancing, Informed, Onward
  <2> QED BY <1>1, <2>1, <2>2, <2>3, TurnQuiet
<1>3. CASE SubmitPlans(s)
  <2> DEFINE z == [x EXCEPT !.caller = "submit"]
             y == Reading(z, "advance")
  <2>1. /\ TransitionMission(0, "planning") /\ Becomes(s, y) /\ Holds(s) /\ ~At(s, "activate")
        /\ x.pc \notin Rebalancing
    BY <1>3 DEF SubmitPlans, Holds, Holding, At, Rebalancing
  <2>2. z \in TaskRecord
    BY <1>1 DEF TaskRecord
  <2> HIDE DEF z
  <2>3. y \in TaskRecord /\ y.pc = "mission"
    BY <2>2, ReadingRecord DEF Procedures
  <2> HIDE DEF y
  <2>4. y.pc \notin Rebalancing \union Informed /\ y.pc \notin {"activate", "fundProposal", "append"}
    BY <2>3 DEF Rebalancing, Informed, Onward
  <2>5. mission'.status = "planning" /\ "planning" \notin MissionEnds
    BY <2>1 DEF TransitionMission, MissionEnds
  <2> QED BY <1>1, <2>1, <2>3, <2>4, <2>5, TurnQuiet
<1>4. CASE SubmitCut(s)
  BY <1>1, <1>4, TurnIdles DEF SubmitCut, repositoryVars
<1> QED BY <1>2, <1>3, <1>4

(* What a notifier relies on stays while it goes on without the turn.      *)
LEMMA CommittedStays ==
  ASSUME Shape, Turns, NEW n \in Notifier, NEW y, Becomes(n, y), Committed(n),
         y.pc \in {"settle", "endObjective", "failObjective"},
         y.child = task[n].child, y.snap = task[n].snap,
         UNCHANGED <<commands, accepting, objectives, linked>>
  PROVE  Follows(n)'
<1>1. /\ task'[n] = y /\ n \in Task /\ \A u \in Task \ {n} : task'[u] = task[u]
  BY Names DEF Shape, Becomes
<1>2. /\ OnRow(n) /\ StatusRead(n) = "active" /\ VersionRead(n) = task[n].child[2]
      /\ Settling(task[n].child)
  BY DEF Turns, Follows
<1>3. ~Holding(y) /\ y.pc # "activate"
  BY DEF Holding, Informed, Onward, Rebalancing, Reads
<1>4. /\ NoHolder => NoHolder'
      /\ NobodyActivates => NobodyActivates'
  BY <1>1, <1>3 DEF NoHolder, NobodyActivates, Holds, At
<1>5. Settling(task[n].child)'
  BY <1>1, <1>2, <1>4 DEF Settling, Resting, Open, ActiveNow, Linked
<1>6. OnRow(n)' /\ StatusRead(n)' = "active" /\ VersionRead(n)' = task'[n].child[2]
  BY <1>1, <1>2 DEF OnRow, StatusRead, VersionRead, ObjectiveOf
<1>7. task'[n].pc \notin {"account", "objectives", "child", "endMission"}
  BY <1>1
<1> QED BY <1>5, <1>6, <1>7 DEF Follows, At

LEMMA TurnCommitted ==
  ASSUME Shape, Turns, NEW n \in Notifier, NEW y \in TaskRecord, Becomes(n, y), Committed(n),
         y.pc \in {"settle", "endObjective", "failObjective"},
         y.child = task[n].child, y.snap = task[n].snap,
         UNCHANGED <<journalVars, objectives, linked, pending, mission>>
  PROVE  Turns'
<1>1. Follows(n)'
  BY CommittedStays DEF journalVars
<1>2. /\ ~Holding(y) /\ y.pc # "activate" /\ y.pc \notin Rebalancing \union Informed
      /\ y.pc \notin {"fundProposal", "append", "waits", "reconciles", "terminates"}
  BY DEF Holding, Informed, Onward, Rebalancing, Reads
<1>3. task[n].pc \notin {"idle", "waits", "reconciles", "terminates"} /\ n \in Task
  BY Names DEF Committed
<1> QED BY <1>1, <1>2, <1>3, TurnQuiet

\* from one step of a rebalance to the next
LEMMA TurnRebalances ==
  ASSUME Shape, Turns, NEW n \in Notifier, NEW y \in TaskRecord, Becomes(n, y),
         task[n].pc \in Rebalancing, y.pc \in Rebalancing, y.child = task[n].child,
         UNCHANGED <<journalVars, objectives, linked, pending, mission>>
  PROVE  Turns'
<1>1. /\ y.pc \notin {"activate", "fundProposal", "append", "waits", "reconciles", "terminates"}
      /\ y.pc \notin Informed \union Following
      /\ task[n].pc \notin {"idle", "waits", "reconciles", "terminates", "activate"}
      /\ Holds(n)
  BY DEF Rebalancing, Informed, Onward, Following, Holds, Holding
<1>2. n \in Task /\ task'[n] = y
  BY Names DEF Shape, Becomes
<1>3. Follows(n)'
  BY <1>1, <1>2, FollowsNot
<1> QED BY <1>1, <1>2, <1>3, TurnQuiet DEF At

LEMMA DeclinesTurn ==
  ASSUME Shape, Turns, NEW n \in Notifier,
         RebalanceDeclined(n) \/ PlannerRaises(n) \/ PlannerDeclines(n)
         \/ ChildRefused(n) \/ ChildAnswers(n) \/ AdaptStops(n)
  PROVE  Turns'
<1>1. /\ UNCHANGED <<journalVars, objectives, linked, pending, mission>>
      /\ task[n] \in TaskRecord /\ n \in Task
  BY Names DEF RebalanceDeclined, PlannerRaises, PlannerDeclines, ChildRefused, ChildAnswers,
     AdaptStops, OnlyTask, Forgets, repositoryVars, Shape
<1>2. CASE RebalanceDeclined(n) \/ PlannerRaises(n)
  <2>1. Becomes(n, OnChild(task[n])) /\ task[n].pc \notin Unlooked
    BY <1>2 DEF RebalanceDeclined, PlannerRaises, At, Unlooked
  <2> QED BY <1>1, <2>1, TurnToChild
<1>3. CASE PlannerDeclines(n)
  <2> DEFINE y == [task[n] EXCEPT !.pc = "failMission"]
  <2>1. y \in TaskRecord /\ y.pc = "failMission" /\ y.child = task[n].child
    BY <1>1, GoesRecord DEF Pcs
  <2>2. Becomes(n, y) /\ task[n].pc \in Rebalancing
    BY <1>3 DEF PlannerDeclines, Goes, At, Rebalancing
  <2> HIDE DEF y
  <2> QED BY <1>1, <2>1, <2>2, TurnRebalances DEF Rebalancing
<1>4. CASE ChildAnswers(n)
  <2> DEFINE y == [task[n] EXCEPT !.pc = "settle"]
  <2>1. y \in TaskRecord /\ y.pc = "settle" /\ y.child = task[n].child /\ y.snap = task[n].snap
    BY <1>1, GoesRecord DEF Pcs
  <2>2. Becomes(n, y) /\ Committed(n)
    BY <1>4 DEF ChildAnswers, Goes, At, Committed, Answers, OnRow, StatusRead
  <2> HIDE DEF y
  <2> QED BY <1>1, <2>1, <2>2, TurnCommitted
<1>5. CASE ChildRefused(n) \/ AdaptStops(n)
  BY <1>1, <1>5, TurnIdles DEF ChildRefused, AdaptStops
<1> QED BY <1>2, <1>3, <1>4, <1>5

LEMMA SettlesTurn ==
  ASSUME Shape, Turns, NEW n \in Notifier, RebalanceSettles(n) \/ ChildSettles(n)
  PROVE  Turns'
<1>1. /\ UNCHANGED <<journalVars, objectives, linked, pending, mission>>
      /\ task[n] \in TaskRecord /\ n \in Task
  BY Names DEF RebalanceSettles, ChildSettles, OnlyRows, Forgets, repositoryVars, SaveBudget, Shape
<1>2. CASE RebalanceSettles(n)
  <2>1. PICK y \in TaskRecord : /\ Becomes(n, y) /\ y.pc = "failObjective"
                                /\ y.child = task[n].child /\ y.snap = task[n].snap
    BY <1>2, SettledRecord
  <2>2. Committed(n)
    BY <1>2 DEF RebalanceSettles, At, Committed, RebalanceCandidate, OnRow, StatusRead
  <2> QED BY <1>1, <2>1, <2>2, TurnCommitted
<1>3. CASE ChildSettles(n)
  <2> DEFINE y == [task[n] EXCEPT !.pc = "endObjective"]
  <2>1. y \in TaskRecord /\ y.pc = "endObjective" /\ y.child = task[n].child /\ y.snap = task[n].snap
    BY <1>1, GoesRecord DEF Pcs
  <2>2. Committed(n) /\ (Becomes(n, y) \/ Becomes(n, Idle))
    BY <1>3 DEF ChildSettles, Goes, At, Committed
  <2> HIDE DEF y
  <2> QED BY <1>1, <2>1, <2>2, TurnCommitted, TurnIdles
<1> QED BY <1>2, <1>3

LEMMA PlansTurn ==
  ASSUME Shape, Turns, NEW n \in Notifier,
         (\E amount \in 1..Limit : PlannerProposes(n, amount)) \/ RebalanceReserves(n)
  PROVE  Turns'
<1>1. /\ UNCHANGED <<journalVars, objectives, linked, pending, mission>>
      /\ task[n] \in TaskRecord /\ n \in Task
  BY Names DEF PlannerProposes, RebalanceReserves, OnlyRows, OnlyTask, Forgets, repositoryVars,
     SaveBudget, Shape
<1>2. ASSUME NEW amount \in 1..Limit, PlannerProposes(n, amount) PROVE Turns'
  <2>1. PICK y \in TaskRecord : /\ Becomes(n, y) /\ y.pc = "saveRetry"
                                /\ y.child = task[n].child /\ task[n].pc = "planner"
    BY <1>2, ProposedRecord
  <2> QED BY <1>1, <2>1, TurnRebalances DEF Rebalancing
<1>3. CASE RebalanceReserves(n)
  <2> DEFINE y == [task[n] EXCEPT !.pc = "replace"]
  <2>1. y \in TaskRecord /\ y.pc = "replace" /\ y.child = task[n].child
    BY <1>1, GoesRecord DEF Pcs
  <2>2. Becomes(n, y) /\ task[n].pc \in Rebalancing
    BY <1>3 DEF RebalanceReserves, Goes, At, Rebalancing
  <2> HIDE DEF y
  <2> QED BY <1>1, <2>1, <2>2, TurnRebalances DEF Rebalancing
<1> QED BY <1>2, <1>3

LEMMA EndsTurn ==
  ASSUME Shape, Turns, NEW n \in Notifier,
         RebalanceFailsMission(n) \/ ChildReplayed(n) \/ ChildEndsMission(n)
  PROVE  Turns'
<1>1. PICK target : /\ MissionMoves(n, target, Returns(n, target))
                    /\ UNCHANGED <<journalVars, mishaps>> /\ target # "waiting_evidence"
                    /\ task[n].pc \in {"failMission", "child", "endMission"}
  <2>1. CASE RebalanceFailsMission(n) \/ ChildReplayed(n)
    BY <2>1 DEF RebalanceFailsMission, ChildReplayed, At
  <2>2. CASE ChildEndsMission(n)
    <3>1. Outcome(n) # "waiting_evidence"
      BY DEF Outcome
    <3> QED BY <2>2, <3>1 DEF ChildEndsMission, At
  <2> QED BY <2>1, <2>2
<1>2. /\ n \in Task /\ n \notin Submitter /\ ~At(n, "idle") /\ ~At(n, "activate")
      /\ task[n].pc \notin Unlooked /\ UNCHANGED <<commands, accepting>>
  BY <1>1, Names, CoordinatorAssumption DEF At, Unlooked, journalVars
<1>3. PICK y \in TaskRecord :
        /\ Becomes(n, y) /\ UNCHANGED <<objectives, linked, pending>>
        /\ \/ mission'.status = target /\ target \in MissionSuccessors(mission.status) /\ y = Idle
           \/ mission' = mission /\ (y = Idle \/ y = OnChild(task[n]))
  BY <1>1, <1>2, MissionMoved
<1>4. ASSUME y = Idle PROVE Closing'
  <2>1. ~Holding(Idle) /\ Idle.pc # "activate"
    BY Records DEF Holding, Informed, Onward, Rebalancing, Reads
  <2>2. CASE RebalanceFailsMission(n)
    <3>1. Holds(n)
      BY <2>2 DEF RebalanceFailsMission, At, Holds, Holding, Rebalancing
    <3> QED BY <1>2, <1>3, <1>4, <2>1, <3>1, HolderLeaves
  <2>3. CASE ChildReplayed(n) \/ ChildEndsMission(n)
    <3>1. Closing
      BY <2>3 DEF ChildReplayed, ChildEndsMission, Turns, Follows
    <3>2. task'[n] = Idle /\ \A u \in Task \ {n} : task'[u] = task[u]
      BY <1>2, <1>3, <1>4 DEF Shape, Becomes
    <3>3. (NoHolder => NoHolder') /\ (NobodyActivates => NobodyActivates')
      BY <2>1, <3>2 DEF NoHolder, NobodyActivates, Holds, At
    <3> QED BY <1>2, <1>3, <3>1, <3>3 DEF Closing, Resting, Open, ActiveNow
  <2> QED BY <2>2, <2>3
<1>5. mission'.status = "absent" => mission.status = "absent"
  BY <1>3, MissionTargets
<1>6. mission'.status \in MissionEnds => mission.status \in MissionEnds \/ Closing'
  BY <1>3, <1>4
<1> QED BY <1>1, <1>2, <1>3, <1>5, <1>6, TurnReturns

LEMMA AdaptsTurn ==
  ASSUME Shape, Turns, NEW n \in Notifier, AdaptDecides(n) \/ VerifyCompletes(n)
  PROVE  Turns'
<1> DEFINE x == task[n]
<1>1. /\ UNCHANGED <<journalVars, objectives, linked, pending>> /\ x \in TaskRecord /\ n \in Task
      /\ Holds(n) /\ ~At(n, "activate") /\ UNCHANGED commands /\ x.pc \notin Rebalancing
      /\ x.pc \notin {"idle", "waits", "reconciles", "terminates"}
  BY Names DEF AdaptDecides, VerifyCompletes, OnlyTask, OnlyRows, Forgets, repositoryVars, journalVars,
     TransitionMission, Shape, Holds, Holding, Informed, Onward, At, Rebalancing
<1>2. CASE AdaptDecides(n)
  <2>1. PICK p \in {"verify", "explore"} : Becomes(n, Reading(x, p))
    BY <1>2 DEF AdaptDecides, Calls
  <2> DEFINE y == Reading(x, p)
  <2>2. /\ y \in TaskRecord /\ y.pc = "mission" /\ y.child = x.child /\ UNCHANGED mission
        /\ Becomes(n, y)
    BY <1>1, <1>2, <2>1, ReadingRecord DEF Procedures, AdaptDecides, OnlyTask, repositoryVars
  <2> HIDE DEF y
  <2>3. y.pc \notin Rebalancing \union Informed \union Following
        /\ y.pc \notin {"activate", "fundProposal", "append", "waits", "reconciles", "terminates"}
    BY <2>2 DEF Rebalancing, Informed, Onward, Following
  <2>4. Follows(n)'
    BY <1>1, <2>2, <2>3, FollowsNot DEF Shape, Becomes
  <2> QED BY <1>1, <2>2, <2>3, <2>4, TurnQuiet
<1>3. CASE VerifyCompletes(n)
  <2>1. /\ Becomes(n, Idle)
        /\ UNCHANGED mission \/ mission'.status = "completed"
    BY <1>3 DEF VerifyCompletes, TransitionMission, repositoryVars
  <2>2. ~Holding(Idle) /\ Idle.pc # "activate"
    BY Records DEF Holding, Informed, Onward, Rebalancing, Reads
  <2>3. Closing'
    BY <1>1, <2>1, <2>2, HolderLeaves
  <2>4. mission'.status = "absent" => mission.status = "absent"
    BY <2>1
  <2> QED BY <1>1, <2>1, <2>3, <2>4, TurnIdles
<1> QED BY <1>2, <1>3

LEMMA ExploresTurn ==
  ASSUME Shape, Turns, NEW n \in Notifier, ExploreProposes(n) \/ ExploreFunds(n)
  PROVE  Turns'
<1> DEFINE x == task[n]
<1>1. /\ UNCHANGED <<journalVars, objectives, linked, pending, mission>> /\ n \in Task
      /\ x \in TaskRecord /\ Holds(n) /\ ~At(n, "activate") /\ x.pc \notin Rebalancing
      /\ x.pc \notin {"idle", "waits", "reconciles", "terminates"} /\ Knows(n)
      /\ x.pc \in {"explore", "fundProposal"}
  BY Names DEF ExploreProposes, ExploreFunds, OnlyRows, Forgets, repositoryVars, SaveProposal,
     SaveBudget, Shape, Holds, Holding, Informed, Onward, At, Rebalancing, Turns
<1>2. x.snap.objectives = objectives /\ Unproposed(x.snap) # {}
  BY <1>1 DEF Knows, Informed, Onward, ExploreProposes, ExploreFunds, At
<1>3. PICK p \in {"fundProposal", "append"} : Becomes(n, Idle) \/ Becomes(n, [x EXCEPT !.pc = p])
  BY DEF ExploreProposes, ExploreFunds, Goes
<1> DEFINE y == [x EXCEPT !.pc = p]
<1>4. y \in TaskRecord /\ y.pc = p /\ y.child = x.child /\ y.snap = x.snap
  BY <1>1, GoesRecord DEF Pcs
<1>5. Becomes(n, Idle) \/ Becomes(n, y)
  BY <1>3
<1> HIDE DEF y
<1>6. CASE Becomes(n, Idle)
  BY <1>1, <1>6, TurnIdles
<1>7. CASE Becomes(n, y)
  <2>1. y.pc \notin Rebalancing \union Following
        /\ y.pc \notin {"activate", "waits", "reconciles", "terminates"}
    BY <1>4 DEF Rebalancing, Following
  <2>2. Follows(n)'
    BY <1>1, <1>7, <2>1, FollowsNot DEF Shape, Becomes
  <2> QED BY <1>1, <1>2, <1>4, <1>7, <2>1, <2>2, TurnQuiet
<1> QED BY <1>5, <1>6, <1>7

(* The new envelope touches only the failed objective.                     *)
LEMMA ReplacesTurn ==
  ASSUME Shape, Turns, NEW n \in Notifier, RebalanceReplaces(n)
  PROVE  Turns'
<1> DEFINE x == task[n]
           o == ObjectiveOf(n)
           y == [x EXCEPT !.pc = "rearm"]
<1>1. /\ UNCHANGED <<journalVars, linked, pending, mission, commands, accepting>> /\ n \in Task
      /\ x \in TaskRecord /\ Holds(n) /\ ~At(n, "activate") /\ x.pc \in Rebalancing
      /\ x.pc \notin Unlooked /\ ~At(n, "idle") /\ Knows(n)
  BY Names DEF RebalanceReplaces, OnlyRows, Forgets, repositoryVars, journalVars,
     ReplaceObjectiveBudget, Shape, Holds, Holding, At, Rebalancing, Unlooked, Turns
<1>2. o \in Objective /\ o \in Lost /\ VersionRead(n) \in Nat
  BY <1>1, AboutChild DEF Knows
<1>3. CASE ~MayRetry(o, VersionRead(n) + 1)
  <2>1. UNCHANGED objectives /\ Becomes(n, OnChild(x))
    BY <1>3 DEF RebalanceReplaces, repositoryVars
  <2> QED BY <1>1, <2>1, TurnToChild
<1>4. CASE MayRetry(o, VersionRead(n) + 1)
  <2> DEFINE v == VersionRead(n) + 1
             amount == x.account.reserved[o]
  <2>1. ReplaceObjectiveBudget(o, v, amount) /\ Becomes(n, y)
    BY <1>4 DEF RebalanceReplaces, Goes
  <2>2. y \in TaskRecord /\ y.pc = "rearm" /\ y.child = x.child
    BY <1>1, GoesRecord DEF Pcs
  <2>3. v \in Nat
    BY <1>2
  <2> HIDE DEF y, v, amount
  <2>4. \A p \in Objective :
          \/ objectives'[p] = objectives[p]
          \/ /\ p \in Lost /\ objectives'[p].status = objectives[p].status
             /\ linked[p] <= objectives'[p].version
    <3>1. /\ objectives[o] \in [status : ObjectiveStatuses, version : Nat, budget : Nat]
          /\ objectives \in [Objective -> [status : ObjectiveStatuses, version : Nat, budget : Nat]]
          /\ linked[o] \in Nat
      BY <1>2 DEF Shape, TypeOK, RepositoryTypeOK
    <3>2. objectives[o].version = v /\ linked[o] <= v
      BY <1>2, <2>1 DEF ReplaceObjectiveBudget, MayRetry, Turns, LinksFit
    <3>3. objectives' = [objectives EXCEPT ![o].budget = amount, ![o].version = v + 1]
      BY <2>1 DEF ReplaceObjectiveBudget
    <3>4. /\ \A p \in Objective \ {o} : objectives'[p] = objectives[p]
          /\ objectives'[o].status = objectives[o].status /\ objectives'[o].version = v + 1
      BY <1>2, <3>1, <3>3
    <3>5. linked[o] <= v + 1
      BY <2>3, <3>1, <3>2
    <3> QED BY <1>2, <3>4, <3>5
  <2>5. y.pc \notin Informed \union Following \union {"idle", "activate", "fundProposal", "append", "waits", "reconciles", "terminates"}
    BY <2>2 DEF Informed, Onward, Following
  <2>6. task'[n] = y /\ \A u \in Task \ {n} : task'[u] = task[u]
    BY <1>1, <2>1 DEF Shape, Becomes
  <2>7. Follows(n)'
    BY <2>5, <2>6, FollowsNot
  <2>8. /\ At("gateway", "idle")' <=> At("gateway", "idle")
        /\ task'["gateway"].child = task["gateway"].child
        /\ n # "gateway" => task'["gateway"] = task["gateway"]
    BY <1>1, <2>2, <2>5, <2>6, Names DEF At
  <2>9. \A c \in InHand' : c \in InHand
    BY <1>1, <2>8 DEF InHand
  <2>10. GatewayTerminated'
    <3>1. n = "gateway" => ~accepting
      BY <1>1, GatewayFollows
    <3>2. GatewayTerminated
      BY DEF Turns
    <3> QED BY <1>1, <2>8, <3>1, <3>2 DEF GatewayTerminated, At
  <2>11. /\ Aged
         /\ \A c \in Execute : commands'[c].state # "absent" => Present(c)
         /\ \A c \in Child : commands'[c].state \in {"queued", "running"}
                               => commands[c].state \in {"queued", "running"}
    BY <1>1, NothingAges DEF Present
  <2>12. y.pc \in Rebalancing
    BY <2>2 DEF Rebalancing
  <2> QED BY <1>1, <2>1, <2>2, <2>4, <2>5, <2>7, <2>9, <2>10, <2>11, <2>12, TurnStays
<1> QED BY <1>3, <1>4

(* The steps of the worker and the gateway about rows of the journal.      *)
LEMMA TurnUnlooked ==
  ASSUME Shape, Turns, NEW n \in Notifier, NEW y \in TaskRecord, Becomes(n, y),
         y.pc \in Unlooked, UNCHANGED <<objectives, linked, mission>>, Aged,
         \A c \in Execute : commands'[c].state # "absent" => Present(c),
         \A c \in Child : commands'[c].state \in {"queued", "running"}
                            => commands[c].state \in {"queued", "running"},
         accepting' => accepting, GatewayTerminated',
         \A c \in InHand' : \/ c \in InHand
                            \/ c \in Child /\ Present(c) /\ commands[c].state # "failed"
  PROVE  Turns'
<1>1. /\ ~Holding(y) /\ y.pc # "activate"
      /\ y.pc \notin Rebalancing \union Informed \union Following \union {"fundProposal", "append"}
  BY DEF Unlooked, Holding, Informed, Onward, Rebalancing, Reads, Following
<1>2. n \in Task /\ task'[n] = y
  BY Names DEF Shape, Becomes
<1>3. Follows(n)'
  BY <1>1, <1>2, FollowsNot
<1> QED BY <1>1, <1>2, <1>3, TurnStays

LEMMA WorkersTurn ==
  ASSUME Shape, Turns,
         \/ \E c \in Id : WorkerExpires(c) \/ WorkerStarts(c)
         \/ \E outcome \in WorkerOutcomes, actual \in Usage : WorkerEnds(outcome, actual)
  PROVE  Turns'
<1> DEFINE x == task["worker"]
<1>1. /\ x \in TaskRecord /\ "worker" \in Notifier
      /\ UNCHANGED <<repositoryVars, pending, objectives, linked, mission>>
  BY Names DEF Shape, WorkerExpires, WorkerStarts, WorkerEnds, Rows, repositoryVars, Notifier
<1>2. PICK c \in Child, y \in TaskRecord, target \in States \ {"queued"} :
        /\ commands[c].state \in {"queued", "running"} /\ c \in Id
        /\ Transition(c, commands[c].version, target)
        /\ Becomes("worker", y) /\ y.pc \in Unlooked
  <2>1. ASSUME NEW c \in Id, WorkerExpires(c) \/ WorkerStarts(c)
        PROVE  /\ c \in Child /\ commands[c].state = "queued"
               /\ \E y \in TaskRecord, target \in {"failed", "running"} :
                     /\ Transition(c, commands[c].version, target)
                     /\ Becomes("worker", y) /\ y.pc \in Unlooked
    <3>1. c \in Queued
      BY <2>1 DEF WorkerExpires, WorkerStarts, Eligible
    <3>2. c \in Child
      BY <3>1, Executed DEF Turns
    <3>3. CASE WorkerExpires(c)
      <4>1. /\ Becomes("worker", x) /\ x.pc \in Unlooked
            /\ Transition(c, commands[c].version, "failed")
        BY <3>3 DEF WorkerExpires, Becomes, Shape, At, Unlooked
      <4> QED BY <1>1, <3>1, <3>2, <4>1 DEF Queued
    <3>4. CASE WorkerStarts(c)
      <4> DEFINE y == [Idle EXCEPT !.pc = "runs", !.child = c]
      <4>1. y \in TaskRecord /\ y.pc \in Unlooked
        BY <3>2, StartRecords DEF Unlooked
      <4>2. Becomes("worker", y) /\ Transition(c, commands[c].version, "running")
        BY <3>4 DEF WorkerStarts
      <4> HIDE DEF y
      <4> QED BY <3>1, <3>2, <4>1, <4>2 DEF Queued
    <3> QED BY <2>1, <3>3, <3>4
  <2>2. ASSUME NEW outcome \in WorkerOutcomes, NEW actual \in Usage, WorkerEnds(outcome, actual)
        PROVE  /\ x.child \in Child /\ commands[x.child].state = "running"
               /\ \E y \in TaskRecord :
                     /\ Transition(x.child, commands[x.child].version, outcome)
                     /\ Becomes("worker", y) /\ y.pc \in Unlooked
    <3> DEFINE y == [x EXCEPT !.pc = "looks"]
    <3>1. y \in TaskRecord /\ y.pc \in Unlooked
      BY <1>1, GoesRecord DEF Pcs, Unlooked
    <3>2. /\ Becomes("worker", y) /\ At("worker", "runs")
          /\ Transition(x.child, commands[x.child].version, outcome)
      BY <2>2 DEF WorkerEnds, Goes
    <3>3. x.child \in Child /\ commands[x.child].state = "running"
      BY <1>1, <3>2, AboutChild DEF At, Shape, Owned
    <3> HIDE DEF y
    <3> QED BY <3>1, <3>2, <3>3
  <2>3. Child \subseteq Id /\ {"failed", "running"} \union WorkerOutcomes \subseteq States \ {"queued"}
    BY Names, StateMembers DEF WorkerOutcomes, States, Terminal, Settled, RunEnds, UnstartedEnds
  <2> QED BY <2>1, <2>2, <2>3
<1>3. /\ Aged /\ UNCHANGED accepting /\ \A d \in Id \ {c} : commands'[d] = commands[d]
  BY <1>2, TransitionAged DEF Shape, TypeOK
<1>4. /\ \A d \in Execute : commands'[d].state # "absent" => Present(d)
      /\ \A d \in Child : commands'[d].state \in {"queued", "running"}
                            => commands[d].state \in {"queued", "running"}
  BY <1>2, <1>3, Names DEF Present, Execute
<1>5. task'["gateway"] = task["gateway"]
  BY <1>2, Names DEF Shape, Becomes
<1>6. \A d \in InHand' : d \in InHand
  BY <1>1, <1>5 DEF InHand, At
<1>7. GatewayTerminated'
  <2>1. GatewayTerminated
    BY DEF Turns
  <2>2. ~At("gateway", "idle") => task["gateway"].child \in Id
    BY Names, AboutChild DEF Notifier
  <2> QED BY <1>1, <1>2, <1>3, <1>5, <2>1, <2>2 DEF GatewayTerminated, At
<1> QED BY <1>1, <1>2, <1>3, <1>4, <1>6, <1>7, TurnUnlooked

LEMMA GatewayTurn ==
  ASSUME Shape, Turns,
         \/ GatewayWaits \/ GatewayReconciles \/ GatewayCancels \/ GatewayNotifies
         \/ \E outcome \in WorkerOutcomes : GatewaySettles(outcome)
         \/ \E c \in Child : GatewayTerminates(c)
  PROVE  Turns'
<1> DEFINE x == task["gateway"]
<1>1. /\ x \in TaskRecord /\ "gateway" \in Notifier /\ GatewayTerminated
      /\ UNCHANGED <<repositoryVars, objectives, linked, mission>>
  BY Names DEF Shape, GatewayWaits, GatewayReconciles, GatewayCancels, GatewayNotifies,
     GatewaySettles, GatewayTerminates, GatewayMoves, repositoryVars, Notifier, Turns
<1>2. CASE GatewayWaits
  <2>1. /\ Becomes("gateway", Idle) /\ UNCHANGED <<commands, accepting, pending>> /\ ~accepting
        /\ task'["gateway"] = Idle /\ Idle.pc = "idle"
    BY <1>1, <1>2, Names, Records DEF GatewayWaits, journalVars, GatewayTerminated, At, Shape, Becomes
  <2>2. GatewayTerminated' /\ \A d \in InHand' : d \in InHand
    BY <2>1 DEF GatewayTerminated, InHand, At
  <2> QED BY <1>1, <2>1, <2>2, Records, NothingAges, TurnUnlooked DEF Unlooked, Present
<1>3. CASE GatewayNotifies
  <2> DEFINE c == Head(pending)
             y == [Idle EXCEPT !.pc = "looks", !.child = c]
  <2>1. /\ pending # <<>> /\ pending' = Tail(pending) /\ Becomes("gateway", y)
        /\ UNCHANGED <<commands, accepting>> /\ ~accepting
    BY <1>1, <1>3 DEF GatewayNotifies, journalVars, GatewayTerminated
  <2>2. /\ pending \in Seq(Child) /\ 1 \in DOMAIN pending /\ c = pending[1]
        /\ \A i \in DOMAIN pending' : i + 1 \in DOMAIN pending /\ pending'[i] = pending[i + 1]
    BY <2>1 DEF Shape, TypeOK
  <2>6. c \in Child
    BY <2>2
  <2>3. y \in TaskRecord /\ y.pc = "looks" /\ y.child = c
    BY <2>6, StartRecords
  <2> HIDE DEF y, c
  <2>4. task'["gateway"] = y
    BY <2>1, Names DEF Shape, Becomes
  <2>5. GatewayTerminated' /\ \A d \in InHand' : d \in InHand
    BY <2>1, <2>2, <2>3, <2>4 DEF GatewayTerminated, InHand, At
  <2> QED BY <1>1, <2>1, <2>3, <2>5, NothingAges, TurnUnlooked DEF Unlooked, Present
<1>4. ASSUME NEW c \in Child, NEW target, NEW y \in TaskRecord, Becomes("gateway", y),
             Transition(c, commands[c].version, target), UNCHANGED pending,
             commands[c].state \in {"blocked_unknown", "reconciling"}, target # "running",
             y.pc \in Unlooked, y = Idle \/ y.child = c, GatewayTerminated'
      PROVE  Turns'
  <2>1. /\ c \in Id /\ Aged /\ UNCHANGED accepting /\ commands'[c].state = target
        /\ target # "queued" /\ \A d \in Id \ {c} : commands'[d] = commands[d]
    BY <1>4, Names, TransitionAged DEF Shape, TypeOK
  <2>2. /\ \A d \in Execute : commands'[d].state # "absent" => Present(d)
        /\ \A d \in Child : commands'[d].state \in {"queued", "running"}
                              => commands[d].state \in {"queued", "running"}
    BY <1>4, <2>1, Names DEF Present, Execute
  <2>3. task'["gateway"] = y /\ Idle.pc = "idle"
    BY <1>4, Names, Records DEF Shape, Becomes
  <2>4. \A d \in InHand' : d \in InHand \/ d = c
    BY <1>4, <2>3 DEF InHand, At
  <2>5. Present(c) /\ commands[c].state # "failed"
    BY <1>4 DEF Present
  <2> QED BY <1>1, <1>4, <2>1, <2>2, <2>4, <2>5, TurnUnlooked
<1>5. CASE GatewayReconciles \/ GatewayCancels \/ \E outcome \in WorkerOutcomes : GatewaySettles(outcome)
  <2> DEFINE c == x.child
  <2>1. /\ x.pc \in {"waits", "reconciles", "terminates"} /\ ~At("gateway", "idle") /\ UNCHANGED pending
    BY <1>5 DEF GatewayReconciles, GatewayCancels, GatewaySettles, At
  <2>2. c \in Child /\ c \in Id
    BY <1>1, <2>1, AboutChild, Names
  <2>3. CASE GatewayReconciles
    <3> DEFINE y == [x EXCEPT !.pc = "reconciles"]
    <3>1. /\ Becomes("gateway", y) /\ Transition(c, commands[c].version, "reconciling")
          /\ commands[c].state = "blocked_unknown" /\ ~accepting
      BY <1>1, <2>3 DEF GatewayReconciles, Goes, GatewayTerminated, At
    <3>2. y \in TaskRecord /\ y.pc = "reconciles" /\ y.child = c
      BY <1>1, GoesRecord DEF Pcs
    <3>3. GatewayTerminated'
      BY <3>1 DEF Transition, GatewayTerminated
    <3> HIDE DEF y, c
    <3> QED BY <1>4, <2>1, <2>2, <3>1, <3>2, <3>3 DEF Unlooked
  <2>4. CASE GatewayCancels
    <3> DEFINE y == [x EXCEPT !.pc = "looks"]
    <3>1. /\ Becomes("gateway", y) /\ Transition(c, commands[c].version, "cancelled")
          /\ commands[c].state = "reconciling"
      BY <2>4 DEF GatewayCancels, Goes, Shape, Owned, At
    <3>2. y \in TaskRecord /\ y.pc = "looks" /\ y.child = c
      BY <1>1, GoesRecord DEF Pcs
    <3> HIDE DEF y
    <3>3. /\ commands'[c].state = "cancelled" /\ task'["gateway"] = y /\ UNCHANGED accepting
      BY <2>2, <3>1, Names, TransitionAged DEF Shape, TypeOK, Becomes
    <3>4. GatewayTerminated'
      BY <1>1, <2>1, <3>2, <3>3 DEF GatewayTerminated, At
    <3> HIDE DEF c
    <3> QED BY <1>4, <2>1, <2>2, <3>1, <3>2, <3>4 DEF Unlooked
  <2>5. ASSUME NEW outcome \in WorkerOutcomes, GatewaySettles(outcome) PROVE Turns'
    <3>1. /\ Becomes("gateway", Idle) /\ Transition(c, commands[c].version, outcome)
          /\ commands[c].state = "reconciling" /\ ~accepting /\ outcome # "running"
      BY <1>1, <2>5 DEF GatewaySettles, Shape, Owned, At, GatewayTerminated, WorkerOutcomes
    <3>2. GatewayTerminated'
      BY <3>1 DEF Transition, GatewayTerminated
    <3> HIDE DEF c
    <3> QED BY <1>4, <2>1, <2>2, <3>1, <3>2, Records DEF Unlooked
  <2> QED BY <1>5, <2>3, <2>4, <2>5
<1>6. ASSUME NEW c \in Child, GatewayTerminates(c) PROVE Turns'
  <2> DEFINE y == [Idle EXCEPT !.pc = "terminates", !.child = c]
  <2>1. /\ Becomes("gateway", y) /\ Transition(c, commands[c].version, "reconciling")
        /\ commands[c].state = "blocked_unknown" /\ UNCHANGED pending /\ pending = <<>>
    BY <1>6 DEF GatewayTerminates, GatewayFree
  <2>2. y \in TaskRecord /\ y.pc = "terminates" /\ y.child = c
    BY StartRecords
  <2> HIDE DEF y
  <2>3. /\ commands'[c].state = "reconciling" /\ task'["gateway"] = y
    BY <2>1, Names, TransitionAged DEF Shape, TypeOK, Becomes
  <2>4. GatewayTerminated'
    BY <2>1, <2>2, <2>3 DEF GatewayTerminated, At
  <2> QED BY <1>4, <2>1, <2>2, <2>4 DEF Unlooked
<1> QED BY <1>2, <1>3, <1>5, <1>6

LEMMA StopsTurn ==
  ASSUME Shape, Turns, NEW s \in Stop, NEW target \in Child \union {NoId},
         GatewayStops(s, target)
  PROVE  Turns'
<1> DEFINE y == IF target = NoId THEN Idle ELSE [Idle EXCEPT !.pc = "waits", !.child = target]
<1>1. /\ ApplyStopBarrier(s, target) /\ Becomes("gateway", y) /\ "gateway" \in Notifier
      /\ UNCHANGED <<objectives, linked, mission>>
      /\ \A i \in DOMAIN pending' : /\ pending'[i] \in Child /\ Present(pending'[i])
                                    /\ commands[pending'[i]].state # "failed"
  BY StopsShape DEF GatewayStops, GatewayMoves, repositoryVars, Notifier, Turns
<1>2. /\ Aged /\ accepting' = FALSE
      /\ \A c \in Execute : commands'[c].state =
              IF commands[c].state = "queued" THEN "cancelled_by_stop" ELSE commands[c].state
  BY <1>1, StopAged DEF Shape, TypeOK
<1>3. /\ y \in TaskRecord /\ y.pc \in Unlooked
      /\ y.pc # "idle" => y.child \in Child /\ Present(y.child) /\ commands[y.child].state # "failed"
  <2>1. CASE target = NoId
    BY <2>1, Records DEF Unlooked
  <2>2. CASE target # NoId
    <3> DEFINE z == [Idle EXCEPT !.pc = "waits", !.child = target]
    <3>1. z \in TaskRecord /\ z.pc = "waits" /\ z.child = target
      BY <2>2, StartRecords
    <3>2. target \in Active
      BY <1>1, <2>2 DEF ApplyStopBarrier, BarrierTargets
    <3>3. target \in Child /\ Present(target) /\ commands[target].state # "failed"
      BY <2>2, <3>2, Names, Executed DEF Turns
    <3>4. y = z
      BY <2>2
    <3> HIDE DEF y, z
    <3> QED BY <3>1, <3>3, <3>4 DEF Unlooked
  <2> QED BY <2>1, <2>2
<1>4. task'["gateway"] = y
  BY <1>1, Names DEF Shape, Becomes
<1> HIDE DEF y
<1>5. \A c \in InHand' : c \in Child /\ Present(c) /\ commands[c].state # "failed"
  BY <1>1, <1>3, <1>4 DEF InHand, At
<1>6. /\ \A c \in Execute : commands'[c].state # "absent" => Present(c)
      /\ \A c \in Child : commands'[c].state \in {"queued", "running"}
                            => commands[c].state \in {"queued", "running"}
  BY <1>2, Names DEF Present
<1>7. GatewayTerminated'
  BY <1>2 DEF GatewayTerminated
<1> QED BY <1>1, <1>2, <1>3, <1>5, <1>6, <1>7, TurnUnlooked

LEMMA TurnSame ==
  ASSUME Turns, UNCHANGED <<commands, accepting, objectives, linked, mission, task, pending>>
  PROVE  Turns'
<1>1. /\ ActiveNow' = ActiveNow /\ PendingNow' = PendingNow /\ Lost' = Lost /\ Open' = Open
      /\ InHand' = InHand
      /\ \A t : (Holds(t)' <=> Holds(t)) /\ \A p : (At(t, p)' <=> At(t, p))
  BY DEF ActiveNow, PendingNow, Lost, Open, InHand, Holds, At
<1>2. /\ (Stuck' <=> Stuck) /\ (Resting' <=> Resting) /\ (NobodyActivates' <=> NobodyActivates)
      /\ (Closing' <=> Closing) /\ (NoHolder' <=> NoHolder)
  BY <1>1 DEF Stuck, Resting, NobodyActivates, Closing, NoHolder
<1>3. OneTurn' /\ TurnOrActive' /\ OneActive'
  BY <1>1 DEF Turns, OneTurn, TurnOrActive, OneActive
<1>4. LinksFit'
  BY <1>1 DEF Turns, LinksFit, Linked, Present
<1>5. OpenIsKnown' /\ Versions'
  <2>1. \A t, c : Chooses(t, c)' <=> Chooses(t, c)
    BY DEF Chooses, At
  <2>2. OpenIsKnown'
    BY <1>1, <1>2, <2>1 DEF Turns, OpenIsKnown, Linked
  <2>3. Versions'
    BY <1>1, <1>2, <2>1 DEF Turns, Versions, Present
  <2> QED BY <2>2, <2>3
<1>6. LostIsLast' /\ GatewayTerminated' /\ NoEcho'
  BY <1>1 DEF Turns, LostIsLast, GatewayTerminated, NoEcho, At
<1>7. SubmitterFirst' /\ NotYet' /\ EndedIsClosing'
  BY <1>1, <1>2 DEF Turns, SubmitterFirst, NotYet, EndedIsClosing
<1>8. \A t \in Task : Knows(t)'
  BY <1>1 DEF Turns, Knows, Present, ObjectiveOf
<1>9. \A n \in Notifier : Follows(n)'
  <2> SUFFICES ASSUME NEW n \in Notifier PROVE Follows(n)'
    OBVIOUS
  <2>1. Settling(task[n].child)' <=> Settling(task[n].child)
    BY <1>1, <1>2 DEF Settling, Linked
  <2>2. /\ Committed(n)' <=> Committed(n)
        /\ OnRow(n)' <=> OnRow(n)
        /\ ReadsChild(n)' <=> ReadsChild(n)
        /\ Replayed(n)' <=> Replayed(n)
        /\ StatusRead(n)' = StatusRead(n) /\ VersionRead(n)' = VersionRead(n)
        /\ ObjectiveOf(n)' = ObjectiveOf(n)
    BY DEF Committed, OnRow, ReadsChild, Replayed, StatusRead, VersionRead, ObjectiveOf
  <2> QED BY <1>1, <1>2, <2>1, <2>2 DEF Turns, Follows
<1> QED BY <1>3, <1>4, <1>5, <1>6, <1>7, <1>8, <1>9 DEF Turns

(* The first state, the states a process starts in, and the first step.    *)
Nobody ==
  /\ OneActive /\ LinksFit
  /\ \A t \in Task : task[t] = Idle
  /\ pending = <<>> /\ Open = {}
  /\ Lost # {} \/ mission.status \in MissionEnds => ActiveNow = {}
  /\ \A c \in Execute : Present(c) => c \in Child
  /\ \A c \in Child : Present(c) =>
       /\ c[2] >= 1
       /\ c[2] < linked[c[1]] => commands[c].state = "failed"
       /\ c[2] = linked[c[1]] /\ c[1] \in PendingNow => commands[c].state = "failed"
       /\ c[2] > linked[c[1]] => /\ c[1] \in PendingNow /\ ActiveNow = {}
                                 /\ c[2] = objectives[c[1]].version + 1
  /\ mission.status = "absent" =>
       \A o \in Objective : linked[o] = 0 /\ objectives[o].status = "absent"

LEMMA TurnOfNobody == Nobody => Turns
<1> SUFFICES ASSUME Nobody PROVE Turns
  OBVIOUS
<1>1. \A t \in Task : task[t].pc = "idle" /\ ~Holds(t)
  BY Records DEF Nobody, Holds, Holding, Informed, Onward, Rebalancing, Reads
<1>2. NoHolder /\ NobodyActivates /\ (ActiveNow = {} => Stuck) /\ (ActiveNow = {} => Closing)
  BY <1>1 DEF Nobody, NoHolder, NobodyActivates, Stuck, Closing, Resting, At
<1>3. OneTurn /\ TurnOrActive /\ OpenIsKnown /\ SubmitterFirst /\ NotYet
  BY <1>1, <1>2, Names DEF Nobody, OneTurn, TurnOrActive, OpenIsKnown, SubmitterFirst, NotYet
<1>4. Versions
  BY <1>2 DEF Nobody, Versions
<1>5. LostIsLast /\ EndedIsClosing
  BY <1>1, <1>2 DEF Nobody, LostIsLast, EndedIsClosing
<1>6. GatewayTerminated /\ NoEcho
  BY <1>1, Names DEF Nobody, GatewayTerminated, NoEcho, InHand, At
<1>7. \A t \in Task : Knows(t)
  BY <1>1 DEF Knows, At, Informed, Onward, Rebalancing
<1>8. \A n \in Notifier : Follows(n)
  BY <1>1, Names DEF Follows, Committed, At
<1> QED BY <1>3, <1>4, <1>5, <1>6, <1>7, <1>8 DEF Turns, Nobody

LEMMA InitTurn ==
  ASSUME Init
  PROVE  Turns
<1>1. /\ \A t \in Task : task[t] = Idle
      /\ pending = <<>> /\ mission.status = "absent"
      /\ \A c \in Id : ~Present(c) /\ commands[c].state = "absent"
      /\ \A o \in Objective : /\ linked[o] = 0 /\ objectives[o].status = "absent"
                              /\ objectives[o].version = 0
  BY DEF Init, JournalInit, RepositoryInit, AbsentRow, Present
<1>2. ActiveNow = {} /\ PendingNow = {} /\ Lost = {}
  BY <1>1 DEF ActiveNow, PendingNow, Lost
<1>3. Open = {} /\ Execute \subseteq Id /\ Child \subseteq Id
  BY <1>1, Names DEF Open, Execute
<1>4. OneActive /\ LinksFit
  BY <1>1, <1>2 DEF OneActive, LinksFit
<1> QED BY <1>1, <1>2, <1>3, <1>4, TurnOfNobody DEF Nobody, MissionEnds

LEMMA RestartTurn ==
  ASSUME Shape, Turns, Restart
  PROVE  Turns'
<1>1. /\ Aged /\ \A t \in Task : task'[t] = Idle
      /\ pending' = <<>> /\ UNCHANGED <<objectives, linked, mission>>
      /\ \A c \in Id : commands'[c].state = CASE commands[c].state = "queued" -> "interrupted_before_start"
                            [] commands[c].state \in {"running", "reconciling"} -> "blocked_unknown"
                            [] OTHER -> commands[c].state
  BY RestartAged DEF repositoryVars
<1>2. /\ \A c \in Id : /\ (Present(c)' <=> Present(c))
                       /\ commands[c].state = "failed" => commands'[c].state = "failed"
                       /\ commands'[c].state \notin {"queued", "running"}
  BY <1>1 DEF Present
<1>3. ActiveNow' = ActiveNow /\ PendingNow' = PendingNow /\ Lost' = Lost /\ Open' = {}
  BY <1>1, <1>2, Names DEF ActiveNow, PendingNow, Lost, Open
<1>4. OneActive' /\ LinksFit'
  <2>1. OneActive /\ LinksFit
    BY DEF Turns
  <2>2. \A o \in Objective : linked[o] # 0 => Linked(o)' = Linked(o) /\ Linked(o) \in Id
    BY <1>1, <2>1, Names DEF Linked, LinksFit
  <2> QED BY <1>1, <1>2, <1>3, <2>1, <2>2 DEF OneActive, LinksFit
<1>5. /\ Lost # {} => ActiveNow = {}
      /\ mission.status \in MissionEnds => ActiveNow = {}
      /\ mission.status = "absent" =>
           \A o \in Objective : linked[o] = 0 /\ objectives[o].status = "absent"
  BY DEF Turns, LostIsLast, EndedIsClosing, Closing, NotYet
<1>6. \A c \in Execute : Present(c)' => c \in Child
  BY <1>2 DEF Turns, Versions, Execute
<1>7. ASSUME NEW c \in Child, Present(c)'
      PROVE  /\ c[2] >= 1
             /\ c[2] < linked[c[1]] => commands'[c].state = "failed"
             /\ c[2] = linked[c[1]] /\ c[1] \in PendingNow => commands'[c].state = "failed"
             /\ c[2] > linked[c[1]] => /\ c[1] \in PendingNow /\ ActiveNow = {}
                                       /\ c[2] = objectives[c[1]].version + 1
  <2>1. c \in Id /\ Present(c)
    BY <1>2, <1>7, Names
  <2>2. \A t \in Task : Chooses(t, c) => ActiveNow = {}
    BY DEF Turns, TurnOrActive, Chooses, At, Holds, Holding, Informed
  <2>3. Stuck => ActiveNow = {}
    BY DEF Stuck
  <2>4. /\ c[2] >= 1
        /\ c[2] < linked[c[1]] => commands[c].state = "failed"
        /\ c[2] = linked[c[1]] /\ c[1] \in PendingNow => commands[c].state = "failed"
        /\ c[2] > linked[c[1]] => /\ c[1] \in PendingNow
                                  /\ c[2] = objectives[c[1]].version + 1
                                  /\ (\E t \in Task : Chooses(t, c)) \/ Stuck
    BY <2>1 DEF Turns, Versions
  <2> QED BY <1>2, <2>1, <2>2, <2>3, <2>4
<1>8. Nobody'
  BY <1>1, <1>3, <1>4, <1>5, <1>6, <1>7 DEF Nobody
<1> QED BY <1>8, TurnOfNobody, PTL

(* What is left to say of those who do not hold the turn, and of those     *)
(* who rely on others.                                                     *)
LEMMA KnowsNot ==
  ASSUME NEW u, ~Holds(u)'
  PROVE  Knows(u)'
BY DEF Knows, Holds, Holding, At, Informed

LEMMA GatewaySame ==
  ASSUME Turns, UNCHANGED <<commands, accepting, pending>>, NEW t, NEW y, task'[t] = y,
         \A u \in Task \ {t} : task'[u] = task[u],
         t = "gateway" => \/ y.pc = "idle"
                          \/ /\ task[t].pc \notin {"idle", "waits", "reconciles", "terminates"}
                             /\ y.pc \notin {"waits", "reconciles", "terminates"}
                             /\ y.child = task[t].child
  PROVE  GatewayTerminated' /\ \A c \in InHand' : c \in InHand
<1>0. GatewayTerminated
  BY DEF Turns
<1>1. CASE t # "gateway"
  <2>1. task'["gateway"] = task["gateway"]
    BY <1>1, Names
  <2> QED BY <1>0, <2>1 DEF GatewayTerminated, InHand, At
<1>2. CASE t = "gateway"
  BY <1>0, <1>2 DEF GatewayTerminated, InHand, At
<1> QED BY <1>1, <1>2

LEMMA NothingRests ==
  ASSUME Turns, ~Resting
  PROVE  /\ mission.status \notin MissionEnds
         /\ \A n \in Notifier : /\ ~Committed(n) /\ ~At(n, "endMission")
                                /\ ~(At(n, "child") /\ Replayed(n))
<1>1. ~Closing /\ \A c : ~Settling(c)
  BY DEF Closing, Settling
<1> QED BY <1>1 DEF Turns, EndedIsClosing, Follows

LEMMA FollowsOther ==
  ASSUME Turns, NEW n \in Notifier, task'[n] = task[n],
         ReadsChild(n) /\ task[n].pc \in {"account", "objectives"} /\ OnRow(n)
           => linked'[ObjectiveOf(n)] = linked[ObjectiveOf(n)],
         Committed(n) => Settling(task[n].child)',
         (At(n, "child") /\ Replayed(n)) \/ At(n, "endMission") => Closing'
  PROVE  Follows(n)'
<1>1. /\ OnRow(n)' <=> OnRow(n)
      /\ Committed(n)' <=> Committed(n)
      /\ StatusRead(n)' = StatusRead(n) /\ VersionRead(n)' = VersionRead(n)
      /\ ObjectiveOf(n)' = ObjectiveOf(n)
      /\ ReadsChild(n)' <=> ReadsChild(n)
      /\ Replayed(n)' <=> Replayed(n)
      /\ \A p : At(n, p)' <=> At(n, p)
  BY DEF OnRow, Committed, StatusRead, VersionRead, ObjectiveOf, ReadsChild, Replayed, At
<1>2. Follows(n)
  BY DEF Turns
<1> QED BY <1>1, <1>2 DEF Follows

(* The submission comes first: nothing was created yet.                    *)
LEMMA SubmissionTurn ==
  ASSUME Shape, Turns, NEW s \in Submitter, SubmitCreates(s)
  PROVE  Turns'
<1> DEFINE y == [task[s] EXCEPT !.pc = "fund"]
<1>1. /\ CreateMission /\ Becomes(s, y) /\ s \in Task /\ s \notin Notifier
      /\ UNCHANGED <<commands, accepting, linked, pending>> /\ At(s, "idle")
  BY Names, CoordinatorAssumption DEF SubmitCreates, Goes, OnlyRows, Forgets, journalVars, CreateMission
<1>2. task[s] \in TaskRecord /\ y.pc = "fund"
  BY <1>1, GoesRecord DEF Shape, Pcs
<1>3. task'[s] = y /\ \A u \in Task \ {s} : task'[u] = task[u]
  BY <1>1 DEF Shape, Becomes
<1> HIDE DEF y
<1>4. /\ NoHolder /\ \A o \in Objective : linked[o] = 0 /\ objectives[o].status = "absent"
  BY <1>1 DEF CreateMission, Turns, NotYet
<1>5. \A c \in Execute : ~Present(c)
  <2> SUFFICES ASSUME NEW c \in Execute, Present(c) PROVE FALSE
    OBVIOUS
  <2>1. c \in Child /\ c[1] \in Objective /\ c[2] >= 1 /\ c[2] \in Nat
    BY Names DEF Turns, Versions
  <2>2. c[2] > linked[c[1]]
    BY <1>4, <2>1
  <2>3. c[1] \in PendingNow
    BY <2>1, <2>2 DEF Turns, Versions
  <2> QED BY <1>4, <2>3 DEF PendingNow
<1>6. \A n \in Notifier : At(n, "idle")
  BY <1>5, Names DEF Shape, NotifierFits, At, Present
<1>7. \A u \in Task \ {s} : ~Holds(u)' /\ ~At(u, "activate")'
  BY <1>3, <1>4 DEF NoHolder, Holds, Holding, At, Informed
<1>8. \A n \in Notifier : At(n, "idle")'
  BY <1>1, <1>3, <1>6, Names DEF At
<1>9. /\ mission'.status = "accepted"
      /\ \A o \in Objective : objectives'[o].status \in {"pending", "absent"}
      /\ \A o \in Objective : objectives'[o].version \in Nat
  <2>1. objectives \in [Objective -> [status : ObjectiveStatuses, version : Nat, budget : Nat]]
    BY DEF Shape, TypeOK, RepositoryTypeOK
  <2>2. /\ mission' = [status |-> "accepted", version |-> 0]
        /\ objectives' = [o \in Objective |->
             IF o \in First THEN [objectives[o] EXCEPT !.status = "pending"] ELSE objectives[o]]
    BY <1>1 DEF CreateMission
  <2>3. ASSUME NEW o \in Objective
        PROVE  objectives'[o].status \in {"pending", "absent"} /\ objectives'[o].version \in Nat
    BY <1>4, <2>1, <2>2
  <2> QED BY <2>2, <2>3
<1>10. ActiveNow' = {} /\ Lost' = {} /\ Open' = {}
  BY <1>1, <1>5, <1>9, Names DEF ActiveNow, Lost, Open, Present
<1>11. OneTurn' /\ TurnOrActive' /\ OneActive' /\ LostIsLast'
  BY <1>7, <1>10 DEF OneTurn, TurnOrActive, OneActive, LostIsLast
<1>12. LinksFit'
  <2>1. \A o \in Objective : linked'[o] = 0 /\ 0 <= objectives'[o].version
    BY <1>1, <1>4, <1>9
  <2> QED BY <1>10, <2>1 DEF LinksFit, PendingNow
<1>13. OpenIsKnown' /\ Versions'
  BY <1>1, <1>5, <1>10, Names DEF OpenIsKnown, Versions, Present
<1>14. NoEcho'
  BY <1>8 DEF NoEcho, At, Notifier
<1>15. GatewayTerminated'
  BY <1>1, <1>3, GatewaySame DEF Notifier
<1>16. SubmitterFirst' /\ NotYet' /\ EndedIsClosing'
  BY <1>1, <1>4, <1>9 DEF SubmitterFirst, NotYet, EndedIsClosing, MissionEnds
<1>17. ASSUME NEW u \in Task PROVE Knows(u)'
  <2>1. CASE u = s
    BY <1>2, <1>3, <2>1 DEF Knows, At, Informed, Onward, Rebalancing
  <2>2. CASE u # s
    BY <1>7, <2>2, KnowsNot
  <2> QED BY <2>1, <2>2
<1>18. \A n \in Notifier : Follows(n)'
  BY <1>8, FollowsNot DEF At, Following
<1> QED BY <1>11, <1>12, <1>13, <1>14, <1>15, <1>16, <1>17, <1>18 DEF Turns

(* The command is new and admission is open: no objective had a command of *)
(* its next version yet.                                                   *)
LEMMA Creation ==
  ASSUME Shape, Turns, NEW t \in Task, AdvanceCreates(t)
  PROVE  LET c == ChosenChild(task[t].snap)
         IN /\ c \in Child /\ ~Present(c) /\ accepting /\ UNCHANGED accepting /\ Aged
            /\ commands'[c].state = "queued" /\ \A d \in Id \ {c} : commands'[d] = commands[d]
            /\ \A d \in Child : Present(d) => d[2] <= linked[d[1]]
<1>a. PICK snap : snap = task[t].snap
  OBVIOUS
<1>b. PICK c : c = ChosenChild(snap)
  OBVIOUS
<1>c. PICK o : o = Chosen(snap)
  OBVIOUS
<1>1. /\ At(t, "advance") /\ Holds(t) /\ ~At(t, "activate") /\ task[t].pc \notin Rebalancing
      /\ Ready(snap) # {} /\ c \in Child /\ UNCHANGED <<objectives, linked, mission, pending>>
      /\ IF Present(c) THEN UNCHANGED journalVars ELSE CreateCommand(c)
      /\ task[t] \in TaskRecord /\ snap \in SnapRecord /\ Goes(t, "activate")
      /\ snap.objectives = objectives
  BY <1>a, <1>b DEF AdvanceCreates, AdvanceReady, At, Holds, Holding, Informed, Onward, Rebalancing,
     repositoryVars, Forgets, Shape, TaskRecord, Turns, Knows
<1>2. /\ o \in Objective /\ o \in PendingNow /\ c = <<o, c[2]>> /\ c[2] = objectives[o].version + 1
      /\ c[1] = o /\ objectives[o].version \in Nat /\ linked[o] \in Nat
  BY <1>1, <1>b, <1>c, ChosenIsReady DEF ChosenChild, PendingNow, Shape, TypeOK, RepositoryTypeOK
<1>3. linked[o] <= objectives[o].version /\ c[2] > linked[o] /\ c[2] >= 1
  <2>1. linked[o] <= objectives[o].version
    BY <1>2 DEF Turns, LinksFit
  <2> QED BY <1>2, <2>1
<1>4. /\ ActiveNow = {} /\ ~Stuck /\ Open = {} /\ NobodyActivates /\ Lost = {}
      /\ \A u \in Task \ {t} : ~Holds(u) /\ ~At(u, "activate")
      /\ mission.status # "absent"
  BY <1>1, HolderAlone
<1>5. \A d \in Child : Present(d) => d[2] <= linked[d[1]]
  <2> SUFFICES ASSUME NEW d \in Child, Present(d) PROVE d[2] <= linked[d[1]]
    OBVIOUS
  <2>1. ~(d[2] > linked[d[1]])
    BY <1>4 DEF Turns, Versions, Chooses, NobodyActivates
  <2>2. d[2] \in Nat /\ linked[d[1]] \in Nat
    BY Names DEF Shape, TypeOK, RepositoryTypeOK
  <2> QED BY <2>1, <2>2
<1>6. ~Present(c)
  BY <1>1, <1>2, <1>3, <1>5
<1>7. /\ c \in Execute /\ accepting /\ Aged /\ UNCHANGED accepting /\ c \in Id
      /\ commands'[c].state = "queued" /\ \A d \in Id \ {c} : commands'[d] = commands[d]
  BY <1>1, <1>6, CreationAged, Names DEF Shape, TypeOK
<1> QED BY <1>1, <1>5, <1>6, <1>7, <1>a, <1>b

(* The turn goes into a command: nobody else acts for the mission.         *)
LEMMA CreatesTurn ==
  ASSUME Shape, Turns, NEW t \in Task, AdvanceCreates(t)
  PROVE  Turns'
<1>a. PICK snap : snap = task[t].snap
  OBVIOUS
<1>b. PICK c : c = ChosenChild(snap)
  OBVIOUS
<1>c. PICK o : o = Chosen(snap)
  OBVIOUS
<1>1. /\ At(t, "advance") /\ Holds(t) /\ ~At(t, "activate") /\ task[t].pc \notin Rebalancing
      /\ Ready(snap) # {} /\ c \in Child /\ UNCHANGED <<objectives, linked, mission, pending>>
      /\ IF Present(c) THEN UNCHANGED journalVars ELSE CreateCommand(c)
      /\ task[t] \in TaskRecord /\ snap \in SnapRecord /\ Goes(t, "activate")
      /\ snap.objectives = objectives
  BY <1>a, <1>b DEF AdvanceCreates, AdvanceReady, At, Holds, Holding, Informed, Onward, Rebalancing,
     repositoryVars, Forgets, Shape, TaskRecord, Turns, Knows
<1>2. /\ o \in Objective /\ o \in PendingNow /\ c = <<o, c[2]>> /\ c[2] = objectives[o].version + 1
      /\ c[1] = o /\ objectives[o].version \in Nat /\ linked[o] \in Nat
  BY <1>1, <1>b, <1>c, ChosenIsReady DEF ChosenChild, PendingNow, Shape, TypeOK, RepositoryTypeOK
<1>3. linked[o] <= objectives[o].version /\ c[2] > linked[o] /\ c[2] >= 1
  <2>1. linked[o] <= objectives[o].version
    BY <1>2 DEF Turns, LinksFit
  <2> QED BY <1>2, <2>1
<1>4. /\ ActiveNow = {} /\ ~Stuck /\ Open = {} /\ NobodyActivates /\ Lost = {}
      /\ \A u \in Task \ {t} : ~Holds(u) /\ ~At(u, "activate")
      /\ mission.status # "absent"
  BY <1>1, HolderAlone
<1>5. \A d \in Child : Present(d) => d[2] <= linked[d[1]]
  BY Creation
<1>6. ~Present(c)
  BY <1>a, <1>b, Creation
<1>7. /\ c \in Execute /\ accepting /\ Aged /\ UNCHANGED accepting /\ c \in Id
      /\ commands'[c].state = "queued" /\ \A d \in Id \ {c} : commands'[d] = commands[d]
  BY <1>1, <1>a, <1>b, Creation, Names
<1>8. PICK y \in TaskRecord : Becomes(t, y) /\ y.pc = "activate" /\ y.snap = snap
  BY <1>1, <1>a, GoesRecord DEF Goes, Pcs
<1>9. task'[t] = y /\ \A u \in Task \ {t} : task'[u] = task[u]
  BY <1>8 DEF Shape, Becomes
<1>10. /\ Chooses(t, c)' /\ Holds(t)'
       /\ \A u \in Task \ {t} : ~Holds(u)' /\ ~At(u, "activate")'
  BY <1>4, <1>8, <1>9, <1>b DEF Chooses, Holds, Holding, At, Informed, ChosenChild, Chosen
<1>11. ActiveNow' = {} /\ PendingNow' = PendingNow /\ Lost' = {} /\ Open' = {c}
  <2>1. Open' = {c}
    BY <1>1, <1>4, <1>7, Names DEF Open
  <2> QED BY <1>1, <1>4, <2>1 DEF ActiveNow, PendingNow, Lost
<1>12. OneTurn' /\ TurnOrActive' /\ OneActive' /\ LostIsLast'
  BY <1>10, <1>11 DEF OneTurn, TurnOrActive, OneActive, LostIsLast
<1>13. \A d \in Child : Present(d) => Present(d)' /\ d # c
  BY <1>6, <1>7, Names DEF Aged, Present
<1>14. LinksFit'
  <2>1. LinksFit
    BY DEF Turns
  <2>2. \A p \in Objective : linked[p] # 0 => Linked(p)' = Linked(p) /\ Linked(p) \in Child /\ Present(Linked(p))'
    BY <1>1, <1>13, <2>1 DEF LinksFit, Linked, Present
  <2> QED BY <1>1, <1>4, <1>11, <2>1, <2>2 DEF LinksFit
<1>15. OpenIsKnown'
  <2> SUFFICES ASSUME NEW d \in Open' PROVE \E u \in Task : Chooses(u, d)'
    BY DEF OpenIsKnown
  <2>1. d = c
    BY <1>11
  <2> QED BY <1>10, <2>1 DEF Chooses
<1>16. Versions'
  <2>1. \A d \in Execute : Present(d)' => d \in Child
    BY <1>1, <1>7, Names DEF Turns, Versions, Present, Execute
  <2>2. ASSUME NEW d \in Child, Present(d)'
        PROVE  /\ d[2] >= 1
               /\ d[2] < linked[d[1]] => commands'[d].state = "failed"
               /\ d[2] = linked[d[1]] /\ d[1] \in PendingNow => commands'[d].state = "failed"
               /\ d[2] > linked[d[1]] => /\ d[1] \in PendingNow
                                         /\ d[2] = objectives[d[1]].version + 1
                                         /\ \E u \in Task : Chooses(u, d)'
    <3>1. CASE d = c
      <4>1. Chooses(t, d)'
        BY <1>10, <3>1 DEF Chooses
      <4>2. /\ d[2] >= 1 /\ ~(d[2] < linked[d[1]]) /\ d[2] # linked[d[1]]
            /\ d[1] \in PendingNow /\ d[2] = objectives[d[1]].version + 1
        BY <1>2, <1>3, <3>1
      <4> QED BY <4>1, <4>2
    <3>2. CASE d # c
      <4>1. Present(d) /\ commands'[d] = commands[d]
        BY <1>7, <2>2, <3>2, Names DEF Present
      <4>2. d[2] <= linked[d[1]] /\ d[2] \in Nat /\ linked[d[1]] \in Nat
        BY <1>5, <4>1, Names DEF Shape, TypeOK, RepositoryTypeOK
      <4>3. ~(d[2] > linked[d[1]])
        BY <4>2
      <4> QED BY <4>1, <4>3 DEF Turns, Versions
    <3> QED BY <3>1, <3>2
  <2> QED BY <1>1, <1>11, <2>1, <2>2 DEF Versions
<1>17. ASSUME NEW u \in Task PROVE Knows(u)'
  <2>1. CASE u = t
    <3>1. Ready(snap) # {} /\ ChosenChild(snap) \in Child /\ Present(ChosenChild(snap))'
      BY <1>1, <1>7, <1>b DEF Present
    <3> QED BY <1>1, <1>8, <1>9, <2>1, <3>1 DEF Knows, At, Informed, Rebalancing, ChosenChild, Chosen, Present
  <2>2. CASE u # t
    BY <1>10, <2>2, KnowsNot
  <2> QED BY <2>1, <2>2
<1>18. t # "gateway" /\ task'["gateway"] = task["gateway"]
  BY <1>1, <1>7, <1>9, GatewayFollows, Names
<1>19. GatewayTerminated'
  <2>1. ~At("gateway", "idle") => task["gateway"].child \in Child /\ Present(task["gateway"].child)
    BY DEF Shape, NotifierFits, Notifier, At, Present
  <2>2. ~At("gateway", "idle") => UNCHANGED commands[task["gateway"].child]
    BY <1>7, <1>13, <1>18, <2>1, Names
  <2> QED BY <1>1, <1>7, <1>18, <2>2 DEF Turns, GatewayTerminated, At
<1>20. NoEcho'
  <2> SUFFICES ASSUME NEW d \in InHand', d[1] \in PendingNow, linked[d[1]] = d[2] PROVE FALSE
    BY <1>1, <1>10, <1>11, <1>18, Names DEF NoEcho
  <2>1. pending = <<>> /\ GatewayTerminated
    BY <1>7 DEF Turns, GatewayTerminated
  <2>2. ~At("gateway", "idle") /\ d = task["gateway"].child
    BY <1>1, <1>18, <2>1 DEF InHand, At
  <2>3. d \in Child /\ Present(d) /\ commands[d].state \in {"reconciling", "cancelled"}
    BY <1>7, <2>1, <2>2 DEF Shape, NotifierFits, Notifier, At, Present, GatewayTerminated
  <2> QED BY <2>3 DEF Turns, Versions
<1>21. SubmitterFirst'
  BY <1>1, <1>4, <1>10, Names DEF Turns, SubmitterFirst
<1>22. ~Resting
  BY <1>1, <1>7 DEF Resting, NoHolder
<1>23. NotYet' /\ EndedIsClosing'
  BY <1>1, <1>4, <1>22, NothingRests DEF NotYet, EndedIsClosing
<1>24. ASSUME NEW n \in Notifier PROVE Follows(n)'
  <2>1. CASE n = t
    BY <1>8, <1>9, <2>1, FollowsNot DEF Following
  <2>2. CASE n # t
    BY <1>1, <1>9, <1>22, <2>2, Names, NothingRests, FollowsOther
  <2> QED BY <2>1, <2>2
<1> QED BY <1>12, <1>14, <1>15, <1>16, <1>17, <1>19, <1>20, <1>21, <1>23, <1>24 DEF Turns

(* A task that read the objective that is activated read it for its        *)
(* earlier command, which nobody follows any more.                         *)
LEMMA NotFollowed ==
  ASSUME Shape, Turns, NEW t \in Task, NEW o, At(t, "activate"), o \in PendingNow,
         NEW n \in Notifier \ {t}, ReadsChild(n), task[n].pc \in {"account", "objectives"}, OnRow(n)
  PROVE  ObjectiveOf(n) # o
<1>1. /\ task[n].child \in Child /\ Present(task[n].child)
      /\ linked[ObjectiveOf(n)] = task[n].child[2]
  BY DEF Turns, Follows, Shape, NotifierFits, Present
<1> SUFFICES ASSUME ObjectiveOf(n) = o PROVE FALSE
  OBVIOUS
<1>2. task[n].child[2] >= 1 /\ linked[o] # 0
  BY <1>1 DEF Turns, Versions
<1>3. t \notin Submitter
  <2>1. Holds(t) /\ o \in Objective
    BY DEF At, Holds, Holding, Informed, PendingNow
  <2> QED BY <1>2, <2>1 DEF Turns, SubmitterFirst
<1>4. t = "worker" /\ n = "gateway"
  BY <1>3, Names DEF Notifier, Turns, NoEcho
<1>5. task["gateway"].child \in InHand
  BY <1>4 DEF InHand, At
<1> QED BY <1>1, <1>4, <1>5 DEF Turns, NoEcho, ObjectiveOf

(* The command takes the turn over: its objective is active, and nobody    *)
(* else acts for the mission until it ended.                               *)
LEMMA ActivatesTurn ==
  ASSUME Shape, Turns, NEW t \in Task, AdvanceActivates(t)
  PROVE  Turns'
<1>a. PICK o : o = Chosen(task[t].snap)
  OBVIOUS
<1>b. PICK version : version = objectives[o].version
  OBVIOUS
<1>c. PICK c : c = <<o, version + 1>>
  OBVIOUS
<1>1. /\ At(t, "activate") /\ Holds(t) /\ Knows(t)
  BY DEF AdvanceActivates, At, Holds, Holding, Informed, Turns
<1>2. /\ o \in Objective /\ o \in PendingNow /\ version \in Nat
      /\ ChosenChild(task[t].snap) = c /\ c \in Child /\ Present(c)
      /\ TransitionObjective(o, version, "active", version + 1)
      /\ UNCHANGED <<journalVars, mishaps, pending, usage, restarts>>
  BY <1>1, <1>a, <1>b, <1>c, Activation
<1>3. PICK y \in TaskRecord : /\ Becomes(t, y)
                              /\ y = Idle \/ (y.pc = "run" /\ y.child = task[t].child)
                              /\ t \in Notifier => NotifierFits(t, y, commands)
  BY <1>1, Activation
<1>4. task'[t] = y /\ \A u \in Task \ {t} : task'[u] = task[u]
  BY <1>3 DEF Shape, Becomes
<1>5. y.pc \in {"idle", "run"} /\ ~Holding(y)
  BY <1>3, Records DEF Holding, Rebalancing, Informed, Onward, Reads
<1>6. /\ ActiveNow = {} /\ ~Stuck /\ \A d \in Open : d = c
      /\ \A u \in Task \ {t} : ~Holds(u) /\ ~At(u, "activate")
      /\ Lost = {} /\ mission.status # "absent"
  BY <1>1, <1>2, HolderAlone DEF Chooses, Rebalancing, At
<1>7. \A u \in Task : ~Holds(u)' /\ ~At(u, "activate")'
  BY <1>4, <1>5, <1>6 DEF Holds, At
<1>8. /\ UNCHANGED <<commands, accepting, pending, mission>>
      /\ objectives \in [Objective -> [status : ObjectiveStatuses, version : Nat, budget : Nat]]
      /\ linked \in [Objective -> Nat]
  BY <1>2 DEF journalVars, TransitionObjective, Shape, TypeOK, RepositoryTypeOK
<1>9. /\ objectives'[o].status = "active" /\ objectives'[o].version = version + 1
      /\ linked'[o] = version + 1
      /\ \A p \in Objective \ {o} : objectives'[p] = objectives[p] /\ linked'[p] = linked[p]
  BY <1>2, <1>8 DEF TransitionObjective
<1>10. ActiveNow' = {o} /\ PendingNow' = PendingNow \ {o} /\ Lost' = {}
  BY <1>2, <1>6, <1>9 DEF ActiveNow, PendingNow, Lost
<1>11. Open' = Open
  BY <1>8 DEF Open
<1>12. OneTurn' /\ TurnOrActive' /\ OneActive' /\ LostIsLast'
  BY <1>7, <1>10 DEF OneTurn, TurnOrActive, OneActive, LostIsLast
<1>13. Linked(o)' = c /\ \A d \in Child : Present(d)' <=> Present(d)
  BY <1>8, <1>9, <1>c DEF Linked, Present
<1>14. LinksFit
  BY DEF Turns
<1>15. LinksFit'
  <2>1. \A p \in Objective : linked'[p] <= objectives'[p].version
    BY <1>2, <1>9, <1>14 DEF LinksFit
  <2>2. ASSUME NEW p \in Objective, linked'[p] # 0 PROVE Linked(p)' \in Child /\ Present(Linked(p))'
    <3>1. CASE p = o
      BY <1>2, <1>8, <1>13, <3>1 DEF Present, Linked
    <3>2. CASE p # o
      BY <1>8, <1>9, <1>14, <2>2, <3>2 DEF LinksFit, Present, Linked
    <3> QED BY <3>1, <3>2
  <2>3. \A p \in PendingNow' : linked'[p] # 0 => linked'[p] < objectives'[p].version
    BY <1>9, <1>10, <1>14 DEF LinksFit, PendingNow
  <2>4. \A p \in Objective : objectives'[p].status = "absent" => linked'[p] = 0
    BY <1>9, <1>14 DEF LinksFit
  <2> QED BY <1>9, <1>10, <2>1, <2>2, <2>3, <2>4 DEF LinksFit
<1>16. OpenIsKnown'
  <2> SUFFICES ASSUME NEW d \in Open' PROVE d[1] \in ActiveNow' /\ d = Linked(d[1])'
    BY DEF OpenIsKnown
  <2>1. d = c /\ d[1] = o
    BY <1>6, <1>11, <1>c
  <2> QED BY <1>9, <1>10, <1>c, <2>1 DEF Linked
<1>17. Versions'
  <2>1. \A d \in Execute : Present(d)' => d \in Child
    BY <1>8 DEF Turns, Versions, Present
  <2>2. ASSUME NEW d \in Child, Present(d)'
        PROVE  /\ d[2] >= 1 /\ ~(d[2] > linked'[d[1]])
               /\ d[2] < linked'[d[1]] => commands'[d].state = "failed"
               /\ d[2] = linked'[d[1]] /\ d[1] \in PendingNow' => commands'[d].state = "failed"
    <3>1. /\ d[2] >= 1 /\ d[2] \in Nat /\ linked[d[1]] \in Nat /\ d[1] \in Objective
          /\ d[2] < linked[d[1]] => commands'[d].state = "failed"
          /\ d[2] = linked[d[1]] /\ d[1] \in PendingNow => commands'[d].state = "failed"
          /\ d[2] > linked[d[1]] => /\ d[1] \in PendingNow
                                    /\ d[2] = objectives[d[1]].version + 1
                                    /\ (\E u \in Task : Chooses(u, d)) \/ Stuck
      BY <1>8, <1>13, <2>2, Names DEF Turns, Versions
    <3>2. d[2] > linked[d[1]] => d = c
      BY <1>2, <1>6, <3>1 DEF Chooses
    <3>3. CASE d[1] = o
      <4>1. linked[o] \in Nat /\ linked[o] <= version /\ linked'[o] = version + 1 /\ c[2] = version + 1
        BY <1>2, <1>8, <1>9, <1>14, <1>b, <1>c DEF LinksFit
      <4>2. ~(d[2] > linked'[d[1]])
        BY <1>2, <3>1, <3>2, <3>3, <4>1
      <4>3. d[2] < linked'[d[1]] => d[2] <= linked[o]
        BY <1>2, <3>1, <3>2, <3>3, <4>1
      <4>4. d[2] <= linked[o] => commands'[d].state = "failed"
        BY <1>2, <3>1, <3>3, <4>1
      <4> QED BY <1>10, <3>1, <3>3, <4>2, <4>3, <4>4
    <3>4. CASE d[1] # o
      <4>1. d # c /\ linked'[d[1]] = linked[d[1]]
        BY <1>9, <1>c, <3>1, <3>4
      <4> QED BY <1>10, <3>1, <3>2, <4>1
    <3> QED BY <3>3, <3>4
  <2> QED BY <2>1, <2>2 DEF Versions
<1>18. ASSUME NEW u \in Task PROVE Knows(u)'
  BY <1>7, KnowsNot
<1>19. t # "gateway" /\ GatewayTerminated'
  <2>1. t # "gateway"
    BY <1>1 DEF Turns, NoEcho
  <2> QED BY <1>4, <1>8, <2>1, GatewaySame
<1>20. NoEcho' /\ SubmitterFirst' /\ NotYet'
  BY <1>6, <1>7, <1>8, Names DEF NoEcho, SubmitterFirst, NotYet
<1>21. ~Resting
  BY <1>1 DEF Resting, NobodyActivates
<1>22. EndedIsClosing'
  BY <1>8, <1>21, NothingRests DEF EndedIsClosing
<1>23. ASSUME NEW n \in Notifier PROVE Follows(n)'
  <2>1. CASE n = t
    <3>1. task'[n].pc \notin Following
      BY <1>4, <1>5, <2>1 DEF Following
    <3> QED BY <3>1, FollowsNot
  <2>2. CASE n # t
    <3>1. task'[n] = task[n] /\ Follows(n)
      BY <1>4, <2>2, Names DEF Turns
    <3>2. ASSUME ReadsChild(n), task[n].pc \in {"account", "objectives"}, OnRow(n)
          PROVE  linked'[ObjectiveOf(n)] = linked[ObjectiveOf(n)]
      <4>1. ObjectiveOf(n) # o /\ ObjectiveOf(n) \in Objective
        BY <1>1, <1>2, <2>2, <3>1, <3>2, Names, NotFollowed DEF Shape, NotifierFits, ObjectiveOf
      <4> QED BY <1>9, <4>1
    <3> QED BY <1>21, <3>1, <3>2, NothingRests, FollowsOther
  <2> QED BY <2>1, <2>2
<1> QED BY <1>12, <1>15, <1>16, <1>17, <1>18, <1>19, <1>20, <1>22, <1>23 DEF Turns

(* The compare-and-set on the end of an objective is won only while the    *)
(* objective is active for the command that ended.                         *)
LEMMA ActiveEnds ==
  ASSUME Shape, Turns, NEW n \in Notifier, Committed(n), NEW o, o = ObjectiveOf(n),
         NEW target \in {"completed", "failed", "blocked_unknown"},
         ObjectiveAdmits(o, VersionRead(n), target),
         TransitionObjective(o, VersionRead(n), target, task[n].child[2])
  PROVE  /\ o \in Objective /\ o \in ActiveNow /\ o \notin PendingNow
         /\ linked[o] = VersionRead(n) /\ linked' = linked /\ Linked(o) = task[n].child
         /\ NoHolder /\ NobodyActivates /\ \A p \in ActiveNow : p = o
         /\ ActiveNow' = {} /\ PendingNow' = PendingNow
         /\ objectives'[o].status = target
         /\ \A p \in Objective \ {o} : objectives'[p] = objectives[p]
         /\ \A p \in Objective : objectives'[p].budget = objectives[p].budget
<1>1. task[n].pc \notin Unlooked \union {"checks"} /\ ~At(n, "idle")
  BY DEF Committed, Unlooked, At
<1>2. PICK v : v = VersionRead(n)
  OBVIOUS
<1>3. /\ o \in Objective /\ v \in Nat /\ task[n].child \in Child /\ task[n].child = <<o, v>>
      /\ Present(task[n].child) /\ task[n].child[2] = v /\ Settling(task[n].child)
  BY <1>1, <1>2, AboutChild, Names DEF Turns, Follows, NotifierFits, At, Present
<1>4. /\ objectives \in [Objective -> [status : ObjectiveStatuses, version : Nat, budget : Nat]]
      /\ linked \in [Objective -> Nat]
  BY DEF Shape, TypeOK, RepositoryTypeOK
<1>5. /\ objectives[o].version = v /\ target \in ObjectiveSuccessors(objectives[o].status)
      /\ objectives' = [objectives EXCEPT ![o].status = target, ![o].version = v + 1]
      /\ linked' = [linked EXCEPT ![o] = v]
  BY <1>2, <1>3 DEF TransitionObjective, ObjectiveAdmits
<1>6. o \notin PendingNow
  <2> SUFFICES ASSUME o \in PendingNow PROVE FALSE
    OBVIOUS
  <2>1. linked[o] <= v /\ (linked[o] # 0 => linked[o] < v)
    BY <1>3, <1>5 DEF Turns, LinksFit
  <2>2. v >= 1 /\ ~(v > linked[o])
    BY <1>3, <1>5 DEF Turns, Versions
  <2> QED BY <1>3, <1>4, <2>1, <2>2
<1>7. o \in ActiveNow
  BY <1>3, <1>5, <1>6 DEF ObjectiveSuccessors, ActiveNow, PendingNow
<1>8. linked[o] = v /\ linked' = linked
  BY <1>4, <1>5, <1>7 DEF Turns, LinksFit
<1>9. /\ objectives'[o].status = target
      /\ \A p \in Objective \ {o} : objectives'[p] = objectives[p]
      /\ \A p \in Objective : objectives'[p].budget = objectives[p].budget
  BY <1>3, <1>4, <1>5
<1>10. NoHolder /\ NobodyActivates /\ \A p \in ActiveNow : p = o
  BY <1>3, <1>7 DEF Turns, TurnOrActive, NoHolder, Settling, Resting, OneActive
<1>11. ActiveNow' = {} /\ PendingNow' = PendingNow
  BY <1>3, <1>6, <1>9, <1>10 DEF ActiveNow, PendingNow
<1>12. Linked(o) = task[n].child
  BY <1>3, <1>8 DEF Linked
<1> QED BY <1>2, <1>3, <1>6, <1>7, <1>8, <1>9, <1>10, <1>11, <1>12

(* The end of an active objective: the task that wins the compare-and-set  *)
(* takes the turn, or ends the mission with it.  Nobody else had the turn, *)
(* and whoever follows the same command finds everything at rest.          *)
LEMMA ObjectiveEnds ==
  ASSUME Shape, Turns, NEW n \in Notifier, NEW y \in TaskRecord, Becomes(n, y), Committed(n),
         NEW o, o = ObjectiveOf(n), NEW target \in {"completed", "failed", "blocked_unknown"},
         ObjectiveAdmits(o, VersionRead(n), target),
         TransitionObjective(o, VersionRead(n), target, task[n].child[2]),
         UNCHANGED <<journalVars, pending>>, y.child = task[n].child,
         \/ target = "completed" /\ y.pc = "mission" /\ y.next = "advance"
         \/ target = "failed" /\ y.pc = "planner"
         \/ target # "completed" /\ y.pc = "endMission",
         Holding(y) => commands[task[n].child].state \in {"succeeded", "failed"}
  PROVE  Turns'
<1>1. /\ task'[n] = y /\ n \in Task /\ n \notin Submitter /\ \A u \in Task \ {n} : task'[u] = task[u]
  BY Names, CoordinatorAssumption DEF Shape, Becomes
<1>2. task[n].pc \notin Unlooked \union {"checks"} /\ ~At(n, "idle")
  BY DEF Committed, Unlooked, At
<1>3. PICK v : v = VersionRead(n)
  OBVIOUS
<1>4. PICK c : c = task[n].child
  OBVIOUS
<1>5. /\ o \in Objective /\ v \in Nat /\ c \in Child /\ c = <<o, v>> /\ Present(c)
      /\ task[n].child[2] = v /\ Settling(c)
  BY <1>2, <1>3, <1>4, AboutChild, Names DEF Turns, Follows, NotifierFits, At, Present
<1>6. /\ objectives \in [Objective -> [status : ObjectiveStatuses, version : Nat, budget : Nat]]
      /\ linked \in [Objective -> Nat] /\ UNCHANGED <<commands, accepting, pending, mission>>
  BY DEF Shape, TypeOK, RepositoryTypeOK, journalVars, TransitionObjective
<1>7. /\ objectives[o].version = v /\ target \in ObjectiveSuccessors(objectives[o].status)
      /\ objectives' = [objectives EXCEPT ![o].status = target, ![o].version = v + 1]
      /\ linked' = [linked EXCEPT ![o] = v]
  BY <1>3, <1>5 DEF TransitionObjective, ObjectiveAdmits
<1>8. o \notin PendingNow /\ o \in ActiveNow /\ linked[o] = v /\ linked' = linked
  BY <1>3, ActiveEnds
<1>9. /\ objectives'[o].status = target /\ objectives'[o].version = v + 1
       /\ \A p \in Objective \ {o} : objectives'[p] = objectives[p]
  BY <1>5, <1>6, <1>7
<1>10. /\ NoHolder /\ ~Stuck /\ Lost = {} /\ NobodyActivates /\ Open = {} /\ Open' = {}
       /\ \A p \in ActiveNow : p = o
  BY <1>5, <1>6, <1>8
  DEF Turns, TurnOrActive, NoHolder, Stuck, LostIsLast, Settling, Resting, OneActive, Open
<1>11. /\ ActiveNow' = {} /\ PendingNow' = PendingNow
       /\ Lost' = IF target = "completed" THEN {} ELSE {o}
  BY <1>5, <1>8, <1>9, <1>10 DEF ActiveNow, PendingNow, Lost
<1>12. /\ y.pc \in {"mission", "planner", "endMission"}
       /\ Holding(y) <=> y.pc # "endMission"
  BY DEF Holding, Rebalancing, Informed, Onward, Reads
<1>13. /\ \A u \in Task : ~At(u, "activate")'
       /\ \A u \in Task \ {n} : ~Holds(u)'
       /\ Holds(n)' <=> y.pc # "endMission"
  BY <1>1, <1>10, <1>12 DEF NoHolder, NobodyActivates, Holds, At
<1>14. OneTurn' /\ TurnOrActive' /\ OneActive'
  BY <1>11, <1>13 DEF OneTurn, TurnOrActive, OneActive
<1>15. LinksFit'
  <2>1. LinksFit
    BY DEF Turns
  <2>2. \A p \in Objective : linked'[p] <= objectives'[p].version
    BY <1>5, <1>6, <1>8, <1>9, <2>1 DEF LinksFit
  <2>3. \A p \in Objective : linked'[p] # 0 => Linked(p)' \in Child /\ Present(Linked(p))'
    BY <1>6, <1>8, <2>1 DEF LinksFit, Linked, Present
  <2>4. \A p \in PendingNow' : linked'[p] # 0 => linked'[p] < objectives'[p].version
    BY <1>8, <1>9, <1>11, <2>1 DEF LinksFit, PendingNow
  <2>5. \A p \in Objective : objectives'[p].status = "absent" => linked'[p] = 0
    BY <1>8, <1>9, <2>1 DEF LinksFit
  <2> QED BY <1>11, <2>2, <2>3, <2>4, <2>5 DEF LinksFit
<1>16. OpenIsKnown' /\ NoEcho'
  BY <1>1, <1>10, <1>13, Names DEF OpenIsKnown, NoEcho
<1>17. Versions'
  <2>1. \A d \in Execute : Present(d)' => d \in Child
    BY <1>6 DEF Turns, Versions, Present
  <2>2. ASSUME NEW d \in Child, Present(d)'
        PROVE  /\ d[2] >= 1 /\ ~(d[2] > linked'[d[1]])
               /\ d[2] < linked'[d[1]] => commands'[d].state = "failed"
               /\ d[2] = linked'[d[1]] /\ d[1] \in PendingNow' => commands'[d].state = "failed"
    <3>1. Present(d)
      BY <1>6, <2>2 DEF Present
    <3>2. ~(d[2] > linked[d[1]])
      BY <1>10, <3>1 DEF Turns, Versions, Chooses, NobodyActivates
    <3> QED BY <1>6, <1>8, <1>11, <3>1, <3>2 DEF Turns, Versions
  <2> QED BY <2>1, <2>2 DEF Versions
<1>18. LostIsLast'
  <2>1. \A u \in Task : Holds(u)' /\ target # "completed" => task'[u].pc \in Rebalancing
    BY <1>1, <1>12, <1>13 DEF Rebalancing
  <2> QED BY <1>10, <1>11, <2>1 DEF LostIsLast
<1>19. ASSUME NEW u \in Task PROVE Knows(u)'
  <2>1. CASE u = n
    <3>1. task'[u].pc \notin Informed \union {"fundProposal", "append", "activate"}
      BY <1>1, <1>12, <2>1 DEF Informed, Onward
    <3>2. ObjectiveOf(u)' = o /\ task'[u].child[2] = v
      BY <1>1, <1>5, <2>1 DEF ObjectiveOf
    <3>3. task'[u].pc \in Rebalancing => target = "failed"
      BY <1>1, <2>1 DEF Rebalancing
    <3> QED BY <1>8, <1>9, <1>11, <3>1, <3>2, <3>3 DEF Knows, At
  <2>2. CASE u # n
    BY <1>13, <2>2, KnowsNot
  <2> QED BY <2>1, <2>2
<1>20. GatewayTerminated'
  <2>1. /\ task[n].pc \notin {"idle", "waits", "reconciles", "terminates"}
        /\ y.pc \notin {"waits", "reconciles", "terminates"}
    BY <1>2, <1>12 DEF Unlooked
  <2> QED BY <1>1, <1>6, <2>1, GatewaySame
<1>21. SubmitterFirst'
  BY <1>1, <1>13, Names DEF SubmitterFirst
<1>22. NotYet' /\ EndedIsClosing'
  <2>1. mission.status # "absent" /\ mission.status \notin MissionEnds
    BY <1>5, <1>8 DEF Turns, NotYet, EndedIsClosing, Closing, ActiveNow
  <2> QED BY <1>6, <2>1 DEF NotYet, EndedIsClosing
<1>23. ASSUME NEW m \in Notifier PROVE Follows(m)'
  <2>1. CASE m = n
    <3>1. CASE y.pc = "endMission"
      <4>1. Closing'
        BY <1>10, <1>11, <1>13, <3>1 DEF Closing, Resting, NoHolder, NobodyActivates
      <4>2. task'[m].pc = "endMission"
        BY <1>1, <2>1, <3>1
      <4> QED BY <4>1, <4>2 DEF Follows, Committed, At
    <3>2. CASE y.pc # "endMission"
      <4>1. task'[m].pc \notin Following
        BY <1>1, <1>12, <2>1, <3>2 DEF Following
      <4> QED BY <4>1, FollowsNot
    <3> QED BY <3>1, <3>2
  <2>2. CASE m # n
    <3>1. task'[m] = task[m] /\ Follows(m) /\ m \in Task
      BY <1>1, <2>2, Names DEF Turns
    <3>2. ~Closing
      BY <1>8 DEF Closing
    <3>3. ASSUME Committed(m) PROVE Settling(task[m].child)'
      <4>1. Linked(o) = task[m].child /\ Linked(o) = c
        BY <1>5, <1>8, <3>1, <3>3 DEF Follows, Settling
      <4>2. ASSUME accepting', y.pc # "endMission" PROVE FALSE
        <5>1. commands[c].state \in {"succeeded", "failed"} /\ accepting
          BY <1>4, <1>6, <1>12, <4>2
        <5>2. n = "gateway" \/ m = "gateway"
          BY <2>2 DEF Notifier
        <5>3. task[m].pc \notin Unlooked
          BY <3>3 DEF Committed, Unlooked
        <5> QED BY <1>2, <1>4, <4>1, <5>1, <5>2, <5>3, GatewayFollows
      <4>3. Resting'
        BY <1>10, <1>13, <4>2 DEF Resting, NoHolder, NobodyActivates
      <4> QED BY <1>11, <4>3 DEF Settling
    <3> QED BY <1>8, <3>1, <3>2, <3>3, FollowsOther DEF Follows
  <2> QED BY <2>1, <2>2
<1> QED
  BY <1>14, <1>15, <1>16, <1>17, <1>18, <1>19, <1>20, <1>21, <1>22, <1>23 DEF Turns

LEMMA FailsObjectiveTurn ==
  ASSUME Shape, Turns, NEW n \in Notifier, RebalanceFailsObjective(n)
  PROVE  Turns'
<1>1. PICK o : o = ObjectiveOf(n)
  OBVIOUS
<1>2. /\ Committed(n) /\ task[n].pc = "failObjective" /\ n \in Task /\ task[n] \in TaskRecord
      /\ task[n].pc \notin Unlooked \union {"checks"} /\ ~At(n, "idle")
      /\ UNCHANGED <<journalVars, pending>>
  BY Names DEF RebalanceFailsObjective, Committed, At, Unlooked, OnlyRows, Forgets, Shape
<1>3. CASE ~ObjectiveAdmits(o, VersionRead(n), "failed")
  <2>1. UNCHANGED repositoryVars /\ Becomes(n, OnChild(task[n]))
    BY <1>1, <1>3 DEF RebalanceFailsObjective
  <2> QED BY <1>2, <2>1, TurnToChild DEF repositoryVars
<1>4. CASE ObjectiveAdmits(o, VersionRead(n), "failed")
  <2>1. TransitionObjective(o, VersionRead(n), "failed", task[n].child[2]) /\ Goes(n, "planner")
    BY <1>1, <1>4 DEF RebalanceFailsObjective
  <2>2. commands[task[n].child].state = "failed"
    BY <1>2, AboutChild, StateMembers DEF Called, ByRebalance, NotifierFits, Settled, RunEnds
  <2> DEFINE y == [task[n] EXCEPT !.pc = "planner"]
  <2>3. y \in TaskRecord /\ y.pc = "planner" /\ y.child = task[n].child
    BY <1>2, GoesRecord DEF Pcs
  <2>4. Becomes(n, y)
    BY <2>1 DEF Goes
  <2> HIDE DEF y
  <2> QED BY <1>1, <1>2, <1>4, <2>1, <2>2, <2>3, <2>4, ObjectiveEnds
<1> QED BY <1>3, <1>4

LEMMA EndsObjectiveTurn ==
  ASSUME Shape, Turns, NEW n \in Notifier, ChildEndsObjective(n)
  PROVE  Turns'
<1>1. PICK o : o = ObjectiveOf(n)
  OBVIOUS
<1>2. /\ Committed(n) /\ task[n].pc = "endObjective" /\ n \in Task /\ task[n] \in TaskRecord
      /\ task[n].pc \notin Unlooked \union {"checks"} /\ ~At(n, "idle")
      /\ UNCHANGED <<journalVars, pending>>
  BY Names DEF ChildEndsObjective, Committed, At, Unlooked, OnlyRows, Forgets, Shape
<1>3. PICK target \in {"completed", "failed", "blocked_unknown"} : target = Outcome(n)
  BY DEF Outcome
<1>4. CASE ~ObjectiveAdmits(o, VersionRead(n), target)
  <2>1. UNCHANGED repositoryVars /\ Becomes(n, Idle)
    BY <1>1, <1>3, <1>4 DEF ChildEndsObjective
  <2> QED BY <1>2, <2>1, TurnIdles DEF repositoryVars
<1>5. CASE ObjectiveAdmits(o, VersionRead(n), target)
  <2>1. /\ TransitionObjective(o, VersionRead(n), target, task[n].child[2])
        /\ IF target = "completed" THEN Calls(n, "advance") ELSE Goes(n, "endMission")
    BY <1>1, <1>3, <1>5 DEF ChildEndsObjective
  <2>2. CASE target = "completed"
    <3>1. task[n].seen = "succeeded"
      BY <1>3, <2>2 DEF Outcome, Verification
    <3>2. commands[task[n].child].state = "succeeded"
      BY <1>2, <3>1, AboutChild, StateMembers DEF NotifierFits, Settled, RunEnds
    <3> DEFINE y == Reading(task[n], "advance")
    <3>3. /\ y \in TaskRecord /\ y.pc = "mission" /\ y.next = "advance"
          /\ y.child = task[n].child
      BY <1>2, ReadingRecord DEF Procedures
    <3>4. Becomes(n, y)
      BY <2>1, <2>2 DEF Calls
    <3> HIDE DEF y
    <3> QED BY <1>1, <1>2, <1>5, <2>1, <2>2, <3>2, <3>3, <3>4, ObjectiveEnds
  <2>3. CASE target # "completed"
    <3> DEFINE y == [task[n] EXCEPT !.pc = "endMission"]
    <3>1. y \in TaskRecord /\ y.pc = "endMission" /\ y.child = task[n].child
      BY <1>2, GoesRecord DEF Pcs
    <3>2. Becomes(n, y)
      BY <2>1, <2>3 DEF Goes
    <3> HIDE DEF y
    <3>3. ~Holding(y)
      BY <3>1 DEF Holding, Rebalancing, Informed, Onward, Reads
    <3> QED BY <1>1, <1>2, <1>5, <2>1, <2>3, <3>1, <3>2, <3>3, ObjectiveEnds
  <2> QED BY <2>2, <2>3
<1> QED BY <1>4, <1>5

(* An objective becomes pending at the hand of the one who has the turn:   *)
(* put back by a rebalance, or appended by the exploration.                *)
LEMMA PendingAgain ==
  ASSUME Shape, Turns, NEW n \in Notifier, NEW y \in TaskRecord, Becomes(n, y), Holds(n),
         ~At(n, "activate"), y.pc = "mission", y.next = "advance", y.child = task[n].child,
         NEW o \in Objective, objectives'[o].status = "pending",
         \A p \in Objective \ {o} : objectives'[p] = objectives[p],
         \/ /\ objectives[o].status = "absent" /\ task[n].pc \notin Rebalancing
            /\ objectives'[o].version = objectives[o].version
         \/ /\ o = ObjectiveOf(n) /\ task[n].pc \in Rebalancing
            /\ objectives'[o].version = objectives[o].version + 1,
         UNCHANGED <<journalVars, pending, linked, mission>>
  PROVE  Turns'
<1>1. /\ task'[n] = y /\ n \in Task /\ n \notin Submitter /\ \A u \in Task \ {n} : task'[u] = task[u]
  BY Names, CoordinatorAssumption DEF Shape, Becomes
<1>2. /\ objectives \in [Objective -> [status : ObjectiveStatuses, version : Nat, budget : Nat]]
      /\ linked \in [Objective -> Nat] /\ UNCHANGED <<commands, accepting, pending, mission>>
  BY DEF Shape, TypeOK, RepositoryTypeOK, journalVars
<1>3. /\ ActiveNow = {} /\ ~Stuck /\ Open = {} /\ NobodyActivates /\ Open' = {}
      /\ \A u \in Task \ {n} : ~Holds(u) /\ ~At(u, "activate")
      /\ task[n].pc \notin Rebalancing => Lost = {}
      /\ mission.status # "absent"
  BY <1>1, <1>2, HolderAlone DEF Open
<1>4. LinksFit /\ Knows(n) /\ linked[o] <= objectives[o].version
  BY <1>1 DEF Turns, LinksFit
<1>5. /\ task[n].pc \in Rebalancing =>
           /\ Lost = {o} /\ linked[o] = task[n].child[2] /\ task[n].child = <<o, linked[o]>>
           /\ commands[task[n].child].state = "failed"
  BY <1>4, AboutChild, HolderEnded DEF Knows
<1>6. ActiveNow' = {} /\ PendingNow' = PendingNow \union {o} /\ Lost' = {}
  BY <1>3, <1>5 DEF ActiveNow, PendingNow, Lost
<1>7. y.pc # "activate" /\ Holding(y) /\ y.pc \notin Rebalancing \union Informed \union Following
  BY DEF Holding, Rebalancing, Informed, Onward, Reads, Following
<1>8. /\ \A u \in Task : ~At(u, "activate")'
      /\ \A u \in Task \ {n} : ~Holds(u)'
  BY <1>1, <1>3, <1>7 DEF Holds, At
<1>9. OneTurn' /\ TurnOrActive' /\ OneActive' /\ LostIsLast' /\ OpenIsKnown' /\ NoEcho'
  BY <1>3, <1>6, <1>8, Names
  DEF OneTurn, TurnOrActive, OneActive, LostIsLast, OpenIsKnown, NoEcho
<1>10. LinksFit'
  <2>1. \A p \in Objective : linked'[p] <= objectives'[p].version
    BY <1>2, <1>4 DEF LinksFit
  <2>2. \A p \in Objective : linked'[p] # 0 => Linked(p)' \in Child /\ Present(Linked(p))'
    BY <1>2, <1>4 DEF LinksFit, Linked, Present
  <2>3. \A p \in PendingNow' : linked'[p] # 0 => linked'[p] < objectives'[p].version
    BY <1>2, <1>4, <1>6 DEF LinksFit, PendingNow
  <2>4. \A p \in Objective : objectives'[p].status = "absent" => linked'[p] = 0
    BY <1>2, <1>4 DEF LinksFit
  <2> QED BY <1>6, <2>1, <2>2, <2>3, <2>4 DEF LinksFit
<1>11. Versions'
  <2>1. \A d \in Execute : Present(d)' => d \in Child
    BY <1>2 DEF Turns, Versions, Present
  <2>2. ASSUME NEW d \in Child, Present(d)'
        PROVE  /\ d[2] >= 1 /\ ~(d[2] > linked'[d[1]])
               /\ d[2] < linked'[d[1]] => commands'[d].state = "failed"
               /\ d[2] = linked'[d[1]] /\ d[1] \in PendingNow' => commands'[d].state = "failed"
    <3>1. Present(d) /\ d = <<d[1], d[2]>> /\ d[2] \in Nat
      BY <1>2, <2>2, Names DEF Present
    <3>2. ~(d[2] > linked[d[1]])
      BY <1>3, <3>1 DEF Turns, Versions, Chooses, NobodyActivates
    <3>3. /\ d[2] >= 1
          /\ d[2] < linked[d[1]] => commands[d].state = "failed"
          /\ d[2] = linked[d[1]] /\ d[1] \in PendingNow => commands[d].state = "failed"
      BY <3>1 DEF Turns, Versions
    <3>4. d[1] = o /\ d[2] = linked[o] => commands[d].state = "failed"
      BY <1>4, <1>5, <3>1, <3>3 DEF LinksFit
    <3> QED BY <1>2, <1>6, <3>2, <3>3, <3>4
  <2> QED BY <2>1, <2>2 DEF Versions
<1>12. ASSUME NEW u \in Task PROVE Knows(u)'
  <2>1. CASE u = n
    <3>1. task'[u].pc \notin Rebalancing \union Informed \union {"fundProposal", "append", "activate"}
      BY <1>1, <1>7, <2>1 DEF Informed
    <3> QED BY <3>1 DEF Knows, At
  <2>2. CASE u # n
    BY <1>8, <2>2, KnowsNot
  <2> QED BY <2>1, <2>2
<1>13. GatewayTerminated'
  <2>1. task[n].pc \notin {"idle", "waits", "reconciles", "terminates"}
    BY DEF Holds, Holding, Rebalancing, Informed, Onward, Reads
  <2> QED BY <1>1, <1>2, <2>1, GatewaySame
<1>14. SubmitterFirst' /\ NotYet'
  BY <1>1, <1>2, <1>3, <1>8, Names DEF SubmitterFirst, NotYet
<1>15. Resting => /\ Resting' /\ Closing' /\ \A d : Settling(d)'
  <2> SUFFICES ASSUME Resting PROVE Resting'
    BY <1>6 DEF Closing, Settling
  <2>1. ~accepting'
    BY <1>1, <1>2 DEF Resting, NoHolder
  <2> QED BY <1>3, <1>8, <2>1 DEF Resting, NobodyActivates
<1>16. EndedIsClosing'
  BY <1>2, <1>15 DEF Turns, EndedIsClosing, Closing
<1>17. ASSUME NEW m \in Notifier PROVE Follows(m)'
  <2>1. CASE m = n
    <3>1. task'[m].pc \notin Following
      BY <1>1, <1>7, <2>1
    <3> QED BY <3>1, FollowsNot
  <2>2. CASE m # n
    <3>1. task'[m] = task[m] /\ Follows(m)
      BY <1>1, <2>2, Names DEF Turns
    <3>2. Committed(m) \/ (At(m, "child") /\ Replayed(m)) \/ At(m, "endMission") => Resting
      BY <3>1 DEF Follows, Settling, Closing
    <3>3. Committed(m) => Settling(task[m].child)'
      BY <1>15, <3>1, <3>2 DEF Settling
    <3> QED BY <1>2, <1>15, <3>1, <3>2, <3>3, FollowsOther
  <2> QED BY <2>1, <2>2
<1> QED
  BY <1>9, <1>10, <1>11, <1>12, <1>13, <1>14, <1>16, <1>17 DEF Turns

LEMMA RearmsTurn ==
  ASSUME Shape, Turns, NEW n \in Notifier, RebalanceRearms(n)
  PROVE  Turns'
<1>1. PICK o : o = ObjectiveOf(n)
  OBVIOUS
<1>2. /\ task[n].pc = "rearm" /\ n \in Task /\ task[n] \in TaskRecord /\ ~At(n, "idle")
      /\ task[n].pc \notin Unlooked /\ task[n].pc \in Rebalancing /\ Holds(n) /\ ~At(n, "activate")
      /\ UNCHANGED <<journalVars, pending>>
  BY Names DEF RebalanceRearms, At, Unlooked, OnlyRows, Forgets, Shape, Rebalancing, Holds, Holding
<1>3. o \in Objective /\ VersionRead(n) \in Nat
  BY <1>1, <1>2, AboutChild
<1>4. CASE ~MayRetry(o, VersionRead(n) + 2)
  <2>1. UNCHANGED repositoryVars /\ Becomes(n, OnChild(task[n]))
    BY <1>1, <1>4 DEF RebalanceRearms
  <2> QED BY <1>2, <2>1, TurnToChild DEF repositoryVars
<1>5. CASE MayRetry(o, VersionRead(n) + 2)
  <2>1. RearmObjective(o, VersionRead(n) + 2) /\ Calls(n, "advance")
    BY <1>1, <1>5 DEF RebalanceRearms
  <2>2. objectives \in [Objective -> [status : ObjectiveStatuses, version : Nat, budget : Nat]]
    BY DEF Shape, TypeOK, RepositoryTypeOK
  <2>3. /\ objectives'[o].status = "pending" /\ UNCHANGED <<linked, mission>>
        /\ objectives'[o].version = objectives[o].version + 1
        /\ \A p \in Objective \ {o} : objectives'[p] = objectives[p]
    BY <1>3, <2>1, <2>2 DEF RearmObjective, MayRetry
  <2> DEFINE y == Reading(task[n], "advance")
  <2>4. /\ y \in TaskRecord /\ y.pc = "mission" /\ y.next = "advance"
        /\ y.child = task[n].child
    BY <1>2, ReadingRecord DEF Procedures
  <2>5. Becomes(n, y)
    BY <2>1 DEF Calls
  <2> HIDE DEF y
  <2> QED BY <1>1, <1>2, <1>3, <2>3, <2>4, <2>5, PendingAgain
<1> QED BY <1>4, <1>5

LEMMA AppendsTurn ==
  ASSUME Shape, Turns, NEW n \in Notifier, ExploreAppends(n)
  PROVE  Turns'
<1>1. PICK o : o = Proposed(n)
  OBVIOUS
<1>2. /\ task[n].pc = "append" /\ n \in Task /\ task[n] \in TaskRecord /\ ~At(n, "idle")
      /\ Holds(n) /\ ~At(n, "activate") /\ task[n].pc \notin Rebalancing
      /\ UNCHANGED <<journalVars, pending>>
  BY Names DEF ExploreAppends, At, OnlyRows, Forgets, Shape, Rebalancing, Holds, Holding, Informed
<1>3. o \in Objective
  <2>1. Unproposed(task[n].snap) # {} /\ task[n].snap \in SnapRecord
    BY <1>2, AboutChild DEF Turns, Knows
  <2> QED BY <1>1, <2>1, UnproposedChosen DEF Proposed
<1>4. CASE objectives[o].status # "absent"
  <2>1. UNCHANGED repositoryVars /\ Becomes(n, Idle)
    BY <1>1, <1>4 DEF ExploreAppends
  <2> QED BY <1>2, <2>1, TurnIdles DEF repositoryVars
<1>5. CASE objectives[o].status = "absent"
  <2> DEFINE z == [task[n] EXCEPT !.caller = "explore"]
             y == Reading(z, "advance")
  <2>1. AppendObjective(o) /\ Becomes(n, y)
    BY <1>1, <1>5 DEF ExploreAppends
  <2>2. objectives \in [Objective -> [status : ObjectiveStatuses, version : Nat, budget : Nat]]
    BY DEF Shape, TypeOK, RepositoryTypeOK
  <2>3. /\ objectives'[o].status = "pending" /\ UNCHANGED <<linked, mission>>
        /\ objectives'[o].version = objectives[o].version
        /\ \A p \in Objective \ {o} : objectives'[p] = objectives[p]
    BY <1>3, <2>1, <2>2 DEF AppendObjective
  <2>4. z \in TaskRecord /\ z.child = task[n].child
    BY <1>2 DEF TaskRecord
  <2> HIDE DEF z
  <2>5. /\ y \in TaskRecord /\ y.pc = "mission" /\ y.next = "advance"
        /\ y.child = task[n].child
    BY <2>4, ReadingRecord DEF Procedures
  <2> HIDE DEF y
  <2> QED BY <1>2, <1>3, <1>5, <2>1, <2>3, <2>5, PendingAgain
<1> QED BY <1>4, <1>5

-----------------------------------------------------------------------------
(* Every step keeps the invariant.                                         *)
LEMMA TaskKeeps ==
  ASSUME Shape, Turns, NEW t \in Task, Snapshots(t) \/ Advances(t)
  PROVE  Shape' /\ Turns'
<1>1. Knows(t)
  BY DEF Turns
<1>2. CASE Snapshots(t)
  BY <1>2, SnapshotsShape, ReadsTurn
<1>3. CASE AdvanceCreatesNothing(t)
  BY <1>3, CreatesNothingShape, CreatesNothingTurn
<1>4. CASE AdvanceCreates(t)
  BY <1>4, CreatesShape, CreatesTurn
<1>5. CASE AdvanceRefused(t)
  BY <1>5, RefusedShape, LeavesTurn
<1>6. CASE AdvanceActivates(t)
  BY <1>1, <1>6, ActivatesShape, ActivatesTurn
<1>7. CASE AdvanceRuns(t)
  BY <1>7, RunsShape, LeavesTurn
<1> QED BY <1>2, <1>3, <1>4, <1>5, <1>6, <1>7 DEF Advances

LEMMA NotifierKeeps ==
  ASSUME Shape, Turns, NEW n \in Notifier, NotifierStep(n)
  PROVE  Shape' /\ Turns'
<1>1. n \in Task /\ Knows(n)
  BY Names DEF Turns
<1>2. CASE NotifyLooks(n) \/ NotifySkips(n) \/ NotifyRebalances(n) \/ NotifyTransitions(n)
  BY <1>2, NotifiesShape, NotifiesTurn
<1>3. CASE RebalanceDeclined(n) \/ PlannerRaises(n) \/ PlannerDeclines(n)
           \/ ChildRefused(n) \/ ChildAnswers(n) \/ AdaptStops(n)
  BY <1>3, DeclinesShape, DeclinesTurn
<1>4. CASE RebalanceSettles(n)
  BY <1>4, RebalancesShape, SettlesTurn
<1>5. CASE RebalanceFailsObjective(n)
  BY <1>5, RebalancesShape, FailsObjectiveTurn
<1>6. CASE (\E amount \in 1..Limit : PlannerProposes(n, amount)) \/ RebalanceReserves(n)
  BY <1>6, RebalancesShape, PlansTurn
<1>7. CASE RebalanceFailsMission(n)
  BY <1>7, RebalancesShape, EndsTurn
<1>8. CASE RebalanceReplaces(n)
  BY <1>8, RebalancesShape, ReplacesTurn
<1>9. CASE RebalanceRearms(n)
  BY <1>9, RebalancesShape, RearmsTurn
<1>10. CASE ChildReplayed(n) \/ ChildEndsMission(n)
  BY <1>10, EndsShape, EndsTurn
<1>11. CASE ChildSettles(n)
  BY <1>11, ChildShape, SettlesTurn
<1>12. CASE ChildEndsObjective(n)
  BY <1>12, ChildShape, EndsObjectiveTurn
<1>13. CASE AdaptDecides(n) \/ VerifyCompletes(n)
  BY <1>13, AdaptsShape, AdaptsTurn
<1>14. CASE ExploreProposes(n) \/ ExploreFunds(n)
  BY <1>1, <1>14, ExploresShape, ExploresTurn
<1>15. CASE ExploreAppends(n)
  BY <1>1, <1>15, ExploresShape, AppendsTurn
<1>16. CASE Snapshots(n) \/ Advances(n)
  BY <1>1, <1>16, TaskKeeps
<1> QED
  BY <1>2, <1>3, <1>4, <1>5, <1>6, <1>7, <1>8, <1>9, <1>10, <1>11, <1>12, <1>13, <1>14, <1>15,
     <1>16 DEF NotifierStep

LEMMA SubmissionKeeps ==
  ASSUME Shape, Turns, NEW s \in Submitter, SubmitCreates(s) \/ SubmitterStep(s) \/ SubmitCut(s)
  PROVE  Shape' /\ Turns'
<1>1. s \in Task
  BY Names
<1>2. CASE SubmitCreates(s)
  BY <1>2, SubmitsShape, SubmissionTurn
<1>3. CASE SubmitFunds(s) \/ SubmitPlans(s) \/ SubmitCut(s)
  BY <1>3, SubmitsShape, SubmitsTurn
<1>4. CASE Snapshots(s) \/ Advances(s)
  BY <1>1, <1>4, TaskKeeps
<1> QED BY <1>2, <1>3, <1>4 DEF SubmitterStep

LEMMA WorldKeeps ==
  ASSUME Shape, Turns,
         \/ WorkerStep \/ GatewayStep
         \/ \E s \in Stop, target \in Child \union {NoId} : GatewayStops(s, target)
         \/ \E c \in Child : GatewayTerminates(c) \/ ClockAdvances(c)
  PROVE  Shape' /\ Turns'
<1>1. Versions /\ "worker" \in Notifier /\ "gateway" \in Notifier
  BY DEF Turns, Notifier
<1>2. ASSUME NEW c \in Id, WorkerExpires(c) \/ WorkerStarts(c) PROVE Shape' /\ Turns'
  BY <1>1, <1>2, WorkersShape, WorkersTurn
<1>3. ASSUME NEW outcome \in WorkerOutcomes, NEW actual \in Usage, WorkerEnds(outcome, actual)
      PROVE  Shape' /\ Turns'
  BY <1>3, WorkerEndsShape, WorkersTurn
<1>4. CASE NotifierStep("worker") \/ NotifierStep("gateway")
  BY <1>1, <1>4, NotifierKeeps
<1>5. CASE \/ GatewayWaits \/ GatewayReconciles \/ GatewayCancels \/ GatewayNotifies
           \/ \E outcome \in WorkerOutcomes : GatewaySettles(outcome)
           \/ \E c \in Child : GatewayTerminates(c)
  BY <1>5, GatewayShape, GatewayTurn
<1>6. ASSUME NEW s \in Stop, NEW target \in Child \union {NoId}, GatewayStops(s, target)
      PROVE  Shape' /\ Turns'
  BY <1>1, <1>6, StopsShape, StopsTurn
<1>7. ASSUME NEW c \in Child, ClockAdvances(c) PROVE Shape' /\ Turns'
  <2>1. UNCHANGED <<commands, accepting, objectives, linked, mission, task, pending>>
    BY <1>7 DEF ClockAdvances, DeadlinePasses, repositoryVars, memoryVars
  <2> QED BY <1>7, <2>1, ClockShape, TurnSame
<1> QED BY <1>2, <1>3, <1>4, <1>5, <1>6, <1>7 DEF WorkerStep, GatewayStep

(* The turn of the mission: a task of a submission, a notification or a    *)
(* rebalance may give the mission its next command only while it holds the *)
(* turn, which at most one of them does and none while an objective is     *)
(* active; and what each of them has read holds as far as it acts on it    *)
(* (MissionCoordinator.submit, _advance, on_child_transition and           *)
(* request_rebalance, with the notifications of assembly.py and restarts). *)
THEOREM TurnIsKept == Spec => [](Shape /\ Turns)
<1>1. Init => Shape /\ Turns
  BY InitShape, InitTurn
<1>2. Shape /\ Turns /\ [Next]_vars => Shape' /\ Turns'
  <2> SUFFICES ASSUME Shape, Turns, [Next]_vars PROVE Shape' /\ Turns'
    OBVIOUS
  <2>1. CASE UNCHANGED vars
    <3>1. UNCHANGED <<commands, accepting, objectives, linked, mission, task, pending>>
      BY <2>1 DEF vars, journalVars, repositoryVars, memoryVars
    <3> QED BY <2>1, <3>1, StutterShape, TurnSame
  <2>2. ASSUME NEW s \in Submitter, SubmitCreates(s) \/ SubmitterStep(s) \/ SubmitCut(s)
        PROVE  Shape' /\ Turns'
    BY <2>2, SubmissionKeeps
  <2>3. CASE \/ WorkerStep \/ GatewayStep
             \/ \E s \in Stop, target \in Child \union {NoId} : GatewayStops(s, target)
             \/ \E c \in Child : GatewayTerminates(c) \/ ClockAdvances(c)
    BY <2>3, WorldKeeps
  <2>4. CASE Restart
    BY <2>4, RestartShape, RestartTurn
  <2> QED BY <2>1, <2>2, <2>3, <2>4 DEF Next
<1> QED BY <1>1, <1>2, PTL DEF Spec

(* Every variable of the coordinator, its repository and its journal keeps *)
(* its type, whatever interleaves.                                         *)
THEOREM MissionIsTyped == Spec => []TypeOK
<1>1. Shape /\ Turns => TypeOK
  BY DEF Shape
<1> QED BY <1>1, TurnIsKept, PTL

LEMMA OneOpen ==
  ASSUME Turns, NEW c \in Open, NEW d \in Open
  PROVE  c = d
<1>1. \A t \in Task : \A e : Chooses(t, e) => Holds(t) /\ ActiveNow = {} /\ ~Stuck
  BY HolderAlone DEF Chooses, At, Holds, Holding, Informed
<1>2. CASE c[1] \in ActiveNow /\ c = Linked(c[1])
  BY <1>1, <1>2 DEF Turns, OpenIsKnown, Stuck, OneActive
<1>3. CASE \E t \in Task : Chooses(t, c)
  BY <1>1, <1>3, HolderAlone DEF Chooses
<1>4. CASE Stuck /\ Open = {c}
  BY <1>4
<1> QED BY <1>2, <1>3, <1>4 DEF Turns, OpenIsKnown

(* However submissions, notifications, rebalances, stops and restarts      *)
(* interleave, at most one command of the mission is queued or running,    *)
(* and none once the mission has ended: _advance gives the next command    *)
(* only at the hand of the task that has the turn.                         *)
THEOREM OneChildAtATimeHolds == Spec => []OneChildAtATime
<1>1. Shape /\ Turns => OneChildAtATime
  <2> SUFFICES ASSUME Shape, Turns PROVE OneChildAtATime
    OBVIOUS
  <2>1. mission.status \in MissionEnds => Open = {}
    BY DEF Turns, EndedIsClosing, Closing, Resting
  <2>2. Open = {} => Cardinality(Open) = 0
    BY FS_EmptySet
  <2>3. ASSUME NEW c \in Open PROVE Cardinality(Open) = 1
    <3>1. Open = {c}
      BY OneOpen
    <3> QED BY <3>1, FS_Singleton
  <2> QED BY <2>1, <2>2, <2>3 DEF OneChildAtATime
<1> QED BY <1>1, TurnIsKept, PTL

-----------------------------------------------------------------------------
(* What is on the agenda.  The mission row brings its objectives along; an *)
(* objective that was appended was accepted before, and what it depends on *)
(* is completed.  Only the task that has the turn appends, and it has read *)
(* every proposal that was appended.                                       *)
Appended == {o \in Objective \ First : objectives[o].status # "absent"}
CompletedNow == {o \in Objective : objectives[o].status = "completed"}
Exploring(t) == \/ At(t, "objectives") /\ task[t].next = "explore"
                \/ task[t].pc \in {"explore", "fundProposal"}
Plotting(x) == \/ x.pc = "objectives" /\ x.next = "explore"
               \/ x.pc \in {"explore", "fundProposal", "append"}
Plotted(t) ==
  /\ Exploring(t) \/ At(t, "append") => Appended \subseteq task[t].snap.proposals
  /\ (At(t, "fundProposal") /\ Fits(t)) \/ At(t, "append") => Proposed(t) \in proposals
  /\ At(t, "append") => Needs[Proposed(t)] \subseteq CompletedNow

Agenda ==
  /\ mission.status # "absent" => \A o \in First : objectives[o].status # "absent"
  /\ Appended \subseteq proposals
  /\ \A o \in Appended : Needs[o] \subseteq CompletedNow
  /\ \A t \in Task : Plotted(t)

\* no objective comes or goes, and none that is completed changes
RowsStay ==
  /\ \A o \in Objective : /\ objectives'[o].status = "absent" <=> objectives[o].status = "absent"
                          /\ objectives[o].status = "completed" => objectives'[o].status = "completed"
  /\ proposals \subseteq proposals'
  /\ mission.status = "absent" => mission'.status = "absent"

LEMMA RowsRest ==
  ASSUME UNCHANGED <<mission, objectives, proposals>>
  PROVE  RowsStay
BY DEF RowsStay

LEMMA RowsOfMission ==
  ASSUME NEW version, NEW target, TransitionMission(version, target)
  PROVE  RowsStay
BY DEF RowsStay, TransitionMission, MissionAdmits, MissionSuccessors

LEMMA RowsOfObjective ==
  ASSUME Shape, NEW o \in Objective, NEW version, NEW target, NEW k \in Nat,
         TransitionObjective(o, version, target, k)
  PROVE  RowsStay
<1>1. RepositoryTypeOK
  BY DEF Shape, TypeOK
<1>2. /\ target \in ObjectiveSuccessors(objectives[o].status)
      /\ objectives'[o].status = target
      /\ \A p \in Objective \ {o} : objectives'[p] = objectives[p]
      /\ UNCHANGED <<mission, proposals>>
  BY <1>1, ObjectiveTyped
<1>3. target # "absent" /\ objectives[o].status \notin {"absent", "completed"}
  BY <1>2 DEF ObjectiveSuccessors
<1> QED BY <1>2, <1>3 DEF RowsStay

LEMMA Unplotted ==
  ASSUME NEW x \in TaskRecord
  PROVE  /\ ~Plotting(Idle) /\ ~Plotting(OnChild(x))
         /\ \A p \in Procedures : ~Plotting(Reading(x, p))
         /\ \A p \in Pcs : p \notin {"objectives", "explore", "fundProposal", "append"}
              => ~Plotting([x EXCEPT !.pc = p])
<1>1. ~Plotting(Idle)
  BY Records DEF Plotting
<1>2. ~Plotting(OnChild(x))
  BY OnChildRecord DEF Plotting
<1>3. \A p \in Procedures : ~Plotting(Reading(x, p))
  BY ReadingRecord DEF Plotting
<1>4. \A p \in Pcs : p \notin {"objectives", "explore", "fundProposal", "append"}
              => ~Plotting([x EXCEPT !.pc = p])
  BY GoesRecord DEF Plotting
<1> QED BY <1>1, <1>2, <1>3, <1>4

LEMMA PlottedNot ==
  ASSUME NEW t, ~Plotting(task'[t])
  PROVE  Plotted(t)'
BY DEF Plotted, Plotting, Exploring, At

LEMMA PlottedStays ==
  ASSUME NEW t, Plotted(t), task'[t] = task[t], RowsStay
  PROVE  Plotted(t)'
<1>1. /\ Proposed(t)' = Proposed(t) /\ (Fits(t)' <=> Fits(t)) /\ (Exploring(t)' <=> Exploring(t))
      /\ \A p : At(t, p)' <=> At(t, p)
  BY DEF Proposed, Fits, Unproposed, Completed, Exploring, At
<1>2. Appended' = Appended /\ CompletedNow \subseteq CompletedNow' /\ proposals \subseteq proposals'
  BY DEF RowsStay, Appended, CompletedNow
<1> QED BY <1>1, <1>2, Zenon DEF Plotted

LEMMA AgendaStays ==
  ASSUME Shape, Agenda, NEW t \in Task, NEW x, Becomes(t, x), RowsStay, ~Plotting(x) \/ Plotted(t)'
  PROVE  Agenda'
<1>1. task'[t] = x /\ \A u \in Task \ {t} : task'[u] = task[u]
  BY DEF Shape, Becomes
<1>2. Plotted(t)'
  BY <1>1, PlottedNot
<1>3. \A u \in Task : Plotted(u)'
  BY <1>1, <1>2, PlottedStays DEF Agenda
<1>4. /\ Appended' = Appended /\ CompletedNow \subseteq CompletedNow' /\ proposals \subseteq proposals'
      /\ mission'.status # "absent" => mission.status # "absent"
      /\ \A o \in First : objectives[o].status # "absent" => objectives'[o].status # "absent"
  BY Names DEF RowsStay, Appended, CompletedNow
<1> QED BY <1>3, <1>4 DEF Agenda

(* A snapshot that is taken to explore reads the proposals before the      *)
(* objectives, and no task that has not the turn appends one.              *)
LEMMA ReadsAgenda ==
  ASSUME Shape, Turns, Agenda, NEW t \in Task, Snapshots(t)
  PROVE  Agenda'
<1>1. PICK y \in TaskRecord :
        /\ Becomes(t, y) /\ OnlyTask /\ y.next = task[t].next
        /\ \/ y.pc \in {"transitions", "account"}
           \/ At(t, "account") /\ y.pc = "objectives" /\ y.snap.proposals = proposals
           \/ /\ At(t, "objectives") /\ y.pc = y.next
              /\ y.snap.proposals = task[t].snap.proposals
  BY ReadsRecord, Zenon
<1>2. RowsStay /\ UNCHANGED <<objectives, proposals>>
  BY <1>1, RowsRest DEF OnlyTask, repositoryVars
<1>3. y.next \in Procedures \union {"idle"}
  BY DEF TaskRecord
<1>4. task'[t] = y
  BY <1>1 DEF Shape, Becomes
<1>5. Appended' = Appended
  BY <1>2 DEF Appended
<1>6. CASE y.pc \in {"transitions", "account"}
  <2>1. ~Plotting(y)
    BY <1>6 DEF Plotting
  <2> QED BY <1>1, <1>2, <2>1, AgendaStays
<1>7. CASE At(t, "account") /\ y.pc = "objectives" /\ y.snap.proposals = proposals
  <2>1. Plotted(t)'
    BY <1>4, <1>5, <1>7 DEF Plotted, At, Exploring, Agenda
  <2> QED BY <1>1, <1>2, <2>1, AgendaStays
<1>8. CASE At(t, "objectives") /\ y.pc = y.next /\ y.snap.proposals = task[t].snap.proposals
  <2>1. Plotted(t)
    BY DEF Agenda
  <2>2. y.pc \notin {"objectives", "fundProposal", "append"}
    BY <1>3, <1>8 DEF Procedures
  <2>3. y.pc = "explore" => Appended \subseteq y.snap.proposals
    BY <1>1, <1>8, <2>1 DEF Plotted, Exploring
  <2>4. Plotted(t)'
    BY <1>4, <1>5, <2>2, <2>3 DEF Plotted, At, Exploring
  <2> QED BY <1>1, <1>2, <2>4, AgendaStays
<1> QED BY <1>1, <1>6, <1>7, <1>8

LEMMA AgendaMoved ==
  ASSUME Shape, Agenda, NEW t \in Task, NEW target, NEW status, ~At(t, "idle"),
         MissionMoves(t, target, Returns(t, status)),
         t \in Submitter => task[t].caller = "submit"
  PROVE  Agenda'
<1>1. RowsStay
  BY RowsRest, RowsOfMission DEF MissionMoves, repositoryVars
<1>2. PICK y \in TaskRecord : Becomes(t, y) /\ ~Plotting(y)
  <2>1. task[t] \in TaskRecord /\ "adapt" \in Procedures
    BY DEF Shape, Procedures
  <2> QED BY <2>1, MissionMoved, Unplotted
<1> QED BY <1>1, <1>2, AgendaStays

LEMMA AdvancesAgenda ==
  ASSUME Shape, Turns, Agenda, NEW t \in Task, Advances(t)
  PROVE  Agenda'
<1>1. task[t] \in TaskRecord /\ {"adapt", "child"} \subseteq Procedures
  BY DEF Shape, Procedures
<1>2. task[t].pc \in {"advance", "activate", "run"}
  BY DEF Advances, AdvanceCreatesNothing, AdvanceCreates, AdvanceRefused, AdvanceActivates,
     AdvanceRuns, AdvanceReady, At
<1>3. (t \in Submitter => task[t].caller = "submit") /\ ~At(t, "idle")
  BY <1>2, SubmitCalled
<1>4. ASSUME NEW target, NEW status, MissionMoves(t, target, Returns(t, status)) PROVE Agenda'
  BY <1>3, <1>4, AgendaMoved
<1>5. ASSUME NEW status, Returns(t, status), UNCHANGED repositoryVars PROVE Agenda'
  <2>1. \E y : Becomes(t, y) /\ ~Plotting(y)
    BY <1>1, <1>3, <1>5, ReturnsTo, Unplotted
  <2> QED BY <1>5, <2>1, RowsRest, AgendaStays DEF repositoryVars
<1>6. ASSUME Raises(t), UNCHANGED repositoryVars PROVE Agenda'
  <2>1. \E y : Becomes(t, y) /\ ~Plotting(y)
    BY <1>1, <1>6, RaisesTo, Unplotted
  <2> QED BY <1>6, <2>1, RowsRest, AgendaStays DEF repositoryVars
<1>7. CASE AdvanceCreatesNothing(t)
  BY <1>4, <1>5, <1>7 DEF AdvanceCreatesNothing
<1>8. CASE AdvanceCreates(t)
  <2>1. Becomes(t, [task[t] EXCEPT !.pc = "activate"]) /\ UNCHANGED repositoryVars
    BY <1>8 DEF AdvanceCreates, Goes
  <2>2. ~Plotting([task[t] EXCEPT !.pc = "activate"])
    BY <1>1, Unplotted DEF Pcs
  <2> QED BY <2>1, <2>2, RowsRest, AgendaStays DEF repositoryVars
<1>9. CASE AdvanceRefused(t)
  BY <1>6, <1>9 DEF AdvanceRefused
<1>10. CASE AdvanceActivates(t)
  <2>1. Knows(t)
    BY DEF Turns
  <2>2. PICK o, v : o = Chosen(task[t].snap) /\ v = objectives[o].version
    OBVIOUS
  <2>3. /\ o \in Objective /\ v \in Nat
        /\ TransitionObjective(o, v, "active", v + 1)
        /\ \E y \in TaskRecord : Becomes(t, y) /\ (y = Idle \/ y.pc = "run")
    BY <1>10, <2>1, <2>2, Activation
  <2>4. PICK y \in TaskRecord : Becomes(t, y) /\ (y = Idle \/ y.pc = "run")
    BY <2>3
  <2>5. ~Plotting(y)
    BY <1>1, <2>4, Unplotted DEF Plotting
  <2>6. RowsStay
    BY <2>3, RowsOfObjective
  <2> QED BY <2>4, <2>5, <2>6, AgendaStays
<1>11. CASE AdvanceRuns(t)
  BY <1>4, <1>11 DEF AdvanceRuns
<1> QED BY <1>7, <1>8, <1>9, <1>10, <1>11 DEF Advances

LEMMA NotifiesAgenda ==
  ASSUME Shape, Turns, Agenda, NEW n \in Notifier,
         \/ NotifyLooks(n) \/ NotifySkips(n) \/ NotifyRebalances(n) \/ NotifyTransitions(n)
         \/ RebalanceDeclined(n) \/ PlannerRaises(n) \/ PlannerDeclines(n)
         \/ ChildRefused(n) \/ ChildAnswers(n) \/ AdaptStops(n)
  PROVE  Agenda'
<1>1. n \in Task /\ task[n] \in TaskRecord /\ UNCHANGED repositoryVars
  BY Names DEF Shape, NotifyLooks, NotifySkips, NotifyRebalances, NotifyTransitions, OnlyTask,
     RebalanceDeclined, PlannerRaises, PlannerDeclines, ChildRefused, ChildAnswers, AdaptStops
<1>2. PICK x : Becomes(n, x) /\ ~Plotting(x)
  <2>1. CASE NotifyLooks(n)
    <3>1. PICK s : s = commands[task[n].child].state
      OBVIOUS
    <3>2. ~Plotting([task[n] EXCEPT !.pc = "checks", !.seen = s])
      BY <1>1 DEF Plotting, TaskRecord
    <3> QED BY <1>1, <2>1, <3>1, <3>2, Unplotted DEF NotifyLooks
  <2>2. CASE NotifyRebalances(n)
    <3> DEFINE z == [task[n] EXCEPT !.caller = "rebalance"]
    <3>1. z \in TaskRecord /\ "rebalance" \in Procedures
      BY <1>1 DEF TaskRecord, Procedures
    <3>2. Becomes(n, Reading(z, "rebalance"))
      BY <2>2 DEF NotifyRebalances
    <3> HIDE DEF z
    <3> QED BY <3>1, <3>2, Unplotted
  <2>3. CASE NotifySkips(n) \/ NotifyTransitions(n) \/ RebalanceDeclined(n) \/ PlannerRaises(n)
             \/ ChildRefused(n) \/ AdaptStops(n)
    <3>1. Becomes(n, Idle) \/ Becomes(n, OnChild(task[n]))
      BY <2>3 DEF NotifySkips, NotifyTransitions, RebalanceDeclined, PlannerRaises,
         ChildRefused, AdaptStops
    <3> QED BY <1>1, <3>1, Unplotted
  <2>4. CASE PlannerDeclines(n) \/ ChildAnswers(n)
    <3>1. \E p \in {"failMission", "settle"} : Becomes(n, [task[n] EXCEPT !.pc = p])
      BY <2>4 DEF PlannerDeclines, ChildAnswers, Goes
    <3> QED BY <1>1, <3>1, Unplotted DEF Pcs
  <2> QED BY <2>1, <2>2, <2>3, <2>4
<1> QED BY <1>1, <1>2, RowsRest, AgendaStays DEF repositoryVars

LEMMA RebalancesAgenda ==
  ASSUME Shape, Turns, Agenda, NEW n \in Notifier,
         \/ RebalanceSettles(n) \/ RebalanceFailsObjective(n)
         \/ \E amount \in 1..Limit : PlannerProposes(n, amount)
         \/ RebalanceFailsMission(n) \/ RebalanceReserves(n)
         \/ RebalanceReplaces(n) \/ RebalanceRearms(n)
  PROVE  Agenda'
<1>1. /\ n \in Task /\ task[n] \in TaskRecord /\ n \notin Submitter /\ RepositoryTypeOK
      /\ "advance" \in Procedures
  BY Names, CoordinatorAssumption DEF Shape, TypeOK, Procedures
<1>2. ~At(n, "idle")
  BY DEF At, RebalanceSettles, RebalanceFailsObjective, PlannerProposes, RebalanceFailsMission,
     RebalanceReserves, RebalanceReplaces, RebalanceRearms
<1>3. PICK o : o = ObjectiveOf(n)
  OBVIOUS
<1>4. o \in Objective /\ task[n].child[2] \in Nat
  BY <1>2, <1>3, AboutChild
<1>5. CASE RebalanceSettles(n)
  <2>1. \E y \in TaskRecord : Becomes(n, y) /\ y.pc = "failObjective" /\ \E after : SaveBudget(after)
    BY <1>5, SettledRecord, Zenon
  <2> QED BY <1>1, <2>1, RowsRest, AgendaStays DEF SaveBudget, Plotting
<1>6. ASSUME NEW amount \in 1..Limit, PlannerProposes(n, amount) PROVE Agenda'
  <2>1. \E y \in TaskRecord : Becomes(n, y) /\ y.pc = "saveRetry" /\ OnlyTask
    BY <1>6, ProposedRecord, Zenon
  <2> QED BY <1>1, <2>1, RowsRest, AgendaStays DEF OnlyTask, repositoryVars, Plotting
<1>7. CASE RebalanceFailsMission(n)
  BY <1>1, <1>2, <1>7, AgendaMoved DEF RebalanceFailsMission
<1>8. CASE RebalanceReserves(n)
  <2>1. Becomes(n, [task[n] EXCEPT !.pc = "replace"]) /\ UNCHANGED <<mission, objectives, proposals>>
    BY <1>8 DEF RebalanceReserves, SaveBudget, Goes
  <2> QED BY <1>1, <2>1, Unplotted, RowsRest, AgendaStays DEF Pcs
<1>9. CASE RebalanceFailsObjective(n) \/ RebalanceReplaces(n) \/ RebalanceRearms(n)
  <2>1. \/ Becomes(n, OnChild(task[n])) \/ Becomes(n, Reading(task[n], "advance"))
        \/ \E p \in {"planner", "rearm"} : Becomes(n, [task[n] EXCEPT !.pc = p])
    BY <1>9 DEF RebalanceFailsObjective, RebalanceReplaces, RebalanceRearms, Calls, Goes
  <2>2. \E y : Becomes(n, y) /\ ~Plotting(y)
    BY <1>1, <2>1, Unplotted DEF Pcs
  <2>3. \/ UNCHANGED repositoryVars
        \/ \E version : TransitionObjective(o, version, "failed", task[n].child[2])
        \/ \E version, amount : ReplaceObjectiveBudget(o, version, amount)
        \/ \E version : RearmObjective(o, version)
    BY <1>3, <1>9 DEF RebalanceFailsObjective, RebalanceReplaces, RebalanceRearms
  <2>4. RowsStay
    <3>1. CASE UNCHANGED repositoryVars
      BY <3>1, RowsRest DEF repositoryVars
    <3>2. ASSUME NEW version, TransitionObjective(o, version, "failed", task[n].child[2])
          PROVE  RowsStay
      BY <1>4, <3>2, RowsOfObjective
    <3>3. ASSUME NEW version, NEW amount, ReplaceObjectiveBudget(o, version, amount) PROVE RowsStay
      BY <1>1, <1>4, <3>3 DEF RowsStay, ReplaceObjectiveBudget, RepositoryTypeOK
    <3>4. ASSUME NEW version, RearmObjective(o, version) PROVE RowsStay
      <4>1. /\ objectives[o].status = "failed" /\ objectives'[o].status = "pending"
            /\ \A p \in Objective \ {o} : objectives'[p] = objectives[p]
            /\ UNCHANGED <<mission, proposals>>
        BY <1>1, <1>4, <3>4, RearmTyped
      <4> QED BY <4>1 DEF RowsStay
    <3> QED BY <2>3, <3>1, <3>2, <3>3, <3>4
  <2> QED BY <1>1, <2>2, <2>4, AgendaStays
<1> QED BY <1>5, <1>6, <1>7, <1>8, <1>9

LEMMA ChildAgenda ==
  ASSUME Shape, Turns, Agenda, NEW n \in Notifier,
         \/ ChildReplayed(n) \/ ChildEndsMission(n) \/ ChildSettles(n) \/ ChildEndsObjective(n)
         \/ AdaptDecides(n) \/ VerifyCompletes(n)
  PROVE  Agenda'
<1>1. /\ n \in Task /\ task[n] \in TaskRecord /\ n \notin Submitter
      /\ {"advance", "verify", "explore"} \subseteq Procedures
  BY Names, CoordinatorAssumption DEF Shape, Procedures
<1>2. ~At(n, "idle")
  BY DEF At, ChildReplayed, ChildEndsMission, ChildSettles, ChildEndsObjective, AdaptDecides,
     VerifyCompletes
<1>3. CASE ChildReplayed(n) \/ ChildEndsMission(n)
  BY <1>1, <1>2, <1>3, AgendaMoved DEF ChildReplayed, ChildEndsMission
<1>4. CASE ChildSettles(n) \/ ChildEndsObjective(n) \/ AdaptDecides(n) \/ VerifyCompletes(n)
  <2>1. \/ Becomes(n, Idle)
        \/ \E p \in {"advance", "verify", "explore"} : Becomes(n, Reading(task[n], p))
        \/ \E p \in {"endObjective", "endMission"} : Becomes(n, [task[n] EXCEPT !.pc = p])
    BY <1>4 DEF ChildSettles, ChildEndsObjective, AdaptDecides, VerifyCompletes, Calls, Goes
  <2>2. \E y : Becomes(n, y) /\ ~Plotting(y)
    BY <1>1, <2>1, Unplotted DEF Pcs
  <2>3. PICK o : o = ObjectiveOf(n)
    OBVIOUS
  <2>4. o \in Objective /\ task[n].child[2] \in Nat
    BY <1>2, <2>3, AboutChild
  <2>5. \/ UNCHANGED <<mission, objectives, proposals>>
        \/ \E version, target : TransitionMission(version, target)
        \/ \E version, target : TransitionObjective(o, version, target, task[n].child[2])
    BY <1>4, <2>3 DEF ChildSettles, ChildEndsObjective, AdaptDecides, VerifyCompletes, SaveBudget,
       OnlyTask, repositoryVars
  <2>6. RowsStay
    BY <2>4, <2>5, RowsRest, RowsOfMission, RowsOfObjective
  <2> QED BY <1>1, <2>2, <2>6, AgendaStays
<1> QED BY <1>3, <1>4

(* What is proposed is on record before it is paid for and appended, and   *)
(* was admitted on what is completed.                                      *)
LEMMA ExploresAgenda ==
  ASSUME Shape, Turns, Agenda, NEW n \in Notifier,
         ExploreProposes(n) \/ ExploreFunds(n) \/ ExploreAppends(n)
  PROVE  Agenda'
<1>1. /\ n \in Task /\ task[n] \in TaskRecord /\ Plotted(n) /\ Holds(n) /\ ~At(n, "idle") /\ Knows(n)
      /\ task[n].pc \in {"explore", "fundProposal", "append"} /\ ~At(n, "activate")
  BY Names DEF Shape, Agenda, ExploreProposes, ExploreFunds, ExploreAppends, At, Holds, Holding,
     Informed, Onward, Turns
<1>2. PICK o, snap : o = Proposed(n) /\ snap = task[n].snap
  OBVIOUS
<1>3. o \in Objective \ First /\ snap.objectives = objectives
  <2>1. Unproposed(snap) # {} /\ snap \in SnapRecord
    BY <1>1, <1>2, AboutChild DEF Knows, ExploreProposes, ExploreFunds, ExploreAppends, At
  <2> QED BY <1>1, <1>2, <2>1, UnproposedChosen DEF Proposed, Knows, Informed, Onward
<1>4. Completed(snap) = CompletedNow
  BY <1>3 DEF Completed, CompletedNow
<1>5. ASSUME NEW p \in {"fundProposal", "append"}, Becomes(n, [task[n] EXCEPT !.pc = p])
      PROVE  /\ task'[n].pc = p /\ task'[n].snap = snap /\ Proposed(n)' = o
             /\ Fits(n)' <=> Fits(n)
  <2>1. task'[n].pc = p /\ task'[n].snap = snap
    BY <1>1, <1>2, <1>5, GoesRecord DEF Becomes, Shape, Pcs
  <2> QED BY <1>2, <2>1 DEF Proposed, Fits
<1>6. CASE ExploreProposes(n)
  <2>1. /\ UNCHANGED <<mission, objectives>>
        /\ proposals' = IF Fits(n) THEN proposals \union {o} ELSE proposals
        /\ Becomes(n, [task[n] EXCEPT !.pc = "fundProposal"]) /\ At(n, "explore")
    BY <1>2, <1>6 DEF ExploreProposes, SaveProposal, Goes, repositoryVars
  <2>2. RowsStay /\ Appended' = Appended
    BY <2>1 DEF RowsStay, Appended
  <2>3. Plotted(n)'
    BY <1>1, <1>2, <1>5, <2>1, <2>2 DEF Plotted, At, Exploring
  <2> QED BY <1>1, <2>1, <2>2, <2>3, AgendaStays
<1>7. CASE ExploreFunds(n)
  <2>1. UNCHANGED <<mission, objectives, proposals>> /\ At(n, "fundProposal")
    BY <1>7 DEF ExploreFunds, SaveBudget
  <2>2. CASE ~Fits(n)
    <3>1. Becomes(n, Idle)
      BY <1>7, <2>2 DEF ExploreFunds
    <3> QED BY <1>1, <2>1, <3>1, Unplotted, RowsRest, AgendaStays
  <2>3. CASE Fits(n)
    <3>1. Becomes(n, [task[n] EXCEPT !.pc = "append"])
      BY <1>7, <2>3 DEF ExploreFunds, Goes
    <3>2. Needs[o] \subseteq CompletedNow
      BY <1>2, <1>4, <2>3 DEF Fits
    <3>5. o \in proposals /\ Appended \subseteq snap.proposals
      BY <1>1, <1>2, <2>1, <2>3 DEF Plotted, Exploring, At
    <3>3. CompletedNow' = CompletedNow /\ Appended' = Appended
      BY <2>1 DEF CompletedNow, Appended
    <3>4. Plotted(n)'
      BY <1>5, <2>1, <3>1, <3>2, <3>3, <3>5 DEF Plotted, At, Exploring
    <3> QED BY <1>1, <2>1, <3>1, <3>4, RowsRest, AgendaStays
  <2> QED BY <2>2, <2>3
<1>8. CASE ExploreAppends(n)
  <2>1. At(n, "append") /\ RepositoryTypeOK
    BY <1>8 DEF ExploreAppends, Shape, TypeOK
  <2>2. CASE objectives[o].status # "absent"
    <3>1. UNCHANGED <<mission, objectives, proposals>> /\ Becomes(n, Idle)
      BY <1>2, <1>8, <2>2 DEF ExploreAppends, repositoryVars
    <3> QED BY <1>1, <3>1, Unplotted, RowsRest, AgendaStays
  <2>3. CASE objectives[o].status = "absent"
    <3> DEFINE z == [task[n] EXCEPT !.caller = "explore"]
    <3>1. AppendObjective(o) /\ Becomes(n, Reading(z, "advance"))
      BY <1>2, <1>8, <2>3 DEF ExploreAppends
    <3>2. z \in TaskRecord
      BY <1>1 DEF TaskRecord
    <3> HIDE DEF z
    <3>3. /\ objectives'[o].status = "pending" /\ UNCHANGED <<mission, proposals>>
          /\ \A p \in Objective \ {o} : objectives'[p] = objectives[p]
      BY <1>3, <2>1, <3>1, AppendTyped
    <3>4. ~Plotting(Reading(z, "advance"))
      BY <3>2, Unplotted DEF Procedures
    <3>5. \A u \in Task : ~Plotting(task'[u])
      <4>1. \A u \in Task \ {n} : ~Plotting(task[u])
        BY <1>1, HolderAlone DEF Plotting, Holds, Holding, Informed, Onward, Reads
      <4> QED BY <1>1, <3>1, <3>4, <4>1 DEF Becomes, Shape
    <3>6. \A u \in Task : Plotted(u)'
      BY <3>5, PlottedNot
    <3>7. Appended' = Appended \union {o} /\ CompletedNow' = CompletedNow
      BY <1>3, <2>3, <3>3 DEF Appended, CompletedNow
    <3>8. o \in proposals /\ Needs[o] \subseteq CompletedNow
      BY <1>1, <1>2, <2>1 DEF Plotted
    <3>9. Appended' \subseteq proposals' /\ \A p \in Appended' : Needs[p] \subseteq CompletedNow'
      BY <3>3, <3>7, <3>8 DEF Agenda
    <3>10. mission'.status # "absent" => \A p \in First : objectives'[p].status # "absent"
      BY <1>3, <3>3, Names DEF Agenda
    <3> QED BY <3>6, <3>9, <3>10 DEF Agenda
  <2> QED BY <2>2, <2>3
<1> QED BY <1>6, <1>7, <1>8

LEMMA SubmitsAgenda ==
  ASSUME Shape, Turns, Agenda, NEW s \in Submitter,
         SubmitCreates(s) \/ SubmitFunds(s) \/ SubmitPlans(s) \/ SubmitCut(s)
  PROVE  Agenda'
<1>1. s \in Task /\ task[s] \in TaskRecord
  BY Names DEF Shape
<1>2. CASE SubmitFunds(s) \/ SubmitPlans(s) \/ SubmitCut(s)
  <2>1. PICK y : Becomes(s, y) /\ ~Plotting(y)
    <3> DEFINE z == [task[s] EXCEPT !.caller = "submit"]
    <3>1. \/ Becomes(s, [task[s] EXCEPT !.pc = "plan"]) \/ Becomes(s, Idle)
          \/ Becomes(s, Reading(z, "advance"))
      BY <1>2 DEF SubmitFunds, SubmitPlans, SubmitCut, Goes
    <3>2. z \in TaskRecord
      BY <1>1 DEF TaskRecord
    <3> HIDE DEF z
    <3> QED BY <1>1, <3>1, <3>2, Unplotted DEF Pcs, Procedures
  <2>2. UNCHANGED <<mission, objectives, proposals>> \/ TransitionMission(0, "planning")
    BY <1>2 DEF SubmitFunds, SubmitPlans, SubmitCut, SaveBudget, repositoryVars
  <2> QED BY <1>1, <2>1, <2>2, RowsRest, RowsOfMission, AgendaStays
<1>3. CASE SubmitCreates(s)
  <2>1. /\ CreateMission /\ Becomes(s, [task[s] EXCEPT !.pc = "fund"]) /\ mission.status = "absent"
        /\ UNCHANGED proposals
    BY <1>3 DEF SubmitCreates, Goes, CreateMission
  <2>2. /\ \A o \in First : objectives'[o].status = "pending"
        /\ \A o \in Objective \ First : objectives'[o] = objectives[o]
    BY <2>1, Names DEF CreateMission, Shape, TypeOK, RepositoryTypeOK
  <2>3. NoHolder /\ Appended = {}
    BY <2>1 DEF Turns, NotYet, Appended
  <2>4. Appended' = {}
    BY <2>2, <2>3 DEF Appended
  <2>5. \A u \in Task : ~Plotting(task'[u])
    <3>1. \A u \in Task : ~Plotting(task[u])
      BY <2>3 DEF NoHolder, Plotting, Holds, Holding, Informed, Onward, Reads
    <3>2. ~Plotting([task[s] EXCEPT !.pc = "fund"])
      BY <1>1, Unplotted DEF Pcs
    <3> QED BY <1>1, <2>1, <3>1, <3>2 DEF Becomes, Shape
  <2>6. \A u \in Task : Plotted(u)'
    BY <2>5, PlottedNot
  <2> QED BY <2>2, <2>4, <2>6 DEF Agenda
<1> QED BY <1>2, <1>3

(* The worker, the gateway and a restart leave the rows of the mission.    *)
LEMMA WorldAgenda ==
  ASSUME Shape, Agenda, UNCHANGED repositoryVars,
         \A u \in Task : task'[u] = task[u] \/ ~Plotting(task'[u])
  PROVE  Agenda'
<1>1. UNCHANGED <<mission, objectives, proposals>>
  BY DEF repositoryVars
<1>2. Appended' = Appended /\ CompletedNow' = CompletedNow
  BY <1>1 DEF Appended, CompletedNow
<1>3. \A u \in Task : Plotted(u)'
  BY <1>1, RowsRest, PlottedStays, PlottedNot DEF Agenda
<1> QED BY <1>1, <1>2, <1>3 DEF Agenda

LEMMA OutsideAgenda ==
  ASSUME Shape, Turns, Agenda,
         \/ \E c \in Id : WorkerExpires(c) \/ WorkerStarts(c)
         \/ \E outcome \in WorkerOutcomes, actual \in Usage : WorkerEnds(outcome, actual)
         \/ GatewayWaits \/ GatewayReconciles \/ GatewayCancels \/ GatewayNotifies
         \/ \E outcome \in WorkerOutcomes : GatewaySettles(outcome)
         \/ \E s \in Stop, target \in Child \union {NoId} : GatewayStops(s, target)
         \/ \E c \in Child : GatewayTerminates(c) \/ ClockAdvances(c)
         \/ Restart
  PROVE  Agenda'
<1>1. UNCHANGED repositoryVars
  BY DEF WorkerExpires, WorkerStarts, WorkerEnds, Rows, GatewayWaits, GatewayReconciles,
     GatewayCancels, GatewayNotifies, GatewaySettles, GatewayStops, GatewayTerminates,
     ClockAdvances, Restart, GatewayMoves
<1>2. ASSUME NEW n \in Notifier, NEW y, Becomes(n, y), ~Plotting(y) PROVE Agenda'
  BY <1>1, <1>2, Names, WorldAgenda DEF Becomes, Shape
<1>3. /\ "worker" \in Notifier /\ "gateway" \in Notifier
      /\ \A n \in Notifier : task[n] \in TaskRecord
  BY Names DEF Notifier, Shape
<1>4. ASSUME NEW n \in Notifier, NEW p \in {"looks", "reconciles"}, Goes(n, p) PROVE Agenda'
  BY <1>2, <1>3, <1>4, Unplotted DEF Goes, Pcs
<1>5. ASSUME NEW n \in Notifier, NEW p \in {"runs", "waits", "terminates", "looks"}, NEW c,
             Becomes(n, [Idle EXCEPT !.pc = p, !.child = c])
      PROVE  Agenda'
  <2>1. ~Plotting([Idle EXCEPT !.pc = p, !.child = c])
    BY DEF Plotting, Idle
  <2> QED BY <1>2, <1>5, <2>1
<1>6. ASSUME NEW n \in Notifier, Becomes(n, Idle) PROVE Agenda'
  BY <1>2, <1>3, <1>6, Unplotted
<1>9. CASE \E c \in Id : WorkerStarts(c)
  BY <1>3, <1>5, <1>9 DEF WorkerStarts
<1>10. CASE \E outcome \in WorkerOutcomes, actual \in Usage : WorkerEnds(outcome, actual)
  <2>1. Goes("worker", "looks")
    BY <1>10 DEF WorkerEnds
  <2> QED BY <1>3, <1>4, <2>1
<1>11. CASE GatewayWaits \/ \E outcome \in WorkerOutcomes : GatewaySettles(outcome)
  <2>1. Becomes("gateway", Idle)
    BY <1>11 DEF GatewayWaits, GatewaySettles
  <2> QED BY <1>3, <1>6, <2>1
<1>12. CASE GatewayReconciles \/ GatewayCancels
  <2>1. Goes("gateway", "reconciles") \/ Goes("gateway", "looks")
    BY <1>12 DEF GatewayReconciles, GatewayCancels
  <2> QED BY <1>3, <1>4, <2>1
<1>13. CASE GatewayNotifies \/ \E c \in Child : GatewayTerminates(c)
  BY <1>3, <1>5, <1>13 DEF GatewayNotifies, GatewayTerminates
<1>14. ASSUME NEW s \in Stop, NEW target, GatewayStops(s, target) PROVE Agenda'
  BY <1>3, <1>5, <1>6, <1>14 DEF GatewayStops
<1>7. CASE (\E c \in Id : WorkerExpires(c)) \/ \E c \in Child : ClockAdvances(c)
  BY <1>1, <1>7, WorldAgenda DEF WorkerExpires, ClockAdvances, memoryVars
<1>8. CASE Restart
  BY <1>1, <1>8, Records, WorldAgenda DEF Restart, Plotting
<1> QED BY <1>7, <1>8, <1>9, <1>10, <1>11, <1>12, <1>13, <1>14

LEMMA InitAgenda ==
  ASSUME Init
  PROVE  Agenda
<1>1. mission.status = "absent" /\ Appended = {}
  BY DEF Init, RepositoryInit, Appended
<1>2. \A t \in Task : Plotted(t)
  BY Records DEF Init, Plotted, Exploring, At
<1> QED BY <1>1, <1>2 DEF Agenda

LEMMA AgendaKeeps ==
  ASSUME Shape, Turns, Agenda, [Next]_vars
  PROVE  Agenda'
<1>1. ASSUME NEW t \in Task, Snapshots(t) \/ Advances(t) PROVE Agenda'
  BY <1>1, ReadsAgenda, AdvancesAgenda
<1>2. ASSUME NEW n \in Notifier, NotifierStep(n) PROVE Agenda'
  <2>1. n \in Task
    BY Names
  <2>2. CASE Snapshots(n) \/ Advances(n)
    BY <1>1, <2>1, <2>2
  <2>3. CASE \/ NotifyLooks(n) \/ NotifySkips(n) \/ NotifyRebalances(n) \/ NotifyTransitions(n)
             \/ RebalanceDeclined(n) \/ PlannerRaises(n) \/ PlannerDeclines(n)
             \/ ChildRefused(n) \/ ChildAnswers(n) \/ AdaptStops(n)
    BY <2>3, NotifiesAgenda
  <2>4. CASE \/ RebalanceSettles(n) \/ RebalanceFailsObjective(n)
             \/ \E amount \in 1..Limit : PlannerProposes(n, amount)
             \/ RebalanceFailsMission(n) \/ RebalanceReserves(n)
             \/ RebalanceReplaces(n) \/ RebalanceRearms(n)
    BY <2>4, RebalancesAgenda
  <2>5. CASE \/ ChildReplayed(n) \/ ChildEndsMission(n) \/ ChildSettles(n) \/ ChildEndsObjective(n)
             \/ AdaptDecides(n) \/ VerifyCompletes(n)
    BY <2>5, ChildAgenda
  <2>6. CASE ExploreProposes(n) \/ ExploreFunds(n) \/ ExploreAppends(n)
    BY <2>6, ExploresAgenda
  <2> QED BY <1>2, <2>2, <2>3, <2>4, <2>5, <2>6 DEF NotifierStep
<1>3. ASSUME NEW s \in Submitter, SubmitCreates(s) \/ SubmitterStep(s) \/ SubmitCut(s)
      PROVE  Agenda'
  BY <1>1, <1>3, Names, SubmitsAgenda DEF SubmitterStep
<1>4. CASE \/ WorkerStep \/ GatewayStep
           \/ \E s \in Stop, target \in Child \union {NoId} : GatewayStops(s, target)
           \/ \E c \in Child : GatewayTerminates(c) \/ ClockAdvances(c)
           \/ Restart
  <2>1. "worker" \in Notifier /\ "gateway" \in Notifier
    BY DEF Notifier
  <2>2. CASE NotifierStep("worker") \/ NotifierStep("gateway")
    BY <1>2, <2>1, <2>2
  <2>3. CASE \/ \E c \in Id : WorkerExpires(c) \/ WorkerStarts(c)
             \/ \E outcome \in WorkerOutcomes, actual \in Usage : WorkerEnds(outcome, actual)
             \/ GatewayWaits \/ GatewayReconciles \/ GatewayCancels \/ GatewayNotifies
             \/ \E outcome \in WorkerOutcomes : GatewaySettles(outcome)
             \/ \E s \in Stop, target \in Child \union {NoId} : GatewayStops(s, target)
             \/ \E c \in Child : GatewayTerminates(c) \/ ClockAdvances(c)
             \/ Restart
    BY <2>3, OutsideAgenda
  <2> QED BY <1>4, <2>2, <2>3 DEF WorkerStep, GatewayStep
<1>5. CASE UNCHANGED vars
  BY <1>5, WorldAgenda DEF vars, memoryVars
<1> QED BY <1>3, <1>4, <1>5 DEF Next

(* What was appended was accepted and admitted on what is completed, and   *)
(* whoever is to append one more has read it all (AdaptiveMissionRuntime,  *)
(* consider_exploration and GoalAdmission).                                *)
THEOREM AgendaIsKept == Spec => []Agenda
<1>1. Shape /\ Turns /\ Agenda /\ [Next]_vars => Agenda'
  BY AgendaKeeps
<1> QED BY <1>1, InitAgenda, TurnIsKept, PTL DEF Spec
=============================================================================
