-------------------------- MODULE RunSession_proofs --------------------------
(***************************************************************************)
(* Theorems about RunSession: types for every instance, and what the       *)
(* checks enforce where no node's own calls overlap, for every set of      *)
(* initiators, interval, period and cap.                                   *)
(***************************************************************************)
EXTENDS RunSession, FunctionTheorems, FiniteSetTheorems, TLAPS

(* Every variable keeps its type. *)
THEOREM TypeCorrect == Spec => []TypeOK
<1>1. Init => TypeOK
  BY DEF Init, TypeOK
<1>2. TypeOK /\ [Next]_vars => TypeOK'
  <2> SUFFICES ASSUME TypeOK, [Next]_vars PROVE TypeOK'
    OBVIOUS
  <2>1. ASSUME NEW n \in Initiators, InitiateRun(n) PROVE TypeOK'
    <3>1. [id |-> nextId, by |-> n, start |-> now, copy |-> known[n]] \in Session
      BY DEF TypeOK, Session
    <3>2. QED
      BY <2>1, <3>1 DEF InitiateRun, TypeOK
  <2>2. ASSUME NEW s \in sessions, CompleteRun(s) PROVE TypeOK'
    <3>1. /\ [id |-> s.id, by |-> s.by, start |-> s.start, end |-> now] \in Run
          /\ s.copy \subseteq Run /\ s.by \in Initiators
      BY DEF TypeOK, Session, Run
    <3>2. QED
      BY <2>2, <3>1 DEF CompleteRun, WithCompleted, TypeOK
  <2>3. ASSUME NEW s \in sessions, AbortRun(s) PROVE TypeOK'
    BY <2>3 DEF AbortRun, TypeOK
  <2>4. CASE Tick
    BY <2>4 DEF Tick, TypeOK
  <2>5. CASE UNCHANGED vars
    BY <2>5 DEF vars, TypeOK
  <2>6. QED
    BY <2>1, <2>2, <2>3, <2>4, <2>5 DEF Next
<1>3. QED
  BY <1>1, <1>2, PTL DEF Spec

-----------------------------------------------------------------------------

(* Where no node's calls overlap, a node's copy is the truth about its own *)
(* runs, and its pending run has waited out the interval after each.       *)
LEMMA SessionInvariant ==
  ASSUME ~Overlapping
  PROVE  Spec => []SessionInv
<1>1. Init => SessionInv
  BY DEF Init, SessionInv
<1>2. TypeOK /\ SessionInv /\ [Next]_vars => SessionInv'
  <2> SUFFICES ASSUME TypeOK, SessionInv, [Next]_vars PROVE SessionInv'
    OBVIOUS
  <2> USE PolicyAssumption
  <2>0. /\ now \in Nat /\ nextId \in Nat /\ MinInterval \in Nat
        /\ \A r \in ran : r \in Run /\ r.end \in Nat /\ r.start \in Nat /\ r.id \in Nat
        /\ \A s \in sessions : /\ s \in Session /\ s.start \in Nat /\ s.id \in Nat
                               /\ s.by \in Initiators
        /\ \A n \in Initiators : known[n] \subseteq ran
    BY DEF TypeOK, Run, Session, SessionInv
  <2>1. ASSUME NEW n \in Initiators, InitiateRun(n) PROVE SessionInv'
    <3> DEFINE new == [id |-> nextId, by |-> n, start |-> now, copy |-> known[n]]
    <3>1. \A s \in sessions : s.by # n
      BY <2>1 DEF InitiateRun
    <3>2. /\ sessions' = sessions \cup {new} /\ nextId' = nextId + 1
          /\ UNCHANGED <<now, known, ran>>
      BY <2>1 DEF InitiateRun
    <3>3. \A r \in known[n] : now - r.end >= MinInterval /\ r.id < nextId
      BY <2>0, <2>1 DEF InitiateRun, CanInitiateRun, CheckCooldown, SessionInv
    <3>4. new.start = now /\ new.id = nextId /\ new.by = n /\ new.copy = known[n]
      OBVIOUS
    <3> HIDE DEF new
    <3>5. \A r \in ran' : r.end <= now' /\ r.id < nextId' /\ r.start <= r.end
      BY <2>0, <3>2 DEF SessionInv
    <3>6. ASSUME NEW s \in sessions'
          PROVE  /\ s.copy = known'[s.by] /\ s.id < nextId' /\ s.start <= now'
                 /\ \A r \in known'[s.by] : s.start - r.end >= MinInterval /\ r.id < s.id
                 /\ \A t \in sessions' : t.by = s.by => t = s
      <4>1. CASE s = new
        BY <2>0, <3>1, <3>2, <3>3, <3>4, <4>1
      <4>2. CASE s \in sessions
        BY <2>0, <3>1, <3>2, <3>4, <4>2 DEF SessionInv
      <4>3. QED
        BY <3>2, <4>1, <4>2
    <3>7. QED
      BY <3>2, <3>5, <3>6 DEF SessionInv
  <2>2. ASSUME NEW s \in sessions, CompleteRun(s) PROVE SessionInv'
    <3> DEFINE run == [id |-> s.id, by |-> s.by, start |-> s.start, end |-> now]
    <3>1. /\ sessions' = sessions \ {s} /\ ran' = ran \cup {run}
          /\ now' = now /\ nextId' = nextId
      BY <2>2 DEF CompleteRun
    <3>2. known' = [known EXCEPT ![s.by] = known[s.by] \cup {run}]
      BY <2>2 DEF CompleteRun, WithCompleted, SessionInv
    <3>3. run.end = now /\ run.id = s.id /\ run.start = s.start /\ run.by = s.by
      OBVIOUS
    <3> HIDE DEF run
    <3>4. \A r \in ran' : r.end <= now' /\ r.id < nextId' /\ r.start <= r.end
      BY <2>0, <3>1, <3>3 DEF SessionInv
    <3>5. ASSUME NEW n \in Initiators PROVE known'[n] = {r \in ran' : r.by = n}
      <4>1. known[n] = {r \in ran : r.by = n} /\ n \in DOMAIN known
        BY DEF SessionInv, TypeOK
      <4>2. CASE n = s.by
        BY <3>1, <3>2, <3>3, <4>1, <4>2
      <4>3. CASE n # s.by
        BY <3>1, <3>2, <3>3, <4>1, <4>3
      <4>4. QED
        BY <4>2, <4>3
    <3>6. ASSUME NEW t \in sessions'
          PROVE  /\ t.copy = known'[t.by] /\ t.id < nextId' /\ t.start <= now'
                 /\ \A r \in known'[t.by] : t.start - r.end >= MinInterval /\ r.id < t.id
                 /\ \A u \in sessions' : u.by = t.by => u = t
      <4>1. t \in sessions /\ t.by # s.by
        BY <3>1 DEF SessionInv
      <4>2. known'[t.by] = known[t.by]
        BY <2>0, <3>2, <4>1 DEF TypeOK
      <4>3. QED
        BY <3>1, <4>1, <4>2 DEF SessionInv
    <3>7. QED
      BY <3>4, <3>5, <3>6 DEF SessionInv
  <2>3. ASSUME NEW s \in sessions, AbortRun(s) PROVE SessionInv'
    BY <2>3 DEF AbortRun, SessionInv
  <2>4. CASE Tick
    BY <2>0, <2>4 DEF Tick, SessionInv
  <2>5. CASE UNCHANGED vars
    BY <2>5 DEF vars, SessionInv
  <2>6. QED
    BY <2>1, <2>2, <2>3, <2>4, <2>5 DEF Next
<1>3. QED
  BY <1>1, <1>2, TypeCorrect, PTL DEF Spec

(* No history misses a run of its own node that completed, however many    *)
(* nodes initiate runs.                                                    *)
THEOREM HistoriesAreComplete ==
  ASSUME ~Overlapping
  PROVE  Spec => []HistoryComplete
<1>1. TypeOK /\ SessionInv => HistoryComplete
  BY DEF TypeOK, Run, SessionInv, HistoryComplete
<1>2. QED
  BY <1>1, TypeCorrect, SessionInvariant, PTL

(* The minimum interval is enforced between a node's own runs.             *)
THEOREM OwnIntervals ==
  ASSUME ~Overlapping
  PROVE  Spec => []OwnIntervalEnforced
<1>1. Init => OwnIntervalEnforced
  BY DEF Init, OwnIntervalEnforced
<1>2. TypeOK /\ SessionInv /\ OwnIntervalEnforced /\ [Next]_vars => OwnIntervalEnforced'
  <2> SUFFICES ASSUME TypeOK, SessionInv, OwnIntervalEnforced, [Next]_vars
               PROVE  OwnIntervalEnforced'
    OBVIOUS
  <2>1. CASE UNCHANGED ran
    BY <2>1 DEF OwnIntervalEnforced
  <2>2. ASSUME NEW s \in sessions, CompleteRun(s) PROVE OwnIntervalEnforced'
    <3> DEFINE run == [id |-> s.id, by |-> s.by, start |-> s.start, end |-> now]
    <3>1. ran' = ran \cup {run}
      BY <2>2 DEF CompleteRun
    <3>2. run.id = s.id /\ run.start = s.start /\ run.by = s.by
      OBVIOUS
    <3> HIDE DEF run
    <3>3. \A r \in ran : r.by = run.by => run.start - r.end >= MinInterval /\ r.id < run.id
      BY <3>2 DEF SessionInv, TypeOK, Session
    <3>4. run.id \in Nat /\ \A r \in ran : r.id \in Nat
      BY <3>2 DEF TypeOK, Run, Session
    <3>5. ASSUME NEW q \in ran', NEW r \in ran', q.by = r.by, q.id < r.id
          PROVE  r.start - q.end >= MinInterval
      <4>1. q # run
        BY <3>1, <3>3, <3>4, <3>5
      <4>2. CASE r = run
        BY <3>1, <3>3, <3>5, <4>1, <4>2
      <4>3. CASE r # run
        BY <3>1, <3>5, <4>1, <4>3 DEF OwnIntervalEnforced
      <4>4. QED
        BY <4>2, <4>3
    <3>6. QED
      BY <3>5 DEF OwnIntervalEnforced
  <2>3. CASE \E n \in Initiators : InitiateRun(n)
    BY <2>1, <2>3 DEF InitiateRun
  <2>4. CASE \E s \in sessions : AbortRun(s)
    BY <2>1, <2>4 DEF AbortRun
  <2>5. CASE Tick \/ UNCHANGED vars
    BY <2>1, <2>5 DEF Tick, vars
  <2>6. QED
    BY <2>2, <2>3, <2>4, <2>5 DEF Next
<1>3. QED
  BY <1>1, <1>2, TypeCorrect, SessionInvariant, PTL DEF Spec

-----------------------------------------------------------------------------

(* One more run exceeds no cap that the runs counted with it were below.   *)
LEMMA WindowWithRun ==
  ASSUME NEW S, IsFiniteSet(S), NEW x, NEW W, W \subseteq S \cup {x},
         NEW c \in Nat, Cardinality(S) < c
  PROVE  Cardinality(W) <= c
<1>1. /\ IsFiniteSet(S \cup {x}) /\ Cardinality(S \cup {x}) \in Nat
      /\ Cardinality(S \cup {x}) <= Cardinality(S) + 1 /\ Cardinality(S) \in Nat
  BY FS_AddElement, FS_CardinalityType
<1>2. Cardinality(W) <= Cardinality(S \cup {x}) /\ Cardinality(W) \in Nat
  BY <1>1, FS_Subset, FS_CardinalityType
<1>3. QED
  BY <1>1, <1>2

(* Where no node's calls overlap, the runs that count against a pending    *)
(* one are still those its check counted.                                  *)
LEMMA BudgetInvariant ==
  ASSUME ~Overlapping
  PROVE  Spec => []BudgetInv
<1> USE PolicyAssumption, BoundAssumption
<1>1. Init => BudgetInv
  <2> SUFFICES ASSUME Init PROVE BudgetInv
    OBVIOUS
  <2>1. \A n \in Initiators : IsFiniteSet(known[n])
    BY FS_EmptySet DEF Init
  <2>2. ran = {} /\ sessions = {}
    BY DEF Init
  <2>3. OwnBudgetEnforced
    <3>1. ASSUME NEW n \in Initiators, NEW t \in 0..MaxTime
          PROVE  Cardinality({r \in ran : r.by = n /\ r.start \in t..(t + Period)}) = 0
      <4>1. {r \in ran : r.by = n /\ r.start \in t..(t + Period)} = {}
        BY <2>2
      <4>2. QED
        BY <4>1, FS_EmptySet
    <3>2. QED
      BY <3>1 DEF OwnBudgetEnforced
  <2>4. QED
    BY <2>1, <2>2, <2>3 DEF BudgetInv
<1>2. TypeOK /\ SessionInv /\ BudgetInv /\ [Next]_vars => BudgetInv'
  <2> SUFFICES ASSUME TypeOK, SessionInv, BudgetInv, [Next]_vars PROVE BudgetInv'
    OBVIOUS
  <2>1. ASSUME UNCHANGED <<ran, known>>, sessions' \subseteq sessions PROVE BudgetInv'
    BY <2>1 DEF BudgetInv, OwnBudgetEnforced, CheckBudgetCap
  <2>2. ASSUME NEW n \in Initiators, InitiateRun(n) PROVE BudgetInv'
    <3>1. CheckBudgetCap(known[n], now) /\ ran' = ran /\ known' = known
      BY <2>2 DEF InitiateRun, CanInitiateRun
    <3>2. \A s \in sessions' : s \in sessions \/ (s.start = now /\ s.by = n)
      BY <2>2 DEF InitiateRun
    <3>3. \A s \in sessions' : CheckBudgetCap(known'[s.by], s.start)
      BY <3>1, <3>2 DEF BudgetInv
    <3>4. (\A m \in Initiators : IsFiniteSet(known'[m])) /\ OwnBudgetEnforced'
      BY <3>1 DEF BudgetInv, OwnBudgetEnforced
    <3>5. QED
      BY <3>3, <3>4 DEF BudgetInv, CheckBudgetCap
  <2>3. ASSUME NEW s \in sessions, CompleteRun(s) PROVE BudgetInv'
    <3> DEFINE run == [id |-> s.id, by |-> s.by, start |-> s.start, end |-> now]
               counted == {r \in known[s.by] : r.start >= s.start - Period}
               Window(R, n, t) == {r \in R : r.by = n /\ r.start \in t..(t + Period)}
    <3>1. /\ sessions' = sessions \ {s} /\ ran' = ran \cup {run}
          /\ known' = [known EXCEPT ![s.by] = known[s.by] \cup {run}]
      BY <2>3 DEF CompleteRun, WithCompleted, SessionInv
    <3>2. /\ s.by \in Initiators /\ s.start \in Nat /\ s.start <= now
          /\ \A r \in ran : r.start \in Nat
          /\ known[s.by] = {r \in ran : r.by = s.by}
      BY DEF TypeOK, Session, Run, SessionInv
    <3>3. IsFiniteSet(counted) /\ Cardinality(counted) < MaxRuns
      BY <3>2, FS_Subset DEF BudgetInv, CheckBudgetCap
    <3>4. run.start = s.start /\ run.by = s.by
      OBVIOUS
    <3> HIDE DEF run
    <3>5. ASSUME NEW n \in Initiators, NEW t \in 0..MaxTime
          PROVE  Cardinality(Window(ran', n, t)) <= MaxRuns
      <4>1. CASE n = s.by /\ s.start \in t..(t + Period)
        <5>1. Window(ran', n, t) \subseteq counted \cup {run}
          BY <3>1, <3>2, <3>4, <4>1
        <5> HIDE DEF counted, Window
        <5>2. QED
          BY <3>3, <5>1, WindowWithRun
      <4>2. CASE ~(n = s.by /\ s.start \in t..(t + Period))
        <5>1. Window(ran', n, t) = Window(ran, n, t)
          BY <3>1, <3>4, <4>2
        <5>2. QED
          BY <5>1 DEF BudgetInv, OwnBudgetEnforced
      <4>3. QED
        BY <4>1, <4>2
    <3>6. OwnBudgetEnforced'
      BY <3>5 DEF OwnBudgetEnforced
    <3>7. ASSUME NEW n \in Initiators PROVE IsFiniteSet(known'[n])
      <4>1. known'[n] \in {known[n], known[s.by] \cup {run}}
        BY <3>1 DEF TypeOK
      <4>2. IsFiniteSet(known[n]) /\ IsFiniteSet(known[s.by])
        BY <3>2 DEF BudgetInv
      <4>3. IsFiniteSet(known[s.by] \cup {run})
        BY <4>2, FS_AddElement
      <4>4. QED
        BY <4>1, <4>2, <4>3
    <3>8. ASSUME NEW t \in sessions' PROVE CheckBudgetCap(known'[t.by], t.start)
      <4>1. t \in sessions /\ t.by # s.by /\ t.by \in Initiators
        BY <3>1 DEF SessionInv, TypeOK, Session
      <4>2. known'[t.by] = known[t.by]
        BY <3>1, <4>1 DEF TypeOK
      <4>3. QED
        BY <4>1, <4>2 DEF BudgetInv
    <3>9. QED
      BY <3>6, <3>7, <3>8 DEF BudgetInv, CheckBudgetCap
  <2>4. ASSUME NEW s \in sessions, AbortRun(s) PROVE BudgetInv'
    BY <2>1, <2>4 DEF AbortRun
  <2>5. QED
    BY <2>1, <2>2, <2>3, <2>4 DEF Next, Tick, vars
<1>3. QED
  BY <1>1, <1>2, TypeCorrect, SessionInvariant, PTL DEF Spec

(* The budget is enforced upon a node's own runs, in every period.         *)
THEOREM OwnBudgets ==
  ASSUME ~Overlapping
  PROVE  Spec => []OwnBudgetEnforced
<1>1. BudgetInv => OwnBudgetEnforced
  BY DEF BudgetInv
<1>2. QED
  BY <1>1, BudgetInvariant, PTL

(* At most c things of each of finitely many kinds.                        *)
LEMMA OfEachKind ==
  ASSUME NEW S, NEW K, IsFiniteSet(K), NEW kind \in [S -> K], NEW c \in Nat,
         \A k \in K : /\ IsFiniteSet({x \in S : kind[x] = k})
                      /\ Cardinality({x \in S : kind[x] = k}) <= c
  PROVE  IsFiniteSet(S) /\ Cardinality(S) <= Cardinality(K) * c
<1> DEFINE Of(k) == {x \in S : kind[x] = k}
           Numbering(k) == CHOOSE f : f \in Injection(Of(k), 1..c)
           number == [x \in S |-> <<kind[x], Numbering(kind[x])[x]>>]
<1>1. ASSUME NEW k \in K PROVE Numbering(k) \in Injection(Of(k), 1..c)
  <2>1. IsFiniteSet(Of(k)) /\ Cardinality(Of(k)) <= c
    OBVIOUS
  <2> HIDE DEF Of
  <2>2. Cardinality(Of(k)) \in Nat /\ ExistsBijection(1..Cardinality(Of(k)), Of(k))
    BY <2>1, FS_CardinalityType
  <2>3. ExistsBijection(Of(k), 1..Cardinality(Of(k)))
    BY <2>2, Fun_ExistsBijSymmetric
  <2>4. PICK f : f \in Bijection(Of(k), 1..Cardinality(Of(k)))
    BY <2>3 DEF ExistsBijection
  <2>5. f \in Injection(Of(k), 1..c)
    <3>1. f \in [Of(k) -> 1..Cardinality(Of(k))]
           /\ \A x, y \in Of(k) : f[x] = f[y] => x = y
      BY <2>4 DEF Bijection, Injection, IsInjective
    <3>2. 1..Cardinality(Of(k)) \subseteq 1..c
      BY <2>1, <2>2
    <3>3. f \in [Of(k) -> 1..c]
      BY <3>1, <3>2
    <3>4. QED
      BY <3>1, <3>3 DEF Injection, IsInjective
  <2>6. QED
    BY <2>5
<1> HIDE DEF Numbering
<1>2. number \in Injection(S, K \X (1..c))
  <2>1. ASSUME NEW x \in S PROVE Numbering(kind[x])[x] \in 1..c
    BY <1>1 DEF Injection
  <2>2. number \in [S -> K \X (1..c)]
    BY <2>1
  <2>3. ASSUME NEW x \in S, NEW y \in S, number[x] = number[y] PROVE x = y
    <3>1. kind[x] = kind[y] /\ Numbering(kind[x])[x] = Numbering(kind[x])[y]
      BY <2>3
    <3>2. kind[x] \in K /\ x \in Of(kind[x]) /\ y \in Of(kind[x])
      BY <3>1
    <3>3. QED
      BY <1>1, <3>1, <3>2 DEF Injection, IsInjective
  <2>4. QED
    BY <2>2, <2>3 DEF Injection, IsInjective
<1>3. IsFiniteSet(1..c) /\ Cardinality(1..c) = c
  BY FS_Interval
<1>4. IsFiniteSet(K \X (1..c)) /\ Cardinality(K \X (1..c)) = Cardinality(K) * c
  BY <1>3, FS_Product
<1> HIDE DEF number
<1>5. QED
  BY <1>2, <1>4, FS_Injection

(* Where each member has its own budget, a network has the budgets of all  *)
(* its initiators together, and no more.                                   *)
THEOREM MembersShareBudgets ==
  ASSUME ~Overlapping, IsFiniteSet(Initiators)
  PROVE  Spec => []SharedBudgetEnforced
<1>1. TypeOK /\ SessionInv /\ BudgetInv => SharedBudgetEnforced
  <2> SUFFICES ASSUME TypeOK, SessionInv, BudgetInv, NEW t \in 0..MaxTime
               PROVE  Cardinality({r \in ran : r.start \in t..(t + Period)})
                        <= Cardinality(Initiators) * MaxRuns
    BY DEF SharedBudgetEnforced
  <2> DEFINE S == {r \in ran : r.start \in t..(t + Period)}
             kind == [r \in S |-> r.by]
  <2>1. kind \in [S -> Initiators]
    BY DEF TypeOK, Run
  <2>2. ASSUME NEW n \in Initiators
        PROVE  /\ IsFiniteSet({r \in S : kind[r] = n})
               /\ Cardinality({r \in S : kind[r] = n}) <= MaxRuns
    <3>1. {r \in S : kind[r] = n} = {r \in ran : r.by = n /\ r.start \in t..(t + Period)}
      OBVIOUS
    <3>2. {r \in S : kind[r] = n} \subseteq known[n] /\ IsFiniteSet(known[n])
      BY DEF SessionInv, BudgetInv
    <3>3. QED
      BY <3>1, <3>2, FS_Subset DEF BudgetInv, OwnBudgetEnforced
  <2> HIDE DEF S, kind
  <2>3. Cardinality(S) <= Cardinality(Initiators) * MaxRuns
    BY <2>1, <2>2, OfEachKind, PolicyAssumption
  <2>4. QED
    BY <2>3 DEF S
<1>2. QED
  BY <1>1, TypeCorrect, SessionInvariant, BudgetInvariant, PTL


-----------------------------------------------------------------------------

(* Where one member alone initiates runs, all runs are its own: the policy *)
(* is enforced as it is written.                                           *)
THEOREM SingleInitiatorCooldown ==
  ASSUME NEW i, Initiators = {i}, ~Overlapping
  PROVE  Spec => []CooldownEnforced
<1>1. TypeOK /\ OwnIntervalEnforced => CooldownEnforced
  BY DEF TypeOK, Run, OwnIntervalEnforced, CooldownEnforced
<1>2. QED
  BY <1>1, TypeCorrect, OwnIntervals, PTL

(* Its own budget is then the network's.                                   *)
THEOREM SingleInitiatorBudget ==
  ASSUME NEW i, Initiators = {i}, ~Overlapping
  PROVE  Spec => []BudgetEnforced
<1>1. TypeOK /\ OwnBudgetEnforced => BudgetEnforced
  <2> SUFFICES ASSUME TypeOK, OwnBudgetEnforced, NEW t \in 0..MaxTime
               PROVE  Cardinality({r \in ran : r.start \in t..(t + Period)}) <= MaxRuns
    BY DEF BudgetEnforced
  <2>1. \A r \in ran : r.by = i
    BY DEF TypeOK, Run
  <2>2. {r \in ran : r.start \in t..(t + Period)} =
          {r \in ran : r.by = i /\ r.start \in t..(t + Period)}
    BY <2>1
  <2>3. QED
    BY <2>2 DEF OwnBudgetEnforced
<1>2. QED
  BY <1>1, TypeCorrect, OwnBudgets, PTL
=============================================================================
