---------------------------- MODULE BatchesProofs ----------------------------
(* Theorems about Batches, for any calendar, number of requests and attempts. *)
EXTENDS Batches, FiniteSetTheorems, TLAPS

USE DEF Groups, Editions, BatchStatus

-----------------------------------------------------------------------------
(* The calendar *)

\* A group that passed its cutoff or delivery date never comes back.
LEMMA UsableAntitone ==
  ASSUME NEW n \in Groups, NEW s \in Nat, NEW t \in Nat, s <= t, Usable(n, t)
  PROVE  Usable(n, s)
<1>1. Closes(n) \in Nat /\ Delivers(n) \in Nat
  BY ScheduleAssumption, BoundAssumption DEF Closes, Delivers
<1> QED BY <1>1 DEF Usable

\* Later groups are delivered after the cutoff of earlier ones.
LEMMA DeliveredAfterCutoff ==
  ASSUME NEW n \in Groups, NEW k \in Groups, n < k
  PROVE  Delivers(k) >= Closes(n) /\ Closes(k) > Closes(n)
<1> DEFINE d == k - n - 1
<1>1. n \in Nat /\ k \in Nat /\ d \in Nat /\ k = n + 1 + d
  BY BoundAssumption
<1>2. k * Week = n * Week + Week + d * Week
  BY <1>1, ScheduleAssumption
<1>3. d * Week \in Nat /\ n * Week \in Nat /\ k * Week \in Nat
  BY <1>1, ScheduleAssumption
<1> HIDE DEF d
<1> QED BY <1>2, <1>3, ScheduleAssumption DEF Delivers, Closes

-----------------------------------------------------------------------------
(* The invariant *)

THEOREM Initially == Init => IInv
<1> SUFFICES ASSUME Init PROVE IInv
  OBVIOUS
<1>1. TypeOK
  BY AttemptsAssumption, BoundAssumption
  DEF Init, TypeOK, Tasks, Stages, Idle
<1>2. ASSUME NEW n \in Groups, Exists(n)
      PROVE  Passed(n)
  BY <1>2, BoundAssumption DEF Init, Exists, Passed
<1>3. ASSUME NEW p \in Requests
      PROVE  /\ task[p].asked <= now
             /\ task[p].stage \notin {"code", "create"}
  BY DEF Init, Idle
<1> QED BY <1>1, <1>2, <1>3 DEF IInv

\* What is passed stays so while no group opens and the clock only grows.
LEMMA PassedStays ==
  ASSUME TypeOK, NEW n \in Groups, Passed(n),
         now' \in Nat, now <= now',
         \A k \in Groups : Taken(k) => Taken(k)'
  PROVE  Passed(n)'
<1> SUFFICES ASSUME NEW k \in Groups, k < n, Usable(k, now)'
             PROVE  Taken(k)'
  BY DEF Passed
<1>1. Usable(k, now)
  BY UsableAntitone DEF TypeOK, Usable, Closes, Delivers
<1> QED BY <1>1 DEF Passed

\* Where only one request moves, to a task that keeps the clock it read, the
\* invariant need only be shown of that task.
LEMMA OneRequestMoves ==
  ASSUME IInv, NEW p \in Requests, NEW t \in Tasks, Goes(p, t),
         UNCHANGED <<status, catalog, sold, now>>,
         t.asked <= now,
         t.stage \in {"code", "create"} => Passed(t.group)
  PROVE  IInv'
<1> USE DEF IInv
<1>1. task' \in [Requests -> Tasks] /\ task'[p] = t
  BY DEF Goes, TypeOK
<1>2. \A q \in Requests : q # p => task'[q] = task[q]
  BY DEF Goes, TypeOK
<1>3. TypeOK'
  BY <1>1 DEF TypeOK
<1>4. \A n \in Groups : Passed(n)' <=> Passed(n)
  BY DEF Passed, Taken, Usable
<1>5. \A n \in Groups : Exists(n)' => Passed(n)'
  BY <1>4 DEF Exists
<1>6. ASSUME NEW q \in Requests
      PROVE  /\ task'[q].asked <= now'
             /\ (task[q].stage \in {"code", "create"} => Passed(task[q].group))'
  <2>1. CASE q = p
    BY <2>1, <1>1 DEF Passed, Taken, Usable
  <2>2. CASE q # p
    BY <2>2, <1>2 DEF Passed, Taken, Usable
  <2> QED BY <2>1, <2>2
<1> QED BY <1>3, <1>5, <1>6

-----------------------------------------------------------------------------
(* One lemma per action that changes what the invariant speaks of *)

LEMMA BeginKeeps ==
  ASSUME IInv, NEW p \in Requests, Begin(p)
  PROVE  IInv'
<1> DEFINE t == [Idle EXCEPT !.stage = "asked", !.asked = now]
<1>1. t \in Tasks /\ t.asked = now /\ t.stage = "asked"
  <2>1. now \in Nat /\ 0 \in Groups /\ 0 \in 0..(Attempts - 1)
    BY AttemptsAssumption, BoundAssumption DEF IInv, TypeOK
  <2>2. Idle \in Tasks
    BY <2>1 DEF Idle, Tasks, Stages
  <2> QED BY <2>1, <2>2 DEF Tasks, Stages
<1>2. Goes(p, t) /\ UNCHANGED <<status, catalog, sold, now>>
  BY DEF Begin
<1>3. now <= now
  BY DEF IInv, TypeOK
<1> HIDE DEF t
<1> QED BY <1>1, <1>2, <1>3, OneRequestMoves

\* A request keeps its clock and takes up a group, one below which no week is
\* left if it is going to look the group up or to create it.
LEMMA TakesUp ==
  ASSUME IInv, NEW p \in Requests, NEW stage \in Stages, NEW n \in Groups,
         GoesWith(p, stage, n), UNCHANGED <<status, catalog, sold, now>>,
         stage \in {"code", "create"} => Passed(n)
  PROVE  IInv'
<1> DEFINE t == [task[p] EXCEPT !.stage = stage, !.group = n]
<1>1. /\ t \in Tasks /\ t.stage = stage /\ t.group = n
      /\ t.asked = task[p].asked
  BY DEF IInv, TypeOK, Tasks
<1>2. Goes(p, t)
  BY DEF GoesWith
<1>3. t.asked <= now
  BY <1>1 DEF IInv
<1> HIDE DEF t
<1> QED BY <1>1, <1>2, <1>3, OneRequestMoves

LEMMA IdlesKeep ==
  ASSUME IInv, NEW p \in Requests, Goes(p, Idle),
         UNCHANGED <<status, catalog, sold, now>>
  PROVE  IInv'
<1>1. Idle \in Tasks /\ Idle.asked <= now /\ Idle.stage = "idle"
  BY AttemptsAssumption, BoundAssumption
  DEF IInv, TypeOK, Tasks, Stages, Idle
<1> QED BY <1>1, OneRequestMoves

LEMMA FindOpenKeeps ==
  ASSUME IInv, NEW p \in Requests, FindOpen(p)
  PROVE  IInv'
<1>1. {"latest", "ensure"} \subseteq Stages /\ 0 \in Groups
  BY BoundAssumption DEF Stages
<1>2. PICK n \in Groups, stage \in {"latest", "ensure"} : GoesWith(p, stage, n)
  BY <1>1 DEF FindOpen, Earliest, OpenFor, AfterOpen
<1> QED BY <1>1, <1>2, TakesUp DEF FindOpen

\* No week below the template can be ordered into any more, none between it and
\* the schedule it is rolled forward to can either.
LEMMA FindLatestKeeps ==
  ASSUME IInv, NEW p \in Requests, FindLatest(p)
  PROVE  IInv'
<1> DEFINE t == task[p].asked
<1>1. PICK m \in Groups, n \in Groups :
        /\ n = 0 \/ n \in Dated
        /\ IsNextSchedule(m, n, t)
        /\ GoesWith(p, "code", m)
  BY DEF FindLatest
<1>2. t \in Nat /\ now \in Nat /\ t <= now
  BY DEF IInv, TypeOK, Tasks
<1>3. Passed(n)
  BY <1>1, BoundAssumption DEF IInv, Dated, Exists, Passed
<1>4. ASSUME NEW k \in Groups, k < m, Usable(k, now)
      PROVE  Taken(k)
  <2>1. CASE k < n
    BY <2>1, <1>3, <1>4 DEF Passed
  <2>2. CASE n <= k
    <3>1. ~Usable(k, t)
      BY <2>2, <1>1, <1>4, BoundAssumption DEF IsNextSchedule
    <3> QED BY <3>1, <1>2, <1>4, UsableAntitone
  <2> QED BY <2>1, <2>2, BoundAssumption
<1>5. Passed(m)
  BY <1>4 DEF Passed
<1> QED BY <1>1, <1>5, TakesUp DEF FindLatest, Stages

\* A week the loop passes over is taken or over, and so are those between it and
\* the one it goes on to.
LEMMA FindCodeKeeps ==
  ASSUME IInv, NEW p \in Requests, FindCode(p)
  PROVE  IInv'
<1> DEFINE t == task[p]
           n == t.group
           end == AfterGroup(n, t.asked)
<1>1. /\ n \in Groups /\ t.asked \in Nat /\ now \in Nat /\ t.asked <= now
      /\ Passed(n)
  <2>1. task[p] \in Tasks /\ now \in Nat
    BY DEF IInv, TypeOK
  <2>2. task[p].stage = "code"
    BY DEF FindCode, At
  <2>3. task[p].asked <= now /\ Passed(task[p].group)
    BY <2>2 DEF IInv
  <2> QED BY <2>1, <2>3 DEF Tasks
<1>2. CASE GoesWith(p, "create", n)
  BY <1>1, <1>2, TakesUp DEF FindCode, Stages
<1>3. CASE GoesWith(p, "ensure", n)
  BY <1>1, <1>3, TakesUp DEF FindCode, Stages
<1>4. ASSUME NEW m \in Groups,
             Exists(n), ~IsBookable(n, t.asked), ~LastTry(t),
             IsNextSchedule(m, n, end),
             Goes(p, [t EXCEPT !.group = m, !.tries = @ + 1])
      PROVE  IInv'
  <2> DEFINE u == [t EXCEPT !.group = m, !.tries = @ + 1]
  <2>1. /\ u \in Tasks /\ u.group = m /\ u.asked = t.asked
    <3>1. /\ t \in Tasks /\ t.tries \in 0..(Attempts - 1)
          /\ t.tries + 1 # Attempts
      BY <1>4 DEF IInv, TypeOK, Tasks, LastTry
    <3>2. t.tries + 1 \in 0..(Attempts - 1)
      BY <3>1, AttemptsAssumption
    <3> QED BY <3>1, <3>2 DEF Tasks
  <2>2. ASSUME NEW k \in Groups, k < m, Usable(k, now)
        PROVE  Taken(k)
    <3>1. Usable(k, t.asked)
      BY <1>1, <2>2, UsableAntitone
    <3>2. CASE k < n
      BY <3>2, <1>1, <2>2 DEF Passed
    <3>3. CASE k = n
      BY <3>1, <3>3, <1>4 DEF IsBookable, IInv, TypeOK, Exists, Taken
    <3>4. CASE n < k
      <4>1. ~Usable(k, end)
        <5>1. k \in n..(m - 1)
          BY <3>4, <2>2, <1>1, <1>4, BoundAssumption
        <5> QED BY <5>1, <1>4 DEF IsNextSchedule
      <4>2. end = t.asked \/ end = Closes(n)
        BY DEF AfterGroup
      <4>3. Usable(k, Closes(n))
        BY <3>4, <1>1, DeliveredAfterCutoff DEF Usable
      <4> QED BY <4>1, <4>2, <4>3, <3>1
    <3> QED BY <3>2, <3>3, <3>4, <1>1, BoundAssumption
  <2>3. Passed(m)
    BY <2>2 DEF Passed
  <2> HIDE DEF u
  <2>4. Goes(p, u)
    BY <1>4 DEF u
  <2>5. u.asked <= now /\ UNCHANGED <<status, catalog, sold, now>>
    BY <2>1, <1>1 DEF FindCode
  <2> QED BY <2>1, <2>3, <2>4, <2>5, OneRequestMoves
<1> QED BY <1>2, <1>3, <1>4 DEF FindCode

LEMMA CreateGroupKeeps ==
  ASSUME IInv, NEW p \in Requests, CreateGroup(p)
  PROVE  IInv'
<1> DEFINE n == task[p].group
<1>1. n \in Groups /\ Passed(n) /\ now \in Nat
  BY DEF IInv, TypeOK, Tasks, CreateGroup, At
<1>2. CASE Exists(n)
  BY <1>1, <1>2, TakesUp DEF CreateGroup, CodeFree, Stages
<1>3. CASE ~Exists(n)
  <2>1. /\ status' = [status EXCEPT ![n] = "open"]
        /\ task' = [task EXCEPT ![p] =
                      [task[p] EXCEPT !.stage = "ensure", !.group = n]]
        /\ UNCHANGED <<catalog, sold, now>>
    BY <1>3 DEF CreateGroup, CodeFree, GoesWith, Goes
  <2>2. TypeOK'
    BY <2>1, <1>1 DEF IInv, TypeOK, Tasks, Stages
  <2>3. \A k \in Groups : Taken(k) => Taken(k)'
    BY <2>1, <1>3 DEF IInv, TypeOK, Taken, Exists
  <2>4. \A k \in Groups : Passed(k) => Passed(k)'
    BY <2>1, <2>3, <1>1, PassedStays DEF IInv
  <2>5. \A k \in Groups : Exists(k)' => Exists(k) \/ k = n
    BY <2>1 DEF IInv, TypeOK, Exists
  <2>6. \A q \in Requests :
          /\ task'[q].asked = task[q].asked
          /\ task'[q].stage \in {"code", "create"} => task'[q] = task[q]
    BY <2>1 DEF IInv, TypeOK, Tasks
  <2>7. ASSUME NEW q \in Requests, task'[q].stage \in {"code", "create"}
        PROVE  Passed(task[q].group)'
    <3>1. task'[q] = task[q] /\ task[q].group \in Groups
      BY <2>6, <2>7 DEF IInv, TypeOK, Tasks
    <3>2. Passed(task[q].group)
      BY <3>1, <2>7 DEF IInv
    <3> QED BY <3>1, <3>2, <2>4 DEF Passed, Taken, Usable
  <2> QED BY <2>1, <2>2, <2>4, <2>5, <2>6, <2>7, <1>1 DEF IInv
<1> QED BY <1>2, <1>3

LEMMA SeedKeeps ==
  ASSUME IInv, NEW p \in Requests, Seed(p)
  PROVE  IInv'
<1> DEFINE n == task[p].group
           t == [task[p] EXCEPT !.stage = "resolved", !.group = n]
<1>1. /\ n \in Groups /\ t \in Tasks /\ t.stage = "resolved"
      /\ t.asked = task[p].asked
  BY DEF IInv, TypeOK, Tasks, Stages
<1>2. task' = [task EXCEPT ![p] = t] /\ UNCHANGED <<status, sold, now>>
  BY DEF Seed, GoesWith, Goes
<1>3. catalog' \in [Groups -> Catalogs]
  <2>1. \A m \in Groups : Joined(catalog[n], Carried(catalog[m])) \in Catalogs
    BY <1>1 DEF Joined, Carried, Catalogs, IInv, TypeOK
  <2> QED BY <1>1, <2>1 DEF Seed, IInv, TypeOK
<1>4. TypeOK'
  BY <1>1, <1>2, <1>3 DEF IInv, TypeOK
<1>5. \A k \in Groups : (Passed(k)' <=> Passed(k)) /\ (Exists(k)' <=> Exists(k))
  BY <1>2 DEF Passed, Taken, Usable, Exists
<1>6. \A q \in Requests :
        /\ task'[q].asked = task[q].asked
        /\ task'[q].stage \in {"code", "create"} => task'[q] = task[q]
  BY <1>1, <1>2 DEF IInv, TypeOK
<1>7. ASSUME NEW q \in Requests, task'[q].stage \in {"code", "create"}
      PROVE  Passed(task[q].group)'
  <2>1. task'[q] = task[q] /\ Passed(task[q].group)
    BY <1>6, <1>7 DEF IInv
  <2> QED BY <2>1, <1>2 DEF Passed, Taken, Usable
<1> QED BY <1>2, <1>4, <1>5, <1>6, <1>7 DEF IInv

\* The steps of the environment: groups are taken, none is opened, and the clock
\* only grows.
LEMMA EnvironmentKeeps ==
  ASSUME IInv, UNCHANGED task, TypeOK', now <= now',
         \A n \in Groups : Exists(n)' <=> Exists(n),
         \A n \in Groups : Taken(n) => Taken(n)'
  PROVE  IInv'
<1>1. \A n \in Groups : Passed(n) => Passed(n)'
  BY PassedStays DEF IInv, TypeOK
<1>2. ASSUME NEW p \in Requests
      PROVE  /\ task'[p].asked <= now'
             /\ (task[p].stage \in {"code", "create"} => Passed(task[p].group))'
  <2>1. task[p] \in Tasks /\ task'[p] = task[p] /\ now \in Nat /\ now' \in Nat
    BY DEF IInv, TypeOK
  <2>2. task[p].asked \in Nat /\ task[p].group \in Groups
    BY <2>1 DEF Tasks
  <2>3. task[p].asked <= now'
    BY <2>1, <2>2 DEF IInv
  <2>4. ASSUME (task[p].stage)' \in {"code", "create"}
        PROVE  Passed(task[p].group)'
    <3>1. Passed(task[p].group)
      BY <2>1, <2>4 DEF IInv
    <3> QED BY <3>1, <1>1, <2>1, <2>2 DEF Passed, Taken, Usable
  <2> QED BY <2>1, <2>3, <2>4
<1> QED BY <1>1, <1>2 DEF IInv

LEMMA TickKeeps == ASSUME IInv, Tick PROVE IInv'
<1>1. TypeOK' /\ now <= now'
  BY BoundAssumption DEF IInv, TypeOK, Tick
<1> QED BY <1>1, EnvironmentKeeps DEF Tick, Exists, Taken

LEMMA CloseWeeklyKeeps == ASSUME IInv, CloseWeekly PROVE IInv'
<1>1. TypeOK' /\ now <= now'
  BY DEF IInv, TypeOK, CloseWeekly
<1>2. \A n \in Groups : /\ Exists(n)' <=> Exists(n)
                        /\ Taken(n) => Taken(n)'
  BY DEF CloseWeekly, Exists, Taken
<1> QED BY <1>1, <1>2, EnvironmentKeeps DEF CloseWeekly

LEMMA WithdrawKeeps ==
  ASSUME IInv, NEW n \in Groups, NEW s \in BatchStatus, Withdraw(n, s)
  PROVE  IInv'
<1>1. TypeOK' /\ now <= now'
  BY DEF IInv, TypeOK, Withdraw
<1>2. \A k \in Groups : /\ Exists(k)' <=> Exists(k)
                        /\ Taken(k) => Taken(k)'
  BY DEF IInv, TypeOK, Withdraw, Exists, Taken
<1> QED BY <1>1, <1>2, EnvironmentKeeps DEF Withdraw

LEMMA PublishKeeps ==
  ASSUME IInv, NEW n \in Groups, NEW p \in Products, NEW e \in Editions,
         Publish(n, p, e)
  PROVE  IInv'
<1>1. TypeOK' /\ now <= now'
  BY DEF IInv, TypeOK, Publish, Catalogs
<1> QED BY <1>1, EnvironmentKeeps DEF Publish, Exists, Taken

LEMMA RelistKeeps ==
  ASSUME IInv, NEW p \in Products, Relist(p)
  PROVE  IInv'
<1>1. TypeOK' /\ now <= now'
  BY DEF IInv, TypeOK, Relist
<1> QED BY <1>1, EnvironmentKeeps DEF Relist, Exists, Taken

LEMMA CheckCatalogKeeps ==
  ASSUME IInv, NEW p \in Requests, CheckCatalog(p)
  PROVE  IInv'
<1>1. PICK stage \in {"resolved", "seed"} : GoesWith(p, stage, task[p].group)
  BY DEF CheckCatalog
<1>2. task[p].group \in Groups /\ stage \in Stages
  BY DEF IInv, TypeOK, Tasks, Stages
<1> QED BY <1>1, <1>2, TakesUp DEF CheckCatalog

-----------------------------------------------------------------------------
(* The tries of a request *)

\* The sets counted are finite.
LEMMA TakenBelowFinite ==
  ASSUME NEW n \in Groups, NEW t \in Nat
  PROVE  /\ IsFiniteSet(TakenBelow(n, t))
         /\ Cardinality(TakenBelow(n, t)) \in Nat
<1>1. IsFiniteSet(Groups)
  BY FS_Interval, BoundAssumption
<1>2. TakenBelow(n, t) \subseteq Groups
  BY DEF TakenBelow
<1>3. IsFiniteSet(TakenBelow(n, t))
  BY <1>1, <1>2, FS_Subset
<1> QED BY <1>3, FS_CardinalityType

\* Nothing gives a taken group back.
LEMMA TakenStays ==
  ASSUME TypeOK, [Next]_vars, NEW n \in Groups, Taken(n)
  PROVE  Taken(n)'
<1>1. CASE \E p \in Requests : CreateGroup(p)
  BY <1>1 DEF CreateGroup, CodeFree, Exists, Taken, TypeOK, Tasks
<1>2. CASE CloseWeekly
  BY <1>2 DEF CloseWeekly, Taken
<1>3. CASE \E k \in Groups, s \in BatchStatus : Withdraw(k, s)
  BY <1>3 DEF Withdraw, Taken, TypeOK
<1>4. CASE UNCHANGED status
  BY <1>4 DEF Taken
<1> QED BY <1>1, <1>2, <1>3, <1>4
    DEF Next, Resolve, Begin, FindOpen, FindLatest, FindCode, GivesUp,
        CheckCatalog, Seed, Answer, Abort, Tick, Publish, Relist, vars

\* What a request has counted stays counted, whatever the others do meanwhile.
LEMMA TriesTakenStays ==
  ASSUME TypeOK, [Next]_vars, NEW t \in Tasks, TriesTaken(t)
  PROVE  TriesTaken(t)'
<1>1. t.group \in Groups /\ t.asked \in Nat /\ t.tries \in Nat
  BY AttemptsAssumption DEF Tasks
<1> DEFINE S == TakenBelow(t.group, t.asked)
<1>2. S \subseteq S' /\ S' \subseteq Groups
  BY TakenStays DEF TakenBelow
<1>3. IsFiniteSet(S')
  <2>1. IsFiniteSet(Groups)
    BY FS_Interval, BoundAssumption
  <2> QED BY <2>1, <1>2, FS_Subset
<1>4. Cardinality(S) <= Cardinality(S')
  BY <1>2, <1>3, FS_Subset
<1>5. Cardinality(S) \in Nat /\ Cardinality(S') \in Nat
  BY <1>1, <1>3, TakenBelowFinite, FS_CardinalityType
<1> QED BY <1>1, <1>4, <1>5 DEF TriesTaken

\* A taken group that is skipped is one more.
LEMMA OneMoreTaken ==
  ASSUME NEW n \in Groups, NEW m \in Groups, NEW t \in Nat, n < m,
         Usable(n, t), Taken(n)
  PROVE  Cardinality(TakenBelow(m, t)) >= Cardinality(TakenBelow(n, t)) + 1
<1> DEFINE S == TakenBelow(n, t)
<1>1. n \notin S /\ S \cup {n} \subseteq TakenBelow(m, t)
  BY BoundAssumption DEF TakenBelow
<1>2. Cardinality(S \cup {n}) = Cardinality(S) + 1
  BY <1>1, TakenBelowFinite, FS_AddElement
<1>3. Cardinality(S \cup {n}) <= Cardinality(TakenBelow(m, t))
  BY <1>1, TakenBelowFinite, FS_Subset
<1>4. Cardinality(S) \in Nat /\ Cardinality(TakenBelow(m, t)) \in Nat
  BY TakenBelowFinite
<1> QED BY <1>2, <1>3, <1>4

\* The schedule that follows one that can be ordered into is a later one, which
\* can be ordered into as well.
LEMMA NextIsLater ==
  ASSUME NEW n \in Groups, NEW m \in Groups, NEW t \in Nat, Usable(n, t),
         IsNextSchedule(m, n, AfterGroup(n, t))
  PROVE  n < m /\ Usable(m, t)
<1>1. Closes(n) \in Nat /\ Closes(n) > t
  BY ScheduleAssumption, BoundAssumption DEF Closes, Usable
<1>2. Usable(m, Closes(n)) /\ n <= m
  BY <1>1 DEF IsNextSchedule, AfterGroup
<1>3. Usable(m, t)
  BY <1>1, <1>2, UsableAntitone
<1>4. m # n
  BY <1>1, <1>2 DEF Usable
<1> QED BY <1>2, <1>3, <1>4, BoundAssumption

\* Each turn of the loop skips a group that is taken, and goes on to a later one.
LEMMA SkippingCounts ==
  ASSUME IInv, NEW t \in Tasks, NEW m \in Groups,
         t.stage = "code", TriesTaken(t),
         Exists(t.group), ~IsBookable(t.group, t.asked),
         IsNextSchedule(m, t.group, AfterGroup(t.group, t.asked))
  PROVE  /\ Usable(m, t.asked)
         /\ Cardinality(TakenBelow(m, t.asked)) >= t.tries + 1
<1>1. t.group \in Groups /\ t.asked \in Nat /\ t.tries \in Nat
  BY AttemptsAssumption DEF Tasks
<1>2. /\ Usable(t.group, t.asked)
      /\ Cardinality(TakenBelow(t.group, t.asked)) >= t.tries
  BY DEF TriesTaken
<1>3. Taken(t.group)
  BY <1>1, <1>2 DEF IsBookable, Exists, Taken, IInv, TypeOK
<1>4. t.group < m /\ Usable(m, t.asked)
  BY <1>1, <1>2, NextIsLater
<1>5. Cardinality(TakenBelow(m, t.asked))
        >= Cardinality(TakenBelow(t.group, t.asked)) + 1
  BY <1>1, <1>2, <1>3, <1>4, OneMoreTaken
<1>6. /\ Cardinality(TakenBelow(m, t.asked)) \in Nat
      /\ Cardinality(TakenBelow(t.group, t.asked)) \in Nat
  BY <1>1, TakenBelowFinite
<1> QED BY <1>1, <1>2, <1>4, <1>5, <1>6

\* A request that moves counts at least as many taken groups as it has tried.
LEMMA MoverCounts ==
  ASSUME IInv, TriesAreTaken, NEW p \in Requests, Resolve(p)
  PROVE  TriesTaken(task'[p])
<1> DEFINE t == task[p]
<1>1. t \in Tasks /\ TriesTaken(t) /\ 0 \in Nat
  BY DEF IInv, TypeOK, TriesAreTaken
<1>2. ASSUME NEW u, Goes(p, u) PROVE task'[p] = u
  BY <1>2 DEF Goes, IInv, TypeOK
<1>3. ASSUME NEW stage, NEW n, GoesWith(p, stage, n)
      PROVE  /\ task'[p].stage = stage /\ task'[p].group = n
             /\ task'[p].asked = t.asked /\ task'[p].tries = t.tries
  BY <1>1, <1>3 DEF GoesWith, Goes, IInv, TypeOK, Tasks
<1>4. CASE Begin(p)
  <2>1. task'[p] = [Idle EXCEPT !.stage = "asked", !.asked = now]
    BY <1>4 DEF Begin, Goes, IInv, TypeOK
  <2> QED BY <2>1 DEF Idle, TriesTaken
<1>5. CASE FindOpen(p)
  <2>1. t.tries = 0
    BY <1>1, <1>5 DEF FindOpen, At, TriesTaken
  <2>2. task'[p].stage \in {"latest", "ensure"} /\ task'[p].tries = t.tries
    BY <1>3, <1>5 DEF FindOpen, AfterOpen
  <2> QED BY <2>1, <2>2 DEF TriesTaken
<1>6. CASE FindLatest(p)
  <2>1. t.tries = 0 /\ t.asked \in Nat
    BY <1>1, <1>6 DEF FindLatest, At, TriesTaken, Tasks
  <2>2. PICK m \in Groups, n \in Groups :
          IsNextSchedule(m, n, t.asked) /\ GoesWith(p, "code", m)
    BY <1>6 DEF FindLatest
  <2>3. Usable(m, t.asked) /\ Cardinality(TakenBelow(m, t.asked)) \in Nat
    BY <2>1, <2>2, TakenBelowFinite DEF IsNextSchedule
  <2>4. /\ task'[p].stage = "code" /\ task'[p].group = m
        /\ task'[p].asked = t.asked /\ task'[p].tries = t.tries
    BY <1>3, <2>2
  <2> QED BY <2>1, <2>3, <2>4 DEF TriesTaken
<1>7. CASE FindCode(p)
  <2>1. t.stage = "code"
    BY <1>7 DEF FindCode, At
  <2>2. CASE \E stage \in {"create", "ensure"} : GoesWith(p, stage, t.group)
    BY <1>1, <1>3, <2>1, <2>2 DEF TriesTaken
  <2>3. ASSUME NEW m \in Groups, Exists(t.group),
               ~IsBookable(t.group, t.asked),
               IsNextSchedule(m, t.group, AfterGroup(t.group, t.asked)),
               Goes(p, [t EXCEPT !.group = m, !.tries = @ + 1])
        PROVE  TriesTaken(task'[p])
    <3>1. task'[p] = [t EXCEPT !.group = m, !.tries = @ + 1]
      BY <2>3 DEF Goes, IInv, TypeOK
    <3>2. /\ task'[p].stage = "code" /\ task'[p].group = m
          /\ task'[p].asked = t.asked /\ task'[p].tries = t.tries + 1
      BY <1>1, <2>1, <3>1 DEF Tasks
    <3>3. /\ Usable(m, t.asked)
          /\ Cardinality(TakenBelow(m, t.asked)) >= t.tries + 1
      BY <1>1, <2>1, <2>3, SkippingCounts
    <3> QED BY <3>2, <3>3 DEF TriesTaken
  <2> QED BY <1>7, <2>2, <2>3 DEF FindCode
<1>8. CASE CreateGroup(p)
  <2>1. t.stage = "create"
    BY <1>8 DEF CreateGroup, At
  <2>2. /\ task'[p].stage \in {"ensure", "code"} /\ task'[p].group = t.group
        /\ task'[p].asked = t.asked /\ task'[p].tries = t.tries
    BY <1>3, <1>8 DEF CreateGroup
  <2> QED BY <1>1, <2>1, <2>2 DEF TriesTaken
<1>9. CASE CheckCatalog(p) \/ Seed(p)
  <2>1. task'[p].stage \in {"resolved", "seed"}
    BY <1>3, <1>9 DEF CheckCatalog, Seed
  <2> QED BY <2>1 DEF TriesTaken
<1>10. CASE GivesUp(p) \/ Answer(p) \/ Abort(p)
  <2>1. task'[p] = Idle
    BY <1>2, <1>10 DEF GivesUp, Answer, Abort
  <2> QED BY <2>1 DEF Idle, TriesTaken
<1> QED BY <1>4, <1>5, <1>6, <1>7, <1>8, <1>9, <1>10 DEF Resolve

-----------------------------------------------------------------------------
(* Theorems *)

\* Every reachable state has a table in which no week that can still be ordered
\* into is left behind, for the groups that exist and those about to.
THEOREM Invariance == Spec => []IInv
<1>1. IInv /\ [Next]_vars => IInv'
  <2> SUFFICES ASSUME IInv, [Next]_vars PROVE IInv'
    OBVIOUS
  <2>1. ASSUME NEW p \in Requests, Resolve(p) PROVE IInv'
    <3>1. CASE Begin(p)
      BY <3>1, BeginKeeps
    <3>2. CASE FindOpen(p)
      BY <3>2, FindOpenKeeps
    <3>3. CASE FindLatest(p)
      BY <3>3, FindLatestKeeps
    <3>4. CASE FindCode(p)
      BY <3>4, FindCodeKeeps
    <3>5. CASE GivesUp(p)
      BY <3>5, IdlesKeep DEF GivesUp
    <3>6. CASE CreateGroup(p)
      BY <3>6, CreateGroupKeeps
    <3>7. CASE CheckCatalog(p)
      BY <3>7, CheckCatalogKeeps
    <3>8. CASE Seed(p)
      BY <3>8, SeedKeeps
    <3>9. CASE Answer(p)
      BY <3>9, IdlesKeep DEF Answer
    <3>10. CASE Abort(p)
      BY <3>10, IdlesKeep DEF Abort
    <3> QED BY <2>1, <3>1, <3>2, <3>3, <3>4, <3>5, <3>6, <3>7, <3>8, <3>9,
               <3>10 DEF Resolve
  <2>2. CASE Tick
    BY <2>2, TickKeeps
  <2>3. CASE CloseWeekly
    BY <2>3, CloseWeeklyKeeps
  <2>4. ASSUME NEW n \in Groups, NEW s \in BatchStatus, Withdraw(n, s)
        PROVE  IInv'
    BY <2>4, WithdrawKeeps
  <2>5. ASSUME NEW n \in Groups, NEW p \in Products, NEW e \in Editions,
               Publish(n, p, e)
        PROVE  IInv'
    BY <2>5, PublishKeeps
  <2>6. ASSUME NEW p \in Products, Relist(p) PROVE IInv'
    BY <2>6, RelistKeeps
  <2>7. CASE UNCHANGED vars
    BY <2>7 DEF vars, IInv, TypeOK, Passed, Taken, Usable, Exists
  <2> QED BY <2>1, <2>2, <2>3, <2>4, <2>5, <2>6, <2>7 DEF Next
<1> QED BY <1>1, Initially, PTL DEF Spec

\* Every row and every task keeps its type.
THEOREM TypeCorrect == Spec => []TypeOK
<1>1. IInv => TypeOK
  BY DEF IInv
<1> QED  BY <1>1, Invariance, PTL

\* However many requests roll the schedule over at once, at most one group can be
\* ordered into at a time: the earlier of two would have been passed over.
THEOREM OneGroupBookable == Spec => []OneBookable
<1>1. IInv => OneBookable
  <2> SUFFICES ASSUME IInv,
                      NEW m \in Groups, NEW n \in Groups, m # n,
                      IsBookable(m, now), IsBookable(n, now)
               PROVE  FALSE
    BY DEF OneBookable
  <2>1. ASSUME NEW k \in Groups, NEW l \in Groups, k < l,
               IsBookable(k, now), IsBookable(l, now)
        PROVE  FALSE
    <3>1. Passed(l) /\ Usable(k, now) /\ status[k] = "open"
      BY <2>1 DEF IInv, IsBookable, Exists
    <3> QED BY <3>1, <2>1 DEF Passed, Taken
  <2>2. m < n \/ n < m
    BY BoundAssumption
  <2> QED BY <2>1, <2>2
<1> QED BY <1>1, Invariance, PTL

\* A catalog with prices is changed by whoever publishes prices, and by nobody
\* else.
THEOREM CuratedIsKept == Spec => CuratedKept
<1>1. IInv /\ [Next]_vars => [OnlyPublishing]_vars
  <2> SUFFICES ASSUME IInv, [Next]_vars,
                      NEW n \in Groups, catalog[n] # Empty,
                      catalog'[n] # catalog[n]
               PROVE  \E p \in Products, e \in Editions : Publish(n, p, e)
    BY DEF OnlyPublishing
  <2>1. ASSUME NEW p \in Requests, Resolve(p) PROVE FALSE
    <3>1. Seed(p)
      BY <2>1 DEF Resolve, Begin, FindOpen, FindLatest, FindCode, GivesUp,
                  CreateGroup, CheckCatalog, Answer, Abort
    <3> QED BY <3>1 DEF Seed, MaySeed, IInv, TypeOK
  <2>2. PICK k \in Groups, p \in Products, e \in Editions : Publish(k, p, e)
    BY <2>1 DEF Next, Tick, CloseWeekly, Withdraw, Relist, vars
  <2>3. k = n
    BY <2>2 DEF Publish, IInv, TypeOK
  <2> QED BY <2>2, <2>3
<1> QED BY <1>1, Invariance, PTL DEF Spec, CuratedKept

\* An empty catalog that rows are joined to has those rows.
LEMMA EmptyJoins ==
  ASSUME NEW rows
  PROVE  Joined(Empty, Carried(rows)) = Carried(rows)
BY DEF Joined, Empty, Carried

\* Whoever is given a group finds prices in it, or there is nothing to carry: no
\* earlier group has prices, or in the last one that has every price is of a
\* product that is not sold.  The rows that a seed finds in an empty group are
\* those of the source it carries.
THEOREM CatalogIsCarriedOver == Spec => RolloverKeepsCatalog
<1>1. IInv /\ [Next]_vars => [FilledWhenResolved]_vars
  <2> SUFFICES ASSUME IInv, [Next]_vars, NEW p \in Requests,
                      ~At(p, "resolved"), task'[p].stage = "resolved"
               PROVE  LET n == task'[p].group
                      IN  \/ catalog'[n] # Empty
                          \/ status[n] = "withdrawn"
                          \/ NothingToCarry(n)
    BY DEF FilledWhenResolved
  <2>1. task' # task /\ task[p] \in Tasks
    BY DEF At, IInv, TypeOK
  <2>2. PICK q \in Requests : Resolve(q)
    BY <2>1 DEF Next, Tick, CloseWeekly, Withdraw, Publish, Relist, vars
  <2>3. q = p
    BY <2>2 DEF Resolve, Begin, FindOpen, FindLatest, FindCode, GivesUp,
                CreateGroup, CheckCatalog, Seed, Answer, Abort, Goes, GoesWith,
                At, IInv, TypeOK
  <2>4. CheckCatalog(p) \/ Seed(p)
    <3>1. \A t : Goes(p, t) => t.stage = "resolved"
      BY DEF Goes, IInv, TypeOK
    <3>2. ASSUME NEW stage, NEW n, GoesWith(p, stage, n)
          PROVE  stage = "resolved"
      <4> DEFINE t == [task[p] EXCEPT !.stage = stage, !.group = n]
      <4>1. t.stage = stage
        BY <2>1 DEF Tasks
      <4>2. Goes(p, t)
        BY <3>2 DEF GoesWith
      <4> HIDE DEF t
      <4> QED BY <3>1, <4>1, <4>2
    <3>3. Idle.stage # "resolved"
      BY DEF Idle
    <3>4. ~Begin(p)
      <4> DEFINE t == [Idle EXCEPT !.stage = "asked", !.asked = now]
      <4>1. t.stage = "asked"
        BY DEF Idle
      <4> HIDE DEF t
      <4>2. ~Goes(p, t)
        BY <3>1, <4>1
      <4> QED BY <4>2 DEF Begin, t
    <3>5. ~GivesUp(p) /\ ~Answer(p) /\ ~Abort(p)
      BY <3>1, <3>3 DEF GivesUp, Answer, Abort
    <3>6. ~FindOpen(p) /\ ~FindLatest(p) /\ ~CreateGroup(p)
      BY <3>2 DEF FindOpen, FindLatest, CreateGroup, AfterOpen
    <3>7. ~FindCode(p)
      <4>1. ASSUME NEW m \in Groups
            PROVE  ~Goes(p, [task[p] EXCEPT !.group = m, !.tries = @ + 1])
        <5> DEFINE t == [task[p] EXCEPT !.group = m, !.tries = @ + 1]
        <5>1. t.stage # "resolved"
          BY <2>1 DEF At, Tasks
        <5> HIDE DEF t
        <5>2. ~Goes(p, t)
          BY <3>1, <5>1
        <5> QED BY <5>2 DEF t
      <4> QED BY <3>2, <4>1 DEF FindCode
    <3> QED BY <2>2, <2>3, <3>4, <3>5, <3>6, <3>7 DEF Resolve
  <2>5. CASE CheckCatalog(p)
    BY <2>1, <2>5 DEF CheckCatalog, Goes, GoesWith, IInv, TypeOK, Tasks
  <2>6. CASE Seed(p)
    <3> DEFINE n == task[p].group
    <3>1. n \in Groups /\ task'[p].group = n
      BY <2>1, <2>6 DEF Seed, Goes, GoesWith, IInv, TypeOK, Tasks
    <3>2. CASE MaySeed(n) /\ Sources(n) # {}
      <4>1. PICK m \in Groups :
              /\ IsSource(m, n)
              /\ catalog' = [catalog EXCEPT
                               ![n] = Joined(@, Carried(catalog[m]))]
        BY <3>2, <2>6 DEF Seed
      <4>2. catalog'[n] = Carried(catalog[m])
        BY <3>1, <3>2, <4>1, EmptyJoins DEF MaySeed, IInv, TypeOK
      <4>3. \A k \in Groups : IsSource(k, n) => k = m
        BY <4>1, BoundAssumption DEF IsSource, Sources, Dated
      <4> QED BY <3>1, <4>2, <4>3 DEF NothingToCarry
    <3>3. CASE Sources(n) = {}
      BY <3>1, <3>3 DEF NothingToCarry, IsSource
    <3>4. CASE ~MaySeed(n)
      BY <3>1, <3>4, <2>6 DEF Seed, MaySeed
    <3> QED BY <3>2, <3>3, <3>4
  <2> QED BY <2>4, <2>5, <2>6
<1> QED BY <1>1, Invariance, PTL DEF Spec, RolloverKeepsCatalog

\* As many groups as a request has tried are taken, below the one it is at.
THEOREM TriesInvariance == Spec => []TriesAreTaken
<1>1. Init => TriesAreTaken
  BY DEF Init, TriesAreTaken, TriesTaken, Idle
<1>2. IInv /\ IInv' /\ TriesAreTaken /\ [Next]_vars => TriesAreTaken'
  <2> SUFFICES ASSUME IInv, IInv', TriesAreTaken, [Next]_vars,
                      NEW p \in Requests
               PROVE  TriesTaken(task[p])'
    BY DEF TriesAreTaken
  <2>1. task'[p] \in Tasks /\ task[p] \in Tasks
    BY DEF IInv, TypeOK
  <2>2. TriesTaken(task'[p])
    <3>1. CASE Resolve(p)
      BY <3>1, MoverCounts
    <3>2. CASE task'[p] = task[p]
      BY <3>2 DEF TriesAreTaken
    <3>3. ASSUME NEW q \in Requests, q # p, Resolve(q)
          PROVE  task'[p] = task[p]
      BY <3>3 DEF Resolve, Begin, FindOpen, FindLatest, FindCode, GivesUp,
                  CreateGroup, CheckCatalog, Seed, Answer, Abort, Goes,
                  GoesWith, IInv, TypeOK
    <3> QED BY <3>1, <3>2, <3>3
        DEF Next, Tick, CloseWeekly, Withdraw, Publish, Relist, vars
  <2> QED BY <2>1, <2>2, TriesTakenStays
      DEF IInv, TriesTaken, TakenBelow, Taken, Usable, Closes, Delivers
<1> QED BY <1>1, <1>2, Invariance, PTL DEF Spec

\* The answer that ordering is unavailable comes only when as many groups as the
\* code may try really are taken.
THEOREM UnavailableOnlyWhenTaken == Spec => UnavailableWhenTaken
<1>1. IInv /\ TriesAreTaken /\ [Next]_vars => [GivesUpWhenTaken]_vars
  <2> SUFFICES ASSUME IInv, TriesAreTaken, NEW p \in Requests, GivesUp(p)
               PROVE  Cardinality({n \in Groups :
                                     Usable(n, task[p].asked) /\ Taken(n)})
                        >= Attempts
    BY DEF GivesUpWhenTaken
  <2> DEFINE t == task[p]
             S == TakenBelow(t.group, t.asked)
             All == {n \in Groups : Usable(n, t.asked) /\ Taken(n)}
  <2>1. /\ t.group \in Groups /\ t.asked \in Nat /\ t.tries \in Nat
        /\ t.stage = "code" /\ t.tries + 1 = Attempts
    BY AttemptsAssumption DEF IInv, TypeOK, Tasks, GivesUp, At, LastTry
  <2>2. Usable(t.group, t.asked) /\ Cardinality(S) >= t.tries
    BY <2>1 DEF TriesAreTaken, TriesTaken
  <2>3. Taken(t.group)
    BY <2>1, <2>2 DEF GivesUp, IsBookable, Exists, Taken, IInv, TypeOK
  <2>4. t.group \notin S /\ S \cup {t.group} \subseteq All
    BY <2>1, <2>2, <2>3, BoundAssumption DEF TakenBelow
  <2>5. IsFiniteSet(All)
    <3>1. IsFiniteSet(Groups)
      BY FS_Interval, BoundAssumption
    <3> QED BY <3>1, FS_Subset
  <2>6. IsFiniteSet(S) /\ Cardinality(S) \in Nat
    BY <2>1, TakenBelowFinite
  <2>7. Cardinality(S \cup {t.group}) = Cardinality(S) + 1
    BY <2>4, <2>6, FS_AddElement
  <2>8. Cardinality(S \cup {t.group}) <= Cardinality(All)
    BY <2>4, <2>5, FS_Subset
  <2>9. Cardinality(All) \in Nat
    BY <2>5, FS_CardinalityType
  <2> QED BY <2>1, <2>2, <2>6, <2>7, <2>8, <2>9
<1> QED BY <1>1, Invariance, TriesInvariance, PTL
    DEF Spec, UnavailableWhenTaken
=============================================================================
