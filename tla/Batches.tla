------------------------------- MODULE Batches -------------------------------
(***************************************************************************)
(* BatchesService: the delivery groups (table po_batches), the request that *)
(* finds or creates the one to order into, and the catalog of prices it     *)
(* carries forward.                                                         *)
(*                                                                          *)
(* Schedules are a template shifted by weeks, so a group is the number of   *)
(* weeks it is shifted by, and its code, unique in the table, is that       *)
(* number too (Schedule says why weeks have distinct codes).  A request     *)
(* reads the clock once and the tables at every await; the transaction that *)
(* seeds a catalog holds the group's row, which whoever publishes prices    *)
(* into that group waits for (foreign key), so it is one step.  Of a price  *)
(* row the edition stands for everything but the product.                   *)
(***************************************************************************)
EXTENDS Integers, FiniteSets

CONSTANTS
  Requests,    \* storefront requests, checkouts and cron runs of current()
  Products,    \* the products that may have a price
  Week,        \* ticks of the clock in a week
  Cutoff,      \* when in its week a group closes
  Lead,        \* when in its week it is delivered
  Attempts,    \* schedules tried before giving up, 104 in the code
  MaxGroup, MaxNow, MaxEdition \* bounds

ASSUME ScheduleAssumption ==
  /\ Week \in Nat \ {0} /\ Cutoff \in Nat /\ Lead \in Nat
  /\ Cutoff <= Lead + Week
ASSUME AttemptsAssumption == Attempts \in Nat \ {0}
ASSUME BoundAssumption ==
  MaxGroup \in Nat /\ MaxNow \in Nat /\ MaxEdition \in Nat

VARIABLES
  status,  \* status[n]: po_batches.status, "none" without a row
  catalog, \* catalog[n][p]: the price row of p in group n, 0 for none
  sold,    \* the products not deleted, active, and approved if a merchant's
  now,     \* the clock
  task     \* task[p]: what request p holds across an await

vars == <<status, catalog, sold, now, task>>

-----------------------------------------------------------------------------
(* Data *)

Groups == 0..MaxGroup

\* "withdrawn": cancelled or draft.  "closed": closed, sourcing or delivered.
BatchStatus == {"open", "closed", "withdrawn"}

NoPrice == 0

Editions == 1..MaxEdition

Catalogs == [Products -> {NoPrice} \cup Editions]

Empty == [p \in Products |-> NoPrice]

Closes(n) == n * Week + Cutoff

Delivers(n) == n * Week + Lead

\* Still to be ordered into at t, by cutoff and delivery date.
Usable(n, t) == Closes(n) > t /\ Delivers(n) >= t

Exists(n) == status[n] # "none"

Stages == {"idle", "asked", "latest", "code", "create", "ensure", "seed",
           "resolved"}

Tasks ==
  [stage : Stages, group : Groups, asked : Nat, tries : 0..(Attempts - 1)]

Idle == [stage |-> "idle", group |-> 0, asked |-> 0, tries |-> 0]

At(p, stage) == task[p].stage = stage

Goes(p, t) == task' = [task EXCEPT ![p] = t]

GoesWith(p, stage, n) ==
  Goes(p, [task[p] EXCEPT !.stage = stage, !.group = n])

\* A new installation, or one group an operator has set up.
Init ==
  /\ status \in {f \in [Groups -> BatchStatus \cup {"none"}] :
                   \A n \in Groups \ {0} : f[n] = "none"}
  /\ catalog \in {f \in [Groups -> Catalogs] :
                    \A n \in Groups : ~Exists(n) => f[n] = Empty}
  /\ sold \in SUBSET Products
  /\ now = 0
  /\ task = [p \in Requests |-> Idle]

-----------------------------------------------------------------------------
(* current *)

Begin(p) ==
  /\ At(p, "idle")
  /\ Goes(p, [Idle EXCEPT !.stage = "asked", !.asked = now])
  /\ UNCHANGED <<status, catalog, sold, now>>

OpenFor(t) == {n \in Groups : status[n] = "open" /\ Usable(n, t)}

Earliest(n, S) == n \in S /\ \A k \in S : n <= k

AfterOpenTrusted == "resolved"

\* Whether it was just created or not: its creator may have died.
AfterOpen == "ensure"

FindOpen(p) ==
  LET open == OpenFor(task[p].asked)
  IN  /\ At(p, "asked")
      /\ IF open = {} THEN GoesWith(p, "latest", 0)
         ELSE \E n \in open : Earliest(n, open) /\ GoesWith(p, AfterOpen, n)
      /\ UNCHANGED <<status, catalog, sold, now>>

Dated == {n \in Groups : status[n] \in {"open", "closed"}}

\* nextDeliverySchedule: n rolled forward by weeks until usable at t.
IsNextSchedule(m, n, t) ==
  /\ m \in Groups /\ n <= m
  /\ Usable(m, t)
  /\ \A k \in n..(m - 1) : ~Usable(k, t)

\* The last group is the template, or else the default schedule.
FindLatest(p) ==
  LET t == task[p]
  IN  /\ At(p, "latest")
      /\ \E m, n \in Groups :
           /\ IF Dated = {} THEN n = 0
              ELSE n \in Dated /\ \A k \in Dated : k <= n
           /\ IsNextSchedule(m, n, t.asked)
           /\ GoesWith(p, "code", m)
      /\ UNCHANGED <<status, catalog, sold, now>>

AfterNow(n, t) == t

AfterGroup(n, t) == IF Closes(n) > t THEN Closes(n) ELSE t

IsBookable(n, t) == status[n] = "open" /\ Usable(n, t)

LastTry(t) == t.tries + 1 = Attempts

GivesUp(p) ==
  LET t == task[p]
  IN  /\ At(p, "code")
      /\ Exists(t.group)
      /\ ~IsBookable(t.group, t.asked)
      /\ LastTry(t)
      /\ Goes(p, Idle)
      /\ UNCHANGED <<status, catalog, sold, now>>

\* One turn of the loop whose code is taken, or was found taken on insert.
FindCode(p) ==
  LET t == task[p]
  IN  /\ At(p, "code")
      /\ \/ /\ ~Exists(t.group)
            /\ GoesWith(p, "create", t.group)
         \/ /\ IsBookable(t.group, t.asked)
            /\ GoesWith(p, "ensure", t.group)
         \/ /\ Exists(t.group) /\ ~IsBookable(t.group, t.asked)
            /\ ~LastTry(t)
            /\ \E m \in Groups :
                 /\ IsNextSchedule(m, t.group, AfterGroup(t.group, t.asked))
                 /\ Goes(p, [t EXCEPT !.group = m, !.tries = @ + 1])
      /\ UNCHANGED <<status, catalog, sold, now>>

CodeFreeAlways(n) == TRUE

CodeFree(n) == ~Exists(n)

\* A group it created is judged by the clock read at the start, and so bookable;
\* with the code taken (ER_DUP_ENTRY) the group is looked up again.
CreateGroup(p) ==
  LET n == task[p].group
  IN  /\ At(p, "create")
      /\ IF CodeFree(n)
         THEN /\ status' = [status EXCEPT ![n] = "open"]
              /\ GoesWith(p, "ensure", n)
         ELSE GoesWith(p, "code", n) /\ UNCHANGED status
      /\ UNCHANGED <<catalog, sold, now>>

-----------------------------------------------------------------------------
(* ensureCatalog *)

CheckCatalog(p) ==
  LET n == task[p].group
  IN  /\ At(p, "ensure")
      /\ GoesWith(p, IF catalog[n] # Empty THEN "resolved" ELSE "seed", n)
      /\ UNCHANGED <<status, catalog, sold, now>>

\* The groups a catalog can be carried forward from, and the one it is: the
\* last of them, whatever is left of it.
Sources(n) == {m \in Dated : m < n /\ catalog[m] # Empty}

IsSource(m, n) == m \in Sources(n) /\ \A k \in Sources(n) : k <= m

\* The rows of a catalog whose products are still sold.
Carried(rows) == [p \in Products |-> IF p \in sold THEN rows[p] ELSE NoPrice]

\* The insert adds rows, and leaves those that are there alone.
Joined(rows, more) ==
  [p \in Products |-> IF rows[p] # NoPrice THEN rows[p] ELSE more[p]]

MaySeedUnlessWithdrawn(n) == status[n] # "withdrawn"

\* What is checked again under the lock on the group's row.
MaySeed(n) == status[n] # "withdrawn" /\ catalog[n] = Empty

Seed(p) ==
  LET n == task[p].group
  IN  /\ At(p, "seed")
      /\ IF MaySeed(n) /\ Sources(n) # {}
         THEN \E m \in Groups :
                /\ IsSource(m, n)
                /\ catalog' = [catalog EXCEPT ![n] = Joined(@, Carried(catalog[m]))]
         ELSE UNCHANGED catalog
      /\ GoesWith(p, "resolved", n)
      /\ UNCHANGED <<status, sold, now>>

Answer(p) ==
  /\ At(p, "resolved")
  /\ Goes(p, Idle)
  /\ UNCHANGED <<status, catalog, sold, now>>

-----------------------------------------------------------------------------
(* The clock, the weekly job, operators, and failures *)

Tick ==
  /\ now < MaxNow
  /\ now' = now + 1
  /\ UNCHANGED <<status, catalog, sold, task>>

\* One update, at any time after a cutoff or never.
CloseWeekly ==
  /\ status' = [n \in Groups |->
                 IF status[n] = "open" /\ Closes(n) <= now THEN "closed"
                 ELSE status[n]]
  /\ UNCHANGED <<catalog, sold, now, task>>

\* An operator cancels a group, makes it a draft or closes it early.  Below the
\* bound on groups, so that there always is a next one.
Withdraw(n, s) ==
  /\ n < MaxGroup
  /\ status[n] = "open"
  /\ s \in {"closed", "withdrawn"}
  /\ status' = [status EXCEPT ![n] = s]
  /\ UNCHANGED <<catalog, sold, now, task>>

\* An admin, an import or a supplier sync commits a price in any group, of a
\* product that is sold or not.
Publish(n, p, e) ==
  /\ Exists(n)
  /\ e # catalog[n][p]
  /\ catalog' = [catalog EXCEPT ![n][p] = e]
  /\ UNCHANGED <<status, sold, now, task>>

\* A product is switched off or on, deleted, rejected or approved.
Relist(p) ==
  /\ sold' = IF p \in sold THEN sold \ {p} ELSE sold \cup {p}
  /\ UNCHANGED <<status, catalog, now, task>>

Abort(p) ==
  /\ ~At(p, "idle")
  /\ Goes(p, Idle)
  /\ UNCHANGED <<status, catalog, sold, now>>

Resolve(p) ==
  \/ Begin(p) \/ FindOpen(p) \/ FindLatest(p) \/ FindCode(p) \/ GivesUp(p)
  \/ CreateGroup(p) \/ CheckCatalog(p) \/ Seed(p) \/ Answer(p) \/ Abort(p)

Next ==
  \/ \E p \in Requests : Resolve(p)
  \/ Tick
  \/ CloseWeekly
  \/ \E n \in Groups, s \in BatchStatus : Withdraw(n, s)
  \/ \E n \in Groups, p \in Products, e \in Editions : Publish(n, p, e)
  \/ \E p \in Products : Relist(p)

Spec == Init /\ [][Next]_vars

-----------------------------------------------------------------------------
(* Properties *)

TypeOK ==
  /\ status \in [Groups -> BatchStatus \cup {"none"}]
  /\ catalog \in [Groups -> Catalogs]
  /\ sold \subseteq Products
  /\ now \in 0..MaxNow
  /\ task \in [Requests -> Tasks]

\* Customers are never split over two groups: at most one is open with its
\* cutoff ahead, however many requests create one at once, from clocks read long
\* ago and tables that operators and the weekly job change meanwhile.
OneBookable ==
  \A m, n \in Groups : IsBookable(m, now) /\ IsBookable(n, now) => m = n

\* Rolling over never overwrites a catalog that has prices, the comment on
\* ensureCatalog: only who publishes prices changes one.
OnlyPublishing ==
  \A n \in Groups :
    catalog[n] # Empty /\ catalog'[n] # catalog[n]
      => \E p \in Products, e \in Editions : Publish(n, p, e)

CuratedKept == [][OnlyPublishing]_vars

\* "A weekly rollover must not empty the daily storefront catalog": whoever is
\* given a group finds prices in it, also where the request that created the
\* group died before it had filled it, unless there is nothing to carry: no
\* earlier group has prices, or of those in the last that has some no product is
\* sold any more.  (The code then looks no further back.)
NothingToCarry(n) ==
  \A m \in Groups : IsSource(m, n) => Carried(catalog[m]) = Empty

FilledWhenResolved ==
  \A p \in Requests :
    ~At(p, "resolved") /\ task'[p].stage = "resolved" =>
      LET n == task'[p].group
      IN  catalog'[n] # Empty \/ status[n] = "withdrawn" \/ NothingToCarry(n)

RolloverKeepsCatalog == [][FilledWhenResolved]_vars

\* The strengthening that makes OneBookable inductive: below a group that exists,
\* or that a request is about to look up or create, no week is left that could
\* still be ordered into, and none that is not taken will ever be again.
Taken(n) == status[n] \in {"closed", "withdrawn"}

Passed(n) == \A k \in Groups : k < n /\ Usable(k, now) => Taken(k)

IInv ==
  /\ TypeOK
  /\ \A n \in Groups : Exists(n) => Passed(n)
  /\ \A p \in Requests : /\ task[p].asked <= now
                         /\ task[p].stage \in {"code", "create"}
                              => Passed(task[p].group)

\* The 503 of current, when it comes, is not the doing of the loop: as many
\* groups as it may try really are taken, none of them open.
GivesUpWhenTaken ==
  \A p \in Requests :
    GivesUp(p) =>
      Cardinality({n \in Groups : Usable(n, task[p].asked) /\ Taken(n)})
        >= Attempts

UnavailableWhenTaken == [][GivesUpWhenTaken]_vars

\* Why that holds: the groups a request has tried are below the one it is at,
\* and once taken they stay so.
TakenBelow(n, t) == {k \in Groups : k < n /\ Usable(k, t) /\ Taken(k)}

TriesTaken(t) ==
  /\ t.stage \in {"asked", "latest"} => t.tries = 0
  /\ t.stage \in {"code", "create"} =>
       /\ Usable(t.group, t.asked)
       /\ Cardinality(TakenBelow(t.group, t.asked)) >= t.tries

TriesAreTaken == \A p \in Requests : TriesTaken(task[p])
=============================================================================
