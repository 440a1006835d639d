------------------------------- MODULE Deploy -------------------------------
(***************************************************************************)
(* The idle deploys of one player: start a job of a type, wait, claim its  *)
(* reward, cut the wait with boosters.  Each request runs its handler in   *)
(* one locked transaction, so a handler is one step here (PlayerLock shows *)
(* why); but it reads the clock when it arrives, before it waits for the   *)
(* lock, and by the time it runs its "now" may lie in the past.            *)
(***************************************************************************)
EXTENDS Progression, Sequences, FiniteSets, FiniteSetsExt

CONSTANTS Type,         \* the deploy types of the catalog
          DeployLevel,  \* the deploy levels of the catalog
          AskedLevel,   \* the levels a request may name, unknown ones included
          Tier(_),      \* minLevel, time, xp, coins, gems of a deploy level
          Bonuses,      \* the bonuses player.Bonus may compute: cut, xp, coins
          BoostCut,     \* what a booster takes off the wait
          Boosters,     \* how many boosters the player owns at first
          Slot,         \* requests that may be in flight together (bound)
          MaxJobs,      \* bound: jobs ever started
          MaxClock,     \* bound: the clock stops there
          Idle,         \* a slot without a request
          Never         \* collected_at IS NULL

ASSUME DeployAssumption ==
  /\ BoostCut \in Nat /\ Boosters \in Nat /\ MaxClock \in Nat /\ Never \notin Nat
  /\ \A l \in DeployLevel : /\ Tier(l).time \in Nat /\ Tier(l).xp \in Nat
                            /\ Tier(l).coins \in Nat /\ Tier(l).gems \in Nat
  /\ \A b \in Bonuses : b.cut \in 0 .. 100 /\ b.xp \in Nat /\ b.coins \in Nat

VARIABLES clock,    \* the clock of the API, in units of time
          purse,    \* coins and gems
          boosters, \* the player's stock of boost_deploy
          bonus,    \* what player.Bonus computes at the moment
          jobs,     \* the rows of deploy_jobs, in the order of their insertion
          req,      \* the request in each slot
          shown     \* the jobs some answer has shown as ready (ghost)

vars == <<clock, hero, purse, boosters, bonus, jobs, req, shown>>

Init == /\ clock = 0
        /\ hero = NewHero
        /\ purse = [coins |-> 0, gems |-> 0]
        /\ boosters = Boosters
        /\ bonus \in Bonuses
        /\ jobs = <<>>
        /\ req = [s \in Slot |-> Idle]
        /\ shown = {}

Op == {"start", "claim", "boost", "list"}

\* Time passes.
Tick == /\ clock < MaxClock
        /\ clock' = clock + 1
        /\ UNCHANGED <<hero, purse, boosters, bonus, jobs, req, shown>>

\* Skills, gear, skin, office, rack or notebook change: other bonuses count.
Refit == /\ bonus' \in Bonuses \ {bonus}
         /\ UNCHANGED <<clock, hero, purse, boosters, jobs, req, shown>>

\* A request arrives and reads the clock: now := h.now().
Arrive(s) ==
  /\ req[s] = Idle
  /\ \E op \in Op, t \in Type, l \in AskedLevel :
       /\ op # "start" => l = 1
       /\ req' = [req EXCEPT ![s] = [op |-> op, type |-> t, level |-> l,
                                     now |-> clock,
                                     knew |-> IF op = "claim" THEN shown ELSE {}]]
  /\ UNCHANGED <<clock, hero, purse, boosters, bonus, jobs, shown>>

\* Its handler runs or is refused; either way the slot is free again.
Handled(s, op) == /\ req[s] # Idle
                  /\ req[s].op = op
                  /\ req' = [req EXCEPT ![s] = Idle]

\* The uncollected jobs of a type: at most one, by a partial unique index.
Active(t) == {i \in DOMAIN jobs : jobs[i].type = t /\ jobs[i].collected = Never}
-----------------------------------------------------------------------------
\* (Fault) Nothing looks for a running job of the type.
CanStartTwice(t, l) == l \in DeployLevel /\ hero.level >= Tier(l).minLevel

CanStart(t, l) == /\ l \in DeployLevel
                  /\ hero.level >= Tier(l).minLevel
                  /\ Active(t) = {}

\* The row a start inserts: the bonuses of this moment are frozen in it.
\* due and boosts are ghosts: the end it was given, the boosts since.
NewJob(t, l, now) ==
  LET ends == now + Percent(Tier(l).time, 100 - bonus.cut)
  IN  [type |-> t, level |-> l, started |-> now, ends |-> ends,
       xp    |-> Percent(Tier(l).xp, 100 + bonus.xp),
       coins |-> Percent(Tier(l).coins, 100 + bonus.coins),
       gems  |-> Tier(l).gems,
       collected |-> Never, due |-> ends, boosts |-> 0]

Start(s) ==
  LET r == req[s]
  IN  /\ Handled(s, "start")
      /\ CanStart(r.type, r.level)
      /\ Len(jobs) < MaxJobs
      /\ jobs' = Append(jobs, NewJob(r.type, r.level, r.now))
      /\ UNCHANGED <<clock, hero, purse, boosters, bonus, shown>>

\* (Fault) The reward is credited and the row is left uncollected.
CollectForgotten(i, now) == UNCHANGED jobs

\* UPDATE deploy_jobs SET collected_at = now.
Collect(i, now) == jobs' = [jobs EXCEPT ![i].collected = now]

\* (Fault) The clock is compared the wrong way round at the boundary.
ReadyAtHalf(i, now) == 2 * now >= jobs[i].started + jobs[i].ends

\* !now.Before(ends)
Ready(i, now) == now >= jobs[i].ends

Claim(s) ==
  /\ Handled(s, "claim")
  /\ \E i \in Active(req[s].type) :
       /\ Ready(i, req[s].now)
       /\ Collect(i, req[s].now)
       /\ hero' = GainXP(hero, jobs[i].xp)
       /\ purse' = [coins |-> purse.coins + jobs[i].coins,
                    gems  |-> purse.gems + jobs[i].gems]
  /\ UNCHANGED <<clock, boosters, bonus, shown>>

\* 409 deploy_not_ready.
ClaimTooEarly(s) ==
  /\ Handled(s, "claim")
  /\ \E i \in Active(req[s].type) : ~Ready(i, req[s].now)
  /\ UNCHANGED <<clock, hero, purse, boosters, bonus, jobs, shown>>

\* (Fault) The UPDATE names the type and forgets the row.
CutAllOfType(i, end) ==
  jobs' = [j \in DOMAIN jobs |->
             IF jobs[j].type = jobs[i].type
             THEN [jobs[j] EXCEPT !.ends = end, !.boosts = @ + 1] ELSE jobs[j]]

\* UPDATE deploy_jobs SET ends_at = end.
Cut(i, end) == jobs' = [jobs EXCEPT ![i].ends = end, ![i].boosts = @ + 1]

HasBooster == boosters >= 1

Boost(s) ==
  LET now == req[s].now
  IN  /\ Handled(s, "boost")
      /\ HasBooster
      /\ \E i \in Active(req[s].type) :
           LET end == Max({jobs[i].ends - BoostCut, now})
           IN  /\ now < jobs[i].ends
               /\ Cut(i, end)
               /\ shown' = IF end <= now THEN shown \cup {i} ELSE shown
      /\ boosters' = boosters - 1
      /\ UNCHANGED <<clock, hero, purse, bonus>>

\* (Fault) "ready" is rounded up to the next unit of time.
ListsAsReadyEarly(i, now) == now + 1 >= jobs[i].ends

ListsAsReady(i, now) == now >= jobs[i].ends

\* GET /me/deploys: the uncollected jobs, each with its ready flag.
List(s) ==
  /\ Handled(s, "list")
  /\ shown' = shown \cup
       {i \in DOMAIN jobs : /\ jobs[i].collected = Never
                            /\ ListsAsReady(i, req[s].now)}
  /\ UNCHANGED <<clock, hero, purse, boosters, bonus, jobs>>

\* Every other refusal: 404, 409 and 422 answers that change nothing.
Refuse(s) ==
  LET r == req[s]
  IN  /\ \/ Handled(s, "start") /\ ~CanStart(r.type, r.level)
         \/ Handled(s, "claim") /\ Active(r.type) = {}
         \/ Handled(s, "boost") /\ \/ ~HasBooster
                                   \/ \A i \in Active(r.type) : r.now >= jobs[i].ends
      /\ UNCHANGED <<clock, hero, purse, boosters, bonus, jobs, shown>>

\* The transaction is rolled back: an error, a lost connection, a crash.
Fail(s) ==
  /\ req[s] # Idle
  /\ req' = [req EXCEPT ![s] = Idle]
  /\ UNCHANGED <<clock, hero, purse, boosters, bonus, jobs, shown>>

Next == \/ Tick \/ Refit
        \/ \E s \in Slot : \/ Arrive(s) \/ Start(s) \/ Claim(s) \/ ClaimTooEarly(s)
                           \/ Boost(s) \/ List(s) \/ Refuse(s) \/ Fail(s)

Spec == Init /\ [][Next]_vars
-----------------------------------------------------------------------------
Job == [type : Type, level : DeployLevel, started : Nat, ends : Nat,
        xp : Nat, coins : Nat, gems : Nat, collected : Nat \cup {Never},
        due : Nat, boosts : Nat]

Request == [op : Op, type : Type, level : AskedLevel, now : Nat,
            knew : SUBSET (1 .. MaxJobs)]

TypeOK == /\ clock \in 0 .. MaxClock
          /\ hero \in Hero
          /\ purse \in [coins : Nat, gems : Nat]
          /\ boosters \in Nat
          /\ bonus \in Bonuses
          /\ jobs \in Seq(Job)
          /\ req \in [Slot -> Request \cup {Idle}]
          /\ shown \in SUBSET (1 .. MaxJobs)

\* A player never has two deploys of one type running.
OneRunningPerType == \A t \in Type : Cardinality(Active(t)) <= 1

Collected == {i \in DOMAIN jobs : jobs[i].collected # Never}

\* The player has been paid for every collected job once and for nothing else:
\* no retried, doubled or raced claim pays again, whatever it earned in levels.
RewardLedger ==
  /\ purse.coins = SumFunction([i \in Collected |-> jobs[i].coins])
  /\ purse.gems  = SumFunction([i \in Collected |-> jobs[i].gems])
  /\ TotalXP(hero) = SumFunction([i \in Collected |-> jobs[i].xp])

\* A job is collected at or after its end, every cut of its end is paid with a
\* booster, and every booster gone was spent on a job.
TimeIsPaid ==
  /\ \A i \in DOMAIN jobs :
       /\ jobs[i].ends + BoostCut * jobs[i].boosts >= jobs[i].due
       /\ i \in Collected => jobs[i].collected >= jobs[i].ends
  /\ boosters >= 0
  /\ boosters + SumFunction([i \in DOMAIN jobs |-> jobs[i].boosts]) = Boosters

Frozen(j) == [j EXCEPT !.ends = 0, !.collected = Never, !.boosts = 0]

\* What a job was started for stays: later bonuses change neither its reward
\* nor its level, its end only moves earlier, and a collected job is history.
JobsAreFrozen ==
  [][\A i \in DOMAIN jobs :
       /\ i \in DOMAIN jobs'
       /\ Frozen(jobs'[i]) = Frozen(jobs[i])
       /\ jobs'[i].ends <= jobs[i].ends
       /\ jobs[i].collected # Never => jobs'[i] = jobs[i]]_vars

\* A deploy once shown as ready can be claimed: no claim sent after that answer
\* is refused as too early, whatever boosts and claims are still in flight.
ReadyIsClaimable ==
  [][\A s \in Slot :
       ClaimTooEarly(s) => Active(req[s].type) \cap req[s].knew = {}]_vars

\* "A ready deploy is refused without spending anything" (the comment on
\* Boost): no booster is spent on a job some answer has shown as ready.
ReadyIsNotBoosted ==
  [][\A s \in Slot : Boost(s) => Active(req[s].type) \cap shown = {}]_vars
=============================================================================
