---------------------------- MODULE DeployProofs ----------------------------
(***************************************************************************)
(* Proofs about Deploy, for any types, levels, bonuses, boosters and       *)
(* requests, however late a request's clock is read.  Every handler is one *)
(* of four things to the rows of deploy_jobs: it leaves them, it adds one, *)
(* it collects one or it moves the end of one to an earlier time.          *)
(***************************************************************************)
EXTENDS Deploy, LedgerLemmas

\* The running jobs of a type are one job.
OneActive == \A i, j \in DOMAIN jobs :
  /\ jobs[i].type = jobs[j].type
  /\ jobs[i].collected = Never /\ jobs[j].collected = Never
  => i = j

Inv ==
  /\ clock \in Nat
  /\ bonus \in Bonuses
  /\ jobs \in Seq(Job)
  /\ req = [s \in Slot |-> req[s]]
  /\ \A s \in Slot : req[s] # Idle => req[s].now \in Nat /\ req[s].type \in Type
  /\ OneActive

\* What a handler may do to the rows.
Added == \E j \in Job : /\ jobs' = Append(jobs, j)
                        /\ Active(j.type) = {} /\ j.collected = Never
Paid == \E i \in DOMAIN jobs, now \in Nat :
          jobs[i].collected = Never /\ jobs' = [jobs EXCEPT ![i].collected = now]
Sped == \E i \in DOMAIN jobs, end \in Nat :
          /\ jobs[i].collected = Never /\ end <= jobs[i].ends
          /\ jobs' = [jobs EXCEPT ![i].ends = end, ![i].boosts = @ + 1]

-----------------------------------------------------------------------------
LEMMA PercentIsNat ==
  ASSUME NEW a \in Nat, NEW p \in Nat
  PROVE  Percent(a, p) \in Nat
<1>1. a * p \in Nat
  OBVIOUS
<1> DEFINE b == a * p
<1> HIDE DEF b
<1>2. b \in Nat => (b + 50) \div 100 \in Nat
  OBVIOUS
<1>3. QED BY <1>1, <1>2 DEF b, Percent

LEMMA JobFields ==
  ASSUME NEW j \in Job
  PROVE  j.ends \in Nat /\ j.boosts \in Nat
BY DEF Job

LEMMA InitInv == Init => Inv
<1>1. SUFFICES ASSUME Init PROVE Inv
  OBVIOUS
<1>2. jobs = <<>> /\ clock = 0 /\ req = [s \in Slot |-> Idle] /\ bonus \in Bonuses
  BY <1>1 DEF Init
<1>3. jobs \in Seq(Job) /\ OneActive
  BY <1>2 DEF OneActive
<1>4. QED BY <1>2, <1>3 DEF Inv

\* A new row has a job's type, and no row of its type is running.
LEMMA StartAdds ==
  ASSUME Inv, NEW s \in Slot, Start(s)
  PROVE  Added
<1> DEFINE r == req[s]
           l == r.level
           j == NewJob(r.type, l, r.now)
<1>1. /\ r.now \in Nat /\ r.type \in Type /\ l \in DeployLevel
      /\ Active(r.type) = {} /\ jobs' = Append(jobs, j)
  BY DEF Start, Handled, CanStart, Inv
<1>2. /\ Tier(l).time \in Nat /\ Tier(l).xp \in Nat /\ Tier(l).coins \in Nat /\ Tier(l).gems \in Nat
      /\ 100 - bonus.cut \in Nat /\ 100 + bonus.xp \in Nat /\ 100 + bonus.coins \in Nat
  <2>1. bonus.cut \in 0 .. 100 /\ bonus.xp \in Nat /\ bonus.coins \in Nat
    BY DeployAssumption DEF Inv
  <2>2. 100 - bonus.cut \in Nat /\ 100 + bonus.xp \in Nat /\ 100 + bonus.coins \in Nat
    BY <2>1
  <2>3. Tier(l).time \in Nat /\ Tier(l).xp \in Nat /\ Tier(l).coins \in Nat /\ Tier(l).gems \in Nat
    BY <1>1, DeployAssumption
  <2>4. QED BY <2>2, <2>3
<1>3. /\ Percent(Tier(l).time, 100 - bonus.cut) \in Nat
      /\ Percent(Tier(l).xp, 100 + bonus.xp) \in Nat
      /\ Percent(Tier(l).coins, 100 + bonus.coins) \in Nat
  BY <1>2, PercentIsNat
<1>4. r.now + Percent(Tier(l).time, 100 - bonus.cut) \in Nat
  BY <1>1, <1>3
<1>5. j \in Job /\ j.type = r.type /\ j.collected = Never
  BY <1>1, <1>2, <1>3, <1>4 DEF NewJob, Job
<1>6. QED BY <1>1, <1>5 DEF Added

LEMMA ClaimPays ==
  ASSUME Inv, NEW s \in Slot, Claim(s)
  PROVE  Paid
<1>1. PICK i \in Active(req[s].type) : jobs' = [jobs EXCEPT ![i].collected = req[s].now]
  BY DEF Claim, Collect
<1>2. req[s].now \in Nat
  BY DEF Claim, Handled, Inv
<1>3. QED BY <1>1, <1>2 DEF Paid, Active

\* A booster takes the end back to now at the most.
LEMMA BoostSpeeds ==
  ASSUME Inv, NEW s \in Slot, Boost(s)
  PROVE  Sped
<1> DEFINE now == req[s].now
<1>1. PICK i \in Active(req[s].type) :
         /\ now < jobs[i].ends
         /\ Cut(i, Max({jobs[i].ends - BoostCut, now}))
  BY DEF Boost
<1> DEFINE end == Max({jobs[i].ends - BoostCut, now})
<1>2. i \in DOMAIN jobs /\ jobs[i] \in Job /\ jobs[i].collected = Never
  BY DEF Active, Inv
<1>3. now \in Nat /\ jobs[i].ends \in Nat /\ BoostCut \in Nat
  BY <1>2, DeployAssumption DEF Boost, Handled, Inv, Job
<1>4. end = IF jobs[i].ends - BoostCut <= now THEN now ELSE jobs[i].ends - BoostCut
  BY <1>3 DEF Max
<1>5. end \in Nat /\ end <= jobs[i].ends
  BY <1>1, <1>3, <1>4
<1> HIDE DEF end
<1>6. jobs' = [jobs EXCEPT ![i].ends = end, ![i].boosts = @ + 1]
  BY <1>1 DEF Cut, end
<1>7. QED BY <1>2, <1>5, <1>6 DEF Sped

LEMMA EveryStep ==
  ASSUME Inv, [Next]_vars
  PROVE  jobs' = jobs \/ Added \/ Paid \/ Sped
<1>1. ASSUME NEW s \in Slot, Arrive(s) \/ ClaimTooEarly(s) \/ List(s) \/ Refuse(s) \/ Fail(s)
      PROVE  jobs' = jobs
  BY <1>1 DEF Arrive, ClaimTooEarly, List, Refuse, Fail
<1>2. CASE Tick \/ Refit \/ UNCHANGED vars
  BY <1>2 DEF Tick, Refit, vars
<1>3. QED BY <1>1, <1>2, StartAdds, ClaimPays, BoostSpeeds DEF Next

-----------------------------------------------------------------------------
\* What each of them does to the rows that were there.
LEMMA AddedRows ==
  ASSUME Inv, Added
  PROVE  /\ jobs' \in Seq(Job) /\ OneActive'
         /\ \A i \in DOMAIN jobs : i \in DOMAIN jobs' /\ jobs'[i] = jobs[i]
<1>1. PICK j \in Job : jobs' = Append(jobs, j) /\ Active(j.type) = {}
  BY DEF Added
<1>2. jobs \in Seq(Job)
  BY DEF Inv
<1>3. /\ Append(jobs, j) \in Seq(Job) /\ Len(Append(jobs, j)) = Len(jobs) + 1
      /\ \A i \in 1 .. Len(jobs) : Append(jobs, j)[i] = jobs[i]
      /\ Append(jobs, j)[Len(jobs) + 1] = j
  BY <1>2
<1>4. /\ Len(jobs) \in Nat /\ DOMAIN jobs = 1 .. Len(jobs)
      /\ DOMAIN Append(jobs, j) = 1 .. Len(jobs) + 1
  BY <1>2, <1>3
<1> DEFINE new == Append(jobs, j)
           n == Len(jobs) + 1
<1> HIDE DEF new, n
<1>5. /\ new \in Seq(Job) /\ DOMAIN new = 1 .. n /\ new[n] = j
      /\ \A i \in DOMAIN jobs : i \in DOMAIN new /\ i # n /\ new[i] = jobs[i]
      /\ \A i \in DOMAIN new : i = n \/ i \in DOMAIN jobs
  BY <1>3, <1>4 DEF new, n
<1>6. \A i \in DOMAIN jobs : jobs[i].type = j.type => jobs[i].collected # Never
  BY <1>1 DEF Active
<1>7. ASSUME NEW i \in DOMAIN new, NEW k \in DOMAIN new, new[i].type = new[k].type,
             new[i].collected = Never, new[k].collected = Never
      PROVE  i = k
  <2>1. CASE i = n
    BY <1>5, <1>6, <1>7, <2>1
  <2>2. CASE k = n
    BY <1>5, <1>6, <1>7, <2>2
  <2>3. CASE i \in DOMAIN jobs /\ k \in DOMAIN jobs
    BY <1>5, <1>7, <2>3 DEF Inv, OneActive
  <2>4. QED BY <1>5, <2>1, <2>2, <2>3
<1>8. jobs' = new
  BY <1>1 DEF new
<1>9. OneActive'
  BY <1>7, <1>8 DEF OneActive
<1>10. QED BY <1>5, <1>8, <1>9

LEMMA ChangedRow ==
  ASSUME Inv, NEW i \in DOMAIN jobs, NEW j \in Job, jobs' = [jobs EXCEPT ![i] = j],
         j.type = jobs[i].type, j.collected # Never \/ jobs[i].collected = Never
  PROVE  /\ jobs' \in Seq(Job) /\ DOMAIN jobs' = DOMAIN jobs /\ OneActive'
         /\ jobs'[i] = j /\ \A k \in DOMAIN jobs : k # i => jobs'[k] = jobs[k]
<1>1. jobs \in Seq(Job)
  BY DEF Inv
<1>2. /\ jobs' \in Seq(Job) /\ DOMAIN jobs' = DOMAIN jobs
      /\ jobs'[i] = j /\ \A k \in DOMAIN jobs : k # i => jobs'[k] = jobs[k]
  BY <1>1
<1>3. \A k \in DOMAIN jobs : /\ jobs'[k].type = jobs[k].type
                             /\ jobs'[k].collected = Never => jobs[k].collected = Never
  BY <1>2
<1>4. OneActive'
  BY <1>2, <1>3 DEF Inv, OneActive
<1>5. QED BY <1>2, <1>4

\* A row stays what it was, but for an earlier end and its collection.
Stays(i) ==
  /\ i \in DOMAIN jobs'
  /\ Frozen(jobs'[i]) = Frozen(jobs[i])
  /\ jobs'[i].ends <= jobs[i].ends
  /\ jobs[i].collected # Never => jobs'[i] = jobs[i]

LEMMA PaidRows ==
  ASSUME Inv, Paid
  PROVE  jobs' \in Seq(Job) /\ OneActive' /\ \A i \in DOMAIN jobs : Stays(i)
<1>1. PICK i \in DOMAIN jobs, now \in Nat :
         jobs[i].collected = Never /\ jobs' = [jobs EXCEPT ![i].collected = now]
  BY DEF Paid
<1> DEFINE j == [jobs[i] EXCEPT !.collected = now]
<1>2. jobs[i] \in Job /\ \A k \in DOMAIN jobs : jobs[k] \in Job
  BY DEF Inv
<1>3. j \in Job /\ j.type = jobs[i].type /\ j.ends = jobs[i].ends /\ Frozen(j) = Frozen(jobs[i])
  BY <1>2 DEF Job, Frozen
<1>4. jobs' = [jobs EXCEPT ![i] = j]
  BY <1>1
<1> HIDE DEF j
<1>5. /\ jobs' \in Seq(Job) /\ DOMAIN jobs' = DOMAIN jobs /\ OneActive'
      /\ jobs'[i] = j /\ \A k \in DOMAIN jobs : k # i => jobs'[k] = jobs[k]
  BY <1>1, <1>3, <1>4, ChangedRow
<1>6. \A k \in DOMAIN jobs : jobs[k].ends \in Nat
  BY <1>2, JobFields
<1>7. \A k \in DOMAIN jobs : Stays(k)
  <2>1. TAKE k \in DOMAIN jobs
  <2>2. CASE k = i
    <3>1. jobs[i].collected = Never
      BY <1>1
    <3>2. /\ i \in DOMAIN jobs' /\ Frozen(jobs'[i]) = Frozen(jobs[i])
          /\ jobs'[i].ends = jobs[i].ends /\ jobs[i].ends \in Nat
      BY <1>3, <1>5, <1>6
    <3>3. jobs'[i].ends <= jobs[i].ends
      BY <3>2
    <3>4. QED BY <2>2, <3>1, <3>2, <3>3 DEF Stays
  <2>3. CASE k # i
    BY <1>5, <1>6, <2>3 DEF Stays
  <2>4. QED BY <2>2, <2>3
<1>8. QED BY <1>5, <1>7

LEMMA SpedRows ==
  ASSUME Inv, Sped
  PROVE  jobs' \in Seq(Job) /\ OneActive' /\ \A i \in DOMAIN jobs : Stays(i)
<1>1. PICK i \in DOMAIN jobs, end \in Nat :
         /\ jobs[i].collected = Never /\ end <= jobs[i].ends
         /\ jobs' = [jobs EXCEPT ![i].ends = end, ![i].boosts = @ + 1]
  BY DEF Sped
<1> DEFINE j == [jobs[i] EXCEPT !.ends = end, !.boosts = jobs[i].boosts + 1]
<1>2. jobs \in Seq(Job) /\ jobs[i] \in Job /\ \A k \in DOMAIN jobs : jobs[k] \in Job
  BY DEF Inv
<1>3. jobs[i].boosts + 1 \in Nat
  BY <1>2, JobFields
<1>4. /\ j \in Job /\ j.type = jobs[i].type /\ j.ends = end /\ Frozen(j) = Frozen(jobs[i])
      /\ j.collected = jobs[i].collected
  BY <1>2, <1>3 DEF Job, Frozen
<1>5. jobs' = [jobs EXCEPT ![i] = j]
  BY <1>1, <1>2 DEF Job
<1> HIDE DEF j
<1>6. /\ jobs' \in Seq(Job) /\ DOMAIN jobs' = DOMAIN jobs /\ OneActive'
      /\ jobs'[i] = j /\ \A k \in DOMAIN jobs : k # i => jobs'[k] = jobs[k]
  BY <1>1, <1>4, <1>5, ChangedRow
<1>7. \A k \in DOMAIN jobs : jobs[k].ends \in Nat
  BY <1>2, JobFields
<1>8. \A k \in DOMAIN jobs : Stays(k)
  <2>1. TAKE k \in DOMAIN jobs
  <2>2. CASE k = i
    BY <1>1, <1>4, <1>6, <1>7, <2>2 DEF Stays
  <2>3. CASE k # i
    BY <1>6, <1>7, <2>3 DEF Stays
  <2>4. QED BY <2>2, <2>3
<1>9. QED BY <1>6, <1>8

LEMMA RowsStay ==
  ASSUME Inv, [Next]_vars
  PROVE  jobs' \in Seq(Job) /\ OneActive' /\ \A i \in DOMAIN jobs : Stays(i)
<1>1. jobs \in Seq(Job) /\ \A k \in DOMAIN jobs : jobs[k].ends \in Nat
  BY JobFields DEF Inv
<1>2. CASE jobs' = jobs
  BY <1>1, <1>2 DEF Inv, OneActive, Stays
<1>3. CASE Added
  BY <1>1, <1>3, AddedRows DEF Stays
<1>4. QED BY <1>2, <1>3, EveryStep, PaidRows, SpedRows

-----------------------------------------------------------------------------
\* The requests in flight: each has a type, and the clock it read.
LEMMA AsksInv ==
  ASSUME Inv, [Next]_vars
  PROVE  /\ clock' \in Nat /\ bonus' \in Bonuses /\ req' = [s \in Slot |-> req'[s]]
         /\ \A s \in Slot : req'[s] # Idle => req'[s].now \in Nat /\ req'[s].type \in Type
<1> USE DEF Inv
<1>1. CASE Tick \/ Refit \/ UNCHANGED vars
  BY <1>1 DEF Tick, Refit, vars
<1>2. ASSUME NEW s \in Slot, Start(s) \/ Claim(s) \/ ClaimTooEarly(s) \/ Boost(s) \/ List(s)
                             \/ Refuse(s) \/ Fail(s)
      PROVE  req' = [req EXCEPT ![s] = Idle] /\ UNCHANGED <<clock, bonus>>
  BY <1>2 DEF Start, Claim, ClaimTooEarly, Boost, List, Refuse, Fail, Handled
<1>3. ASSUME NEW s \in Slot, Arrive(s)
      PROVE  /\ \E r : req' = [req EXCEPT ![s] = r] /\ r.now \in Nat /\ r.type \in Type
             /\ UNCHANGED <<clock, bonus>>
  BY <1>3 DEF Arrive
<1>4. QED BY <1>1, <1>2, <1>3 DEF Next

LEMMA NextInv == Inv /\ [Next]_vars => Inv'
  BY AsksInv, RowsStay DEF Inv

LEMMA AlwaysInv == Spec => []Inv
  BY InitInv, NextInv, PTL DEF Spec

\* However many starts are in flight, two jobs of one type never run.
THEOREM OneRunning == Spec => []OneRunningPerType
<1>1. Inv => OneRunningPerType
  <2>1. SUFFICES ASSUME Inv, NEW t \in Type PROVE Cardinality(Active(t)) <= 1
    BY DEF OneRunningPerType
  <2>2. \A i, j \in Active(t) : i = j
    BY <2>1 DEF Inv, OneActive, Active
  <2>3. CASE Active(t) = {}
    <3>1. Cardinality(Active(t)) = 0
      BY <2>3, FS_EmptySet
    <3>2. QED BY <3>1
  <2>4. CASE Active(t) # {}
    <3>1. PICK i \in Active(t) : TRUE
      BY <2>4
    <3>2. Active(t) = {i}
      BY <2>2, <3>1
    <3>3. Cardinality(Active(t)) = 1
      BY <3>2, FS_Singleton
    <3>4. QED BY <3>3
  <2>5. QED BY <2>3, <2>4
<1>2. QED BY <1>1, AlwaysInv, PTL

\* A row keeps the reward of the moment it was started, its end only moves
\* earlier, and once collected it is history.
THEOREM JobsFrozen == Spec => JobsAreFrozen
<1>1. Inv /\ [Next]_vars =>
        [\A i \in DOMAIN jobs :
           /\ i \in DOMAIN jobs'
           /\ Frozen(jobs'[i]) = Frozen(jobs[i])
           /\ jobs'[i].ends <= jobs[i].ends
           /\ jobs[i].collected # Never => jobs'[i] = jobs[i]]_vars
  BY RowsStay DEF Stays
<1>2. QED BY <1>1, AlwaysInv, PTL DEF Spec, JobsAreFrozen

-----------------------------------------------------------------------------
\* What was shown as ready has ended, on the clock of every claim sent since.
Promised ==
  /\ \A i \in shown : i \in DOMAIN jobs /\ jobs[i].ends <= clock
  /\ \A s \in Slot : req[s] # Idle =>
       /\ req[s].now <= clock
       /\ \A i \in req[s].knew : i \in DOMAIN jobs /\ jobs[i].ends <= req[s].now

\* The clock does not go back, and a request knows what was shown before it.
LEMMA ArrivalKnows ==
  ASSUME Inv, Promised, [Next]_vars, NEW s \in Slot, req'[s] # Idle
  PROVE  /\ clock <= clock'
         /\ \/ req'[s] = req[s]
            \/ req'[s].now = clock /\ req'[s].knew \in {shown, {}}
<1>1. clock \in Nat /\ req = [q \in Slot |-> req[q]]
  BY DEF Inv
<1>2. CASE Tick \/ Refit \/ UNCHANGED vars
  BY <1>1, <1>2 DEF Tick, Refit, vars
<1>3. ASSUME NEW q \in Slot, Start(q) \/ Claim(q) \/ ClaimTooEarly(q) \/ Boost(q) \/ List(q)
                             \/ Refuse(q) \/ Fail(q)
      PROVE  req' = [req EXCEPT ![q] = Idle] /\ clock' = clock
  BY <1>3 DEF Start, Claim, ClaimTooEarly, Boost, List, Refuse, Fail, Handled
<1>4. ASSUME NEW q \in Slot, Arrive(q)
      PROVE  /\ \E r : req' = [req EXCEPT ![q] = r] /\ r.now = clock /\ r.knew \in {shown, {}}
             /\ clock' = clock
  <2>1. PICK op \in Op, t \in Type, l \in AskedLevel :
          req' = [req EXCEPT ![q] = [op |-> op, type |-> t, level |-> l, now |-> clock,
                                     knew |-> IF op = "claim" THEN shown ELSE {}]]
    BY <1>4 DEF Arrive
  <2> DEFINE r == [op |-> op, type |-> t, level |-> l, now |-> clock,
                   knew |-> IF op = "claim" THEN shown ELSE {}]
  <2>2. r.now = clock /\ r.knew \in {shown, {}}
    OBVIOUS
  <2>3. clock' = clock
    BY <1>4 DEF Arrive
  <2> QED
    BY <2>1, <2>2, <2>3
<1>5. CASE \E q \in Slot : Arrive(q)
  BY <1>1, <1>4, <1>5
<1>6. CASE \E q \in Slot : Start(q) \/ Claim(q) \/ ClaimTooEarly(q) \/ Boost(q) \/ List(q)
                             \/ Refuse(q) \/ Fail(q)
  BY <1>1, <1>3, <1>6
<1> QED
  BY <1>2, <1>5, <1>6 DEF Next

\* Only a list and a boost show a job as ready, and it has ended by then.
LEMMA ShownHasEnded ==
  ASSUME Inv, Promised, [Next]_vars, NEW i \in shown'
  PROVE  \/ i \in shown
         \/ i \in DOMAIN jobs /\ jobs'[i].ends <= clock
<1>1. CASE shown' = shown
  BY <1>1
<1>2. ASSUME NEW s \in Slot, List(s), i \notin shown
      PROVE  i \in DOMAIN jobs /\ jobs'[i].ends <= clock
  <2>1. i \in DOMAIN jobs /\ req[s].now >= jobs[i].ends /\ jobs' = jobs /\ req[s] # Idle
    BY <1>2 DEF List, ListsAsReady, Handled
  <2>2. req[s].now <= clock /\ req[s].now \in Nat /\ clock \in Nat
    BY <2>1 DEF Promised, Inv
  <2>3. jobs[i].ends \in Nat
    BY <2>1, JobFields DEF Inv
  <2> QED
    BY <2>1, <2>2, <2>3
<1>3. ASSUME NEW s \in Slot, Boost(s), i \notin shown
      PROVE  i \in DOMAIN jobs /\ jobs'[i].ends <= clock
  <2> DEFINE now == req[s].now
             end(j) == Max({jobs[j].ends - BoostCut, now})
  <2>1. PICK j \in Active(req[s].type) :
          /\ now < jobs[j].ends
          /\ Cut(j, end(j))
          /\ shown' = IF end(j) <= now THEN shown \cup {j} ELSE shown
    BY <1>3 DEF Boost
  <2>2. i = j /\ end(j) <= now
    BY <1>3, <2>1
  <2>3. j \in DOMAIN jobs /\ jobs[j] \in Job /\ jobs \in Seq(Job)
    BY <2>1 DEF Active, Inv
  <2>4. now \in Nat /\ clock \in Nat /\ now <= clock
    BY <1>3 DEF Boost, Handled, Promised, Inv
  <2>5. jobs[j].ends \in Nat /\ BoostCut \in Nat
    BY <2>3, JobFields, DeployAssumption
  <2>6. end(j) \in Int
    <3>1. end(j) = IF jobs[j].ends - BoostCut <= now THEN now ELSE jobs[j].ends - BoostCut
      BY <2>4, <2>5 DEF Max
    <3> QED
      BY <2>4, <2>5, <3>1
  <2>7. jobs'[j].ends = end(j)
    <3> HIDE DEF end
    <3> QED
      BY <2>1, <2>3 DEF Cut, Job
  <2> QED
    BY <2>2, <2>3, <2>4, <2>6, <2>7
<1>4. \/ shown' = shown \/ \E s \in Slot : List(s) \/ Boost(s)
  BY DEF Next, Tick, Refit, Arrive, Start, Claim, ClaimTooEarly, Refuse, Fail, vars
<1> QED
  BY <1>1, <1>2, <1>3, <1>4

LEMMA PromisedNext == Inv /\ Promised /\ [Next]_vars => Promised'
<1> SUFFICES ASSUME Inv, Promised, [Next]_vars PROVE Promised'
  OBVIOUS
<1>1. \A i \in DOMAIN jobs : /\ i \in DOMAIN jobs' /\ jobs'[i].ends <= jobs[i].ends
                             /\ jobs[i].ends \in Nat /\ jobs'[i].ends \in Nat
  <2>1. /\ \A i \in DOMAIN jobs : i \in DOMAIN jobs' /\ jobs'[i].ends <= jobs[i].ends
        /\ jobs \in Seq(Job) /\ jobs' \in Seq(Job)
    BY RowsStay DEF Stays, Inv
  <2>2. /\ \A i \in DOMAIN jobs : jobs[i] \in Job
        /\ \A i \in DOMAIN jobs' : jobs'[i] \in Job
    BY <2>1
  <2> QED
    BY <2>1, <2>2, JobFields
<1>2. clock \in Nat /\ clock' \in Nat /\ clock <= clock'
  <2>1. clock' = clock \/ (clock \in Nat /\ clock' = clock + 1)
    BY DEF Inv, Next, Tick, Refit, Arrive, Start, Claim, ClaimTooEarly, Boost, List, Refuse,
           Fail, vars
  <2> QED
    BY <2>1 DEF Inv
<1>3. ASSUME NEW i \in shown'
      PROVE  i \in DOMAIN jobs' /\ jobs'[i].ends <= clock'
  <2>1. CASE i \in shown
    BY <1>1, <1>2, <2>1 DEF Promised
  <2>2. CASE i \in DOMAIN jobs /\ jobs'[i].ends <= clock
    BY <1>1, <1>2, <2>2
  <2> QED
    BY <1>3, <2>1, <2>2, ShownHasEnded
<1>4. ASSUME NEW s \in Slot, req'[s] # Idle
      PROVE  /\ req'[s].now <= clock'
             /\ \A i \in req'[s].knew : i \in DOMAIN jobs' /\ jobs'[i].ends <= req'[s].now
  <2>1. CASE req'[s] = req[s]
    <3>1. /\ req[s].now \in Nat /\ req[s].now <= clock
          /\ \A i \in req[s].knew : i \in DOMAIN jobs /\ jobs[i].ends <= req[s].now
      BY <1>4, <2>1 DEF Inv, Promised
    <3> QED
      BY <1>1, <1>2, <2>1, <3>1
  <2>2. CASE req'[s].now = clock /\ req'[s].knew \in {shown, {}}
    BY <1>1, <1>2, <2>2 DEF Promised
  <2> QED
    BY <1>4, <2>1, <2>2, ArrivalKnows
<1> QED
  BY <1>3, <1>4 DEF Promised

\* Whatever List or Boost has shown as ready, a claim sent after that answer is
\* not refused as too early, however late it gets the lock.
THEOREM ReadyStaysClaimable == Spec => ReadyIsClaimable
<1>1. Init => Promised
  BY DEF Init, Promised
<1>2. Inv /\ Promised => \A s \in Slot :
        ClaimTooEarly(s) => Active(req[s].type) \cap req[s].knew = {}
  <2> SUFFICES ASSUME Inv, Promised, NEW s \in Slot, ClaimTooEarly(s),
                      NEW k \in Active(req[s].type), k \in req[s].knew
               PROVE  FALSE
    OBVIOUS
  <2>1. PICK i \in Active(req[s].type) : ~ (req[s].now >= jobs[i].ends)
    BY DEF ClaimTooEarly, Ready
  <2>2. i = k /\ i \in DOMAIN jobs
    BY <2>1 DEF Inv, OneActive, Active
  <2>3. req[s] # Idle /\ req[s].now \in Nat /\ jobs[i].ends \in Nat
    BY <2>2, JobFields DEF ClaimTooEarly, Handled, Inv
  <2>4. jobs[i].ends <= req[s].now
    BY <2>2, <2>3 DEF Promised
  <2> QED
    BY <2>1, <2>3, <2>4
<1>3. Spec => [](Inv /\ Promised)
  BY <1>1, InitInv, NextInv, PromisedNext, PTL DEF Spec
<1>4. Inv /\ Promised /\ [Next]_vars =>
        [\A s \in Slot : ClaimTooEarly(s) => Active(req[s].type) \cap req[s].knew = {}]_vars
  BY <1>2
<1> QED
  BY <1>3, <1>4, PTL DEF Spec, ReadyIsClaimable

-----------------------------------------------------------------------------
\* What each kind of step does to the purse, the hero and the boosters.
Kept == UNCHANGED <<hero, purse, boosters>>
PaidFor == \E i \in DOMAIN jobs, now \in Nat :
  /\ jobs[i].collected = Never /\ now >= jobs[i].ends
  /\ jobs' = [jobs EXCEPT ![i].collected = now]
  /\ hero' = GainXP(hero, jobs[i].xp)
  /\ purse' = [coins |-> purse.coins + jobs[i].coins, gems |-> purse.gems + jobs[i].gems]
  /\ boosters' = boosters
Boosted == \E i \in DOMAIN jobs, end \in Nat :
  /\ jobs[i].collected = Never /\ jobs[i].ends <= end + BoostCut
  /\ jobs' = [jobs EXCEPT ![i].ends = end, ![i].boosts = @ + 1]
  /\ boosters >= 1 /\ boosters' = boosters - 1
  /\ UNCHANGED <<hero, purse>>

LEMMA EveryPayment ==
  ASSUME Inv, [Next]_vars
  PROVE  \/ jobs' = jobs /\ Kept
         \/ (\E s \in Slot : Start(s)) /\ Kept
         \/ PaidFor
         \/ Boosted
<1>1. ASSUME NEW s \in Slot, Arrive(s) \/ ClaimTooEarly(s) \/ List(s) \/ Refuse(s) \/ Fail(s)
      PROVE  jobs' = jobs /\ Kept
  BY <1>1 DEF Arrive, ClaimTooEarly, List, Refuse, Fail, Kept
<1>2. CASE Tick \/ Refit \/ UNCHANGED vars
  BY <1>2 DEF Tick, Refit, vars, Kept
<1>3. ASSUME NEW s \in Slot, Start(s)
      PROVE  Kept
  BY <1>3 DEF Start, Kept
<1>4. ASSUME NEW s \in Slot, Claim(s)
      PROVE  PaidFor
  <2>1. PICK i \in Active(req[s].type) :
           /\ req[s].now >= jobs[i].ends
           /\ jobs' = [jobs EXCEPT ![i].collected = req[s].now]
           /\ hero' = GainXP(hero, jobs[i].xp)
           /\ purse' = [coins |-> purse.coins + jobs[i].coins, gems |-> purse.gems + jobs[i].gems]
    BY <1>4 DEF Claim, Collect, Ready
  <2>2. req[s].now \in Nat /\ boosters' = boosters
    BY <1>4 DEF Claim, Handled, Inv
  <2> QED  BY <2>1, <2>2 DEF PaidFor, Active
<1>5. ASSUME NEW s \in Slot, Boost(s)
      PROVE  Boosted
  <2> DEFINE now == req[s].now
  <2>1. PICK i \in Active(req[s].type) :
           /\ now < jobs[i].ends
           /\ Cut(i, Max({jobs[i].ends - BoostCut, now}))
    BY <1>5 DEF Boost
  <2> DEFINE end == Max({jobs[i].ends - BoostCut, now})
  <2>2. i \in DOMAIN jobs /\ jobs[i] \in Job /\ jobs[i].collected = Never
    BY DEF Active, Inv
  <2>3. now \in Nat /\ jobs[i].ends \in Nat /\ BoostCut \in Nat
    BY <1>5, <2>2, DeployAssumption DEF Boost, Handled, Inv, Job
  <2>4. end = IF jobs[i].ends - BoostCut <= now THEN now ELSE jobs[i].ends - BoostCut
    BY <2>3 DEF Max
  <2>5. end \in Nat /\ jobs[i].ends <= end + BoostCut
    BY <2>1, <2>3, <2>4
  <2> HIDE DEF end
  <2>6. jobs' = [jobs EXCEPT ![i].ends = end, ![i].boosts = @ + 1]
    BY <2>1 DEF Cut, end
  <2>7. boosters >= 1 /\ boosters' = boosters - 1 /\ UNCHANGED <<hero, purse>>
    BY <1>5 DEF Boost, HasBooster
  <2> QED  BY <2>2, <2>5, <2>6, <2>7 DEF Boosted
<1> QED  BY <1>1, <1>2, <1>3, <1>4, <1>5 DEF Next

\* The rewards of the rows are numbers, and the rows are finitely many.
LEMMA RowNumbers ==
  ASSUME Inv
  PROVE  /\ IsFiniteSet(DOMAIN jobs) /\ IsFiniteSet(Collected) /\ Collected \subseteq DOMAIN jobs
         /\ \A i \in DOMAIN jobs : /\ jobs[i].coins \in Nat /\ jobs[i].gems \in Nat
                                  /\ jobs[i].xp \in Nat /\ jobs[i].boosts \in Nat
<1>1. Len(jobs) \in Nat /\ DOMAIN jobs = 1 .. Len(jobs) /\ \A i \in DOMAIN jobs : jobs[i] \in Job
  BY DEF Inv
<1>2. IsFiniteSet(DOMAIN jobs)
  BY <1>1, FS_Interval
<1>3. Collected \in SUBSET DOMAIN jobs
  BY DEF Collected
<1>4. IsFiniteSet(Collected)
  BY <1>2, <1>3, FS_Subset
<1> QED  BY <1>1, <1>2, <1>3, <1>4 DEF Job

Books == /\ SoundHero(hero)
         /\ purse \in [coins : Nat, gems : Nat]
         /\ RewardLedger

\* No row is collected and no reward is changed: the sums are the same sums.
LEMMA BooksKept ==
  ASSUME Books, UNCHANGED <<hero, purse>>, Collected' = Collected,
         \A i \in Collected : /\ jobs'[i].coins = jobs[i].coins /\ jobs'[i].gems = jobs[i].gems
                             /\ jobs'[i].xp = jobs[i].xp
  PROVE  Books'
<1>1. /\ [i \in Collected |-> jobs[i].coins]' = [i \in Collected |-> jobs[i].coins]
      /\ [i \in Collected |-> jobs[i].gems]' = [i \in Collected |-> jobs[i].gems]
      /\ [i \in Collected |-> jobs[i].xp]' = [i \in Collected |-> jobs[i].xp]
  OBVIOUS
<1>2. TotalXP(hero)' = TotalXP(hero) /\ SoundHero(hero)'
  BY DEF Books, TotalXP, SoundHero
<1> QED  BY <1>1, <1>2 DEF Books, RewardLedger

\* One row joins the collected ones and is paid for.
LEMMA BooksPaid == ASSUME Inv, Books, PaidFor PROVE Books'
<1>1. PICK i \in DOMAIN jobs, now \in Nat :
        /\ jobs[i].collected = Never
        /\ jobs' = [jobs EXCEPT ![i].collected = now]
        /\ hero' = GainXP(hero, jobs[i].xp)
        /\ purse' = [coins |-> purse.coins + jobs[i].coins, gems |-> purse.gems + jobs[i].gems]
  BY DEF PaidFor
<1> DEFINE C == Collected
           c == [k \in C |-> jobs[k].coins]
           g == [k \in C |-> jobs[k].gems]
           x == [k \in C |-> jobs[k].xp]
           cc == [k \in C \cup {i} |-> jobs[k].coins]
           gg == [k \in C \cup {i} |-> jobs[k].gems]
           xx == [k \in C \cup {i} |-> jobs[k].xp]
<1>2. /\ IsFiniteSet(C) /\ C \subseteq DOMAIN jobs /\ i \notin C
      /\ jobs[i].coins \in Nat /\ jobs[i].gems \in Nat /\ jobs[i].xp \in Nat
  BY <1>1, RowNumbers DEF Collected
<1>3. /\ jobs \in Seq(Job) /\ jobs[i] \in Job /\ now # Never
  BY DeployAssumption DEF Inv
<1>4. /\ DOMAIN jobs' = DOMAIN jobs
      /\ \A k \in DOMAIN jobs : /\ jobs'[k].coins = jobs[k].coins /\ jobs'[k].gems = jobs[k].gems
                               /\ jobs'[k].xp = jobs[k].xp
                               /\ jobs'[k].collected = IF k = i THEN now ELSE jobs[k].collected
  BY <1>1, <1>3 DEF Job
<1>5. Collected' = C \cup {i}
  BY <1>3, <1>4 DEF Collected
<1>6. /\ [k \in Collected |-> jobs[k].coins]' = cc
      /\ [k \in Collected |-> jobs[k].gems]' = gg
      /\ [k \in Collected |-> jobs[k].xp]' = xx
  BY <1>2, <1>4, <1>5
<1>7. /\ c \in [C -> Int] /\ cc \in [C \cup {i} -> Int] /\ \A k \in C : cc[k] = c[k]
      /\ g \in [C -> Int] /\ gg \in [C \cup {i} -> Int] /\ \A k \in C : gg[k] = g[k]
      /\ x \in [C -> Int] /\ xx \in [C \cup {i} -> Int] /\ \A k \in C : xx[k] = x[k]
  BY <1>2, RowNumbers
<1>8. cc[i] = jobs[i].coins /\ gg[i] = jobs[i].gems /\ xx[i] = jobs[i].xp
  OBVIOUS
<1>9. /\ purse.coins = SumFunction(c) /\ purse.gems = SumFunction(g)
      /\ TotalXP(hero) = SumFunction(x)
  BY DEF Books, RewardLedger
<1> HIDE DEF C, c, g, x, cc, gg, xx
<1>10. /\ SumFunction(cc) = SumFunction(c) + jobs[i].coins
       /\ SumFunction(gg) = SumFunction(g) + jobs[i].gems
       /\ SumFunction(xx) = SumFunction(x) + jobs[i].xp
  BY <1>2, <1>7, <1>8, SumAdd
<1>11. SoundHero(hero') /\ TotalXP(hero') = TotalXP(hero) + jobs[i].xp
  BY <1>1, <1>2, GainXPSound DEF Books
<1>12. RewardLedger'
  BY <1>1, <1>6, <1>9, <1>10, <1>11 DEF RewardLedger
<1> QED  BY <1>1, <1>2, <1>11, <1>12 DEF Books

LEMMA BooksNext == Inv /\ Books /\ [Next]_vars => Books'
<1> SUFFICES ASSUME Inv, Books, [Next]_vars PROVE Books'
  OBVIOUS
<1>1. CASE jobs' = jobs /\ Kept
  BY <1>1, BooksKept DEF Kept, Collected
<1>2. CASE Added /\ Kept
  <2>1. PICK j \in Job : jobs' = Append(jobs, j) /\ j.collected = Never
    BY <1>2 DEF Added
  <2>2. /\ DOMAIN jobs = 1 .. Len(jobs) /\ Len(jobs) \in Nat
        /\ DOMAIN jobs' = 1 .. Len(jobs) + 1 /\ jobs'[Len(jobs) + 1].collected = Never
        /\ \A i \in DOMAIN jobs : jobs'[i] = jobs[i]
    BY <2>1 DEF Inv
  <2>3. Collected' = Collected
    BY <2>2 DEF Collected
  <2> QED  BY <1>2, <2>2, <2>3, RowNumbers, BooksKept DEF Kept
<1>3. CASE PaidFor
  BY <1>3, BooksPaid
<1>4. CASE Boosted
  <2>1. PICK i \in DOMAIN jobs, end \in Nat :
          jobs' = [jobs EXCEPT ![i].ends = end, ![i].boosts = @ + 1]
    BY <1>4 DEF Boosted
  <2>2. /\ DOMAIN jobs' = DOMAIN jobs
        /\ \A k \in DOMAIN jobs : /\ jobs'[k].coins = jobs[k].coins /\ jobs'[k].gems = jobs[k].gems
                                 /\ jobs'[k].xp = jobs[k].xp
                                 /\ jobs'[k].collected = jobs[k].collected
    <3> DEFINE j == [jobs[i] EXCEPT !.ends = end, !.boosts = jobs[i].boosts + 1]
    <3>1. jobs \in Seq(Job) /\ jobs[i] \in Job
      BY DEF Inv
    <3>2. /\ j.coins = jobs[i].coins /\ j.gems = jobs[i].gems /\ j.xp = jobs[i].xp
          /\ j.collected = jobs[i].collected
      BY <3>1 DEF Job
    <3>3. jobs' = [jobs EXCEPT ![i] = j]
      BY <2>1, <3>1 DEF Job
    <3> HIDE DEF j
    <3> QED  BY <3>1, <3>2, <3>3
  <2>3. Collected' = Collected
    BY <2>2 DEF Collected
  <2> QED  BY <1>4, <2>2, <2>3, RowNumbers, BooksKept DEF Boosted
<1> QED  BY <1>1, <1>2, <1>3, <1>4, EveryPayment, StartAdds

\* Claim pays what the row was started for, once, and nothing else pays: coins,
\* gems and xp, whatever number of levels that xp is turned into.
THEOREM RewardsAddUp == Spec => []RewardLedger
<1>1. Init => Books
  <2> SUFFICES ASSUME Init PROVE Books
    OBVIOUS
  <2>1. hero = NewHero /\ purse = [coins |-> 0, gems |-> 0] /\ Collected = {}
    BY DEF Init, Collected
  <2>2. /\ [i \in Collected |-> jobs[i].coins] \in [{} -> Int]
        /\ [i \in Collected |-> jobs[i].gems] \in [{} -> Int]
        /\ [i \in Collected |-> jobs[i].xp] \in [{} -> Int]
    BY <2>1
  <2> QED  BY <2>1, <2>2, SumEmpty, NewHeroSound DEF Books, RewardLedger
<1>2. Spec => [](Inv /\ Books)
  BY <1>1, InitInv, NextInv, BooksNext, PTL DEF Spec
<1>3. Books => RewardLedger
  BY DEF Books
<1> QED  BY <1>2, <1>3, PTL

-----------------------------------------------------------------------------
\* Every row has its end for the boosters it took and was collected after it.
RowPaysTime(i) ==
  /\ jobs[i].ends + BoostCut * jobs[i].boosts >= jobs[i].due
  /\ jobs[i].collected # Never => jobs[i].collected >= jobs[i].ends

Spent == [i \in DOMAIN jobs |-> jobs[i].boosts]

TimeInv == /\ \A i \in DOMAIN jobs : RowPaysTime(i)
           /\ boosters \in Nat
           /\ boosters + SumFunction(Spent) = Boosters

\* A row as it is started has taken no booster yet.
FreshRow(j) == j.ends = j.due /\ j.boosts = 0 /\ j.collected = Never

LEMMA StartFresh ==
  ASSUME Inv, NEW s \in Slot, Start(s)
  PROVE  \E j \in Job : FreshRow(j) /\ jobs' = Append(jobs, j)
<1> DEFINE r == req[s]
           j == NewJob(r.type, r.level, r.now)
<1>1. Added /\ jobs' = Append(jobs, j)
  BY StartAdds DEF Start
<1>2. FreshRow(j)
  BY DEF FreshRow, NewJob
<1> HIDE DEF j
<1>3. PICK k \in Job : jobs' = Append(jobs, k)
  BY <1>1 DEF Added
<1>4. j = k
  <2>1. jobs \in Seq(Job)
    BY DEF Inv
  <2>2. Append(jobs, j)[Len(jobs) + 1] = j /\ Append(jobs, k)[Len(jobs) + 1] = k
    BY <2>1
  <2> QED  BY <1>1, <1>3, <2>2
<1> QED  BY <1>1, <1>2, <1>3, <1>4

LEMMA SpentType == Inv => Spent \in [DOMAIN jobs -> Int]
  BY RowNumbers DEF Spent

LEMMA TimeStarted ==
  ASSUME Inv, TimeInv, NEW j \in Job, FreshRow(j), jobs' = Append(jobs, j), boosters' = boosters
  PROVE  TimeInv'
<1>0. PICK n \in Nat : n = Len(jobs) + 1
  BY DEF Inv
<1>1. /\ DOMAIN jobs = 1 .. Len(jobs) /\ n \notin DOMAIN jobs
      /\ DOMAIN jobs' = DOMAIN jobs \cup {n} /\ jobs'[n] = j
      /\ \A i \in DOMAIN jobs : jobs'[i] = jobs[i]
  BY <1>0 DEF Inv
<1>2. \A i \in DOMAIN jobs' : RowPaysTime(i)'
  <2>1. j.ends \in Nat /\ j.boosts \in Nat
    BY JobFields
  <2>2. BoostCut * 0 = 0
    BY DeployAssumption
  <2>3. RowPaysTime(n)'
    BY <1>1, <2>1, <2>2 DEF FreshRow, RowPaysTime
  <2>4. \A i \in DOMAIN jobs : RowPaysTime(i)'
    BY <1>1 DEF TimeInv, RowPaysTime
  <2> QED  BY <1>1, <2>3, <2>4
<1>3. Spent' \in [DOMAIN jobs \cup {n} -> Int] /\ Spent'[n] = 0
      /\ \A i \in DOMAIN jobs : Spent'[i] = Spent[i]
  <2>1. \A i \in DOMAIN jobs : jobs[i].boosts \in Nat
    BY RowNumbers
  <2> QED  BY <1>1, <2>1 DEF Spent, FreshRow
<1>4. SumFunction(Spent') = SumFunction(Spent) + Spent'[n] /\ SumFunction(Spent) \in Int
  <2>1. IsFiniteSet(DOMAIN jobs) /\ Spent \in [DOMAIN jobs -> Int]
    BY RowNumbers, SpentType
  <2>2. n \notin DOMAIN jobs
    BY <1>1
  <2>3. SumFunction(Spent') = SumFunction(Spent) + Spent'[n]
    BY <1>3, <2>1, <2>2, SumAdd
  <2> QED  BY <2>1, <2>3, SumInt
<1>5. SumFunction(Spent)' = SumFunction(Spent)
  BY <1>3, <1>4
<1> QED  BY <1>2, <1>5 DEF TimeInv

LEMMA TimePaid == ASSUME Inv, TimeInv, PaidFor PROVE TimeInv'
<1>1. PICK i \in DOMAIN jobs, now \in Nat :
        /\ jobs[i].collected = Never /\ now >= jobs[i].ends
        /\ jobs' = [jobs EXCEPT ![i].collected = now] /\ boosters' = boosters
  BY DEF PaidFor
<1>2. /\ DOMAIN jobs' = DOMAIN jobs
      /\ \A k \in DOMAIN jobs : /\ jobs'[k].ends = jobs[k].ends /\ jobs'[k].boosts = jobs[k].boosts
                               /\ jobs'[k].due = jobs[k].due
                               /\ jobs'[k].collected = IF k = i THEN now ELSE jobs[k].collected
  <2>1. jobs \in Seq(Job) /\ jobs[i] \in Job
    BY DEF Inv
  <2> QED  BY <1>1, <2>1 DEF Job
<1>3. Spent' = Spent
  BY <1>2 DEF Spent
<1>4. \A k \in DOMAIN jobs' : RowPaysTime(k)'
  BY <1>1, <1>2 DEF TimeInv, RowPaysTime
<1> QED  BY <1>1, <1>3, <1>4 DEF TimeInv

LEMMA TimeBoosted == ASSUME Inv, TimeInv, Boosted PROVE TimeInv'
<1>1. PICK i \in DOMAIN jobs, end \in Nat :
        /\ jobs[i].collected = Never /\ jobs[i].ends <= end + BoostCut
        /\ jobs' = [jobs EXCEPT ![i].ends = end, ![i].boosts = @ + 1]
        /\ boosters >= 1 /\ boosters' = boosters - 1
  BY DEF Boosted
<1> DEFINE j == [jobs[i] EXCEPT !.ends = end, !.boosts = jobs[i].boosts + 1]
<1>2. jobs \in Seq(Job) /\ jobs[i] \in Job
  BY DEF Inv
<1>3. /\ j.ends = end /\ j.boosts = jobs[i].boosts + 1 /\ j.due = jobs[i].due
      /\ j.collected = Never
  BY <1>1, <1>2 DEF Job
<1>4. jobs' = [jobs EXCEPT ![i] = j]
  BY <1>1, <1>2 DEF Job
<1> HIDE DEF j
<1>5. /\ DOMAIN jobs' = DOMAIN jobs /\ jobs'[i] = j
      /\ \A k \in DOMAIN jobs \ {i} : jobs'[k] = jobs[k]
  BY <1>2, <1>4
<1>6. /\ jobs[i].ends \in Nat /\ jobs[i].boosts \in Nat /\ jobs[i].due \in Nat
      /\ BoostCut \in Nat /\ boosters \in Nat
  BY <1>2, DeployAssumption DEF Job, TimeInv
<1>7. j.ends + BoostCut * j.boosts >= j.due
  <2> DEFINE cut == BoostCut * jobs[i].boosts
  <2>1. BoostCut * (jobs[i].boosts + 1) = cut + BoostCut /\ cut \in Nat
    BY <1>6
  <2>2. jobs[i].ends + cut >= jobs[i].due
    BY DEF TimeInv, RowPaysTime
  <2> HIDE DEF cut
  <2> QED  BY <1>1, <1>3, <1>6, <2>1, <2>2
<1>8. \A k \in DOMAIN jobs' : RowPaysTime(k)'
  BY <1>3, <1>5, <1>7 DEF TimeInv, RowPaysTime
<1>9. /\ Spent' \in [DOMAIN jobs -> Int] /\ Spent'[i] = Spent[i] + 1 /\ Spent[i] \in Nat
      /\ \A k \in DOMAIN jobs \ {i} : Spent'[k] = Spent[k]
  <2>1. \A k \in DOMAIN jobs : jobs[k].boosts \in Nat
    BY RowNumbers
  <2> QED  BY <1>3, <1>5, <2>1 DEF Spent
<1>10. SumFunction(Spent') = SumFunction(Spent) - Spent[i] + Spent'[i] /\ SumFunction(Spent) \in Int
  BY <1>9, RowNumbers, SpentType, SumChange, SumInt
<1>11. SumFunction(Spent)' = SumFunction(Spent) + 1
  BY <1>9, <1>10
<1> QED  BY <1>1, <1>6, <1>8, <1>10, <1>11 DEF TimeInv

LEMMA TimeNext == Inv /\ TimeInv /\ [Next]_vars => TimeInv'
<1> SUFFICES ASSUME Inv, TimeInv, [Next]_vars PROVE TimeInv'
  OBVIOUS
<1>1. CASE jobs' = jobs /\ Kept
  BY <1>1 DEF Kept, TimeInv, RowPaysTime, Spent
<1>2. CASE (\E s \in Slot : Start(s)) /\ Kept
  BY <1>2, StartFresh, TimeStarted DEF Kept
<1> QED  BY <1>1, <1>2, TimePaid, TimeBoosted, EveryPayment

\* No job is collected before its time (Claim): what its end came forward by was
\* paid in boosters (Boost), and every booster that is gone was put into a job.
THEOREM TimeIsAlwaysPaid == Spec => []TimeIsPaid
<1>1. Init => TimeInv
  <2> SUFFICES ASSUME Init PROVE TimeInv
    OBVIOUS
  <2>1. DOMAIN jobs = {} /\ boosters = Boosters /\ Boosters \in Nat
    BY DeployAssumption DEF Init
  <2>2. Spent \in [{} -> Int]
    BY <2>1 DEF Spent
  <2>3. SumFunction(Spent) = 0
    BY <2>2, SumEmpty
  <2> QED  BY <2>1, <2>3 DEF TimeInv
<1>2. Spec => [](Inv /\ TimeInv)
  BY <1>1, InitInv, NextInv, TimeNext, PTL DEF Spec
<1>3. TimeInv => TimeIsPaid
  BY DEF TimeInv, TimeIsPaid, RowPaysTime, Spent, Collected
<1> QED  BY <1>2, <1>3, PTL
=============================================================================
