---------------------------- MODULE PlayerProofs ----------------------------
(***************************************************************************)
(* Proofs about PlayerLock and PlayerReads, for any users, requests,       *)
(* readers, child tables and connections and for any handlers.  Inv, of    *)
(* the mutations, is the types, who holds the lock, and the freshness of   *)
(* what the holder has read: together, because a handler's result has the  *)
(* right type only if it ran on a player (Fresh), and stays fresh only     *)
(* while nobody else commits (LockedExactly).  Of a reader: while no       *)
(* mutation of its player has committed since it read the row, what it has *)
(* put together so far is what is committed; a commit makes the ghost and  *)
(* the committed mutations differ for good.                                *)
(***************************************************************************)
EXTENDS PlayerReads, TLAPS

Inv == TypeOK /\ LockedExactly /\ Fresh

-----------------------------------------------------------------------------
\* Initially no request has begun and no row is locked.
LEMMA InitInv == Init => Inv
<1> SUFFICES ASSUME Init PROVE Inv
  OBVIOUS
<1>1. TypeOK
  BY ConstantsAssumption DEF Init, TypeOK, Player, Phase, InTx, Locked, Committed
<1>2. LockedExactly
  BY ConstantsAssumption DEF Init, LockedExactly, Locked
<1>3. Fresh
  BY DEF Init, Fresh, Locked
<1>4. QED BY <1>1, <1>2, <1>3 DEF Inv

\* The request that has locked a player's row is the only one in a phase of
\* Locked for that player.
LEMMA OneHolder ==
  ASSUME LockedExactly, TypeOK,
         NEW r \in Request, NEW s \in Request,
         pc[r] \in Locked, pc[s] \in Locked, UserOf(r) = UserOf(s)
  PROVE  r = s
BY ConstantsAssumption DEF LockedExactly, TypeOK

\* A step that moves one request between two phases that hold no lock, and
\* touches nothing else, keeps the invariant.
LEMMA Walk ==
  ASSUME Inv, NEW r \in Request, NEW to \in Phase \ Locked,
         pc[r] \notin Locked, pc' = [pc EXCEPT ![r] = to],
         UNCHANGED <<lock, db, mem, loaded, staged>>
  PROVE  Inv'
<1>1. TypeOK'
  BY DEF Inv, TypeOK
<1>2. LockedExactly'
  BY DEF Inv, TypeOK, LockedExactly
<1>3. Fresh'
  BY DEF Inv, TypeOK, Fresh, Locked
<1>4. QED BY <1>1, <1>2, <1>3 DEF Inv

\* A step that ends the requests of S without a commit, and gives their locks
\* back, keeps the invariant: every error path of WithLocked.
LEMMA Abandon ==
  ASSUME Inv, NEW S \in SUBSET Request,
         pc' \in [Request -> Phase],
         \A r \in S : pc'[r] \notin Locked,
         \A r \in Request \ S : pc'[r] = pc[r],
         lock' = Unlocked(S),
         UNCHANGED <<db, mem, loaded, staged>>
  PROVE  Inv'
<1>1. TypeOK'
  BY DEF Inv, TypeOK, Unlocked
<1>2. LockedExactly'
  BY ConstantsAssumption DEF Inv, TypeOK, LockedExactly, Unlocked
<1>3. Fresh'
  BY DEF Inv, TypeOK, Fresh, Locked
<1>4. QED BY <1>1, <1>2, <1>3 DEF Inv
-----------------------------------------------------------------------------
LEMMA LockRowInv ==
  ASSUME Inv, NEW r \in Request, LockRow(r)
  PROVE  Inv'
<1> USE DEF Inv, LockRow, Goto
<1>1. db[UserOf(r)] \in State
  BY ConstantsAssumption DEF TypeOK, Player
<1>2. mem'[r] \in State
  BY <1>1, ConstantsAssumption DEF State, TypeOK
<1>3. TypeOK'
  BY <1>1, <1>2, ConstantsAssumption DEF TypeOK, Player, Phase, InTx, Locked
<1>4. LockedExactly'
  BY ConstantsAssumption DEF TypeOK, LockedExactly, Locked
<1>5. Fresh'
  <2> SUFFICES ASSUME NEW s \in Request PROVE Fresh!(s)'
    BY DEF Fresh
  <2>1. CASE s = r
    BY <1>1, <1>2, <2>1, ConstantsAssumption DEF TypeOK, Fresh, Locked
  <2>2. CASE s # r
    BY <2>2 DEF TypeOK, Fresh, Locked
  <2>3. QED BY <2>1, <2>2
<1>6. QED BY <1>3, <1>4, <1>5

LEMMA LoadChildInv ==
  ASSUME Inv, NEW r \in Request, LoadChild(r)
  PROVE  Inv'
<1> DEFINE u == UserOf(r)
           k == loaded[r] + 1
<1> USE DEF Inv, LoadChild
<1>1. k \in Table /\ loaded' = [loaded EXCEPT ![r] = k] /\ k \in 0 .. Tables
  BY ConstantsAssumption DEF TypeOK, Table
<1>2. db[u] \in State /\ mem[r] \in State
  BY ConstantsAssumption DEF TypeOK, Player, Fresh, Locked
<1>3. /\ mem'[r].row = mem[r].row
      /\ mem'[r].kids = [mem[r].kids EXCEPT ![k] = db[u].kids[k]]
      /\ mem'[r] \in State
      /\ mem' \in [Request -> Player]
      /\ \A s \in Request : s # r => mem'[s] = mem[s]
  BY <1>1, <1>2 DEF TypeOK, Player, State
<1>4. TypeOK'
  BY <1>1, <1>3 DEF TypeOK
<1>5. LockedExactly'
  BY DEF LockedExactly
<1>6. Fresh'
  <2> SUFFICES ASSUME NEW s \in Request PROVE Fresh!(s)'
    BY DEF Fresh
  <2>1. CASE s = r
    <3>1. \A t \in 1 .. loaded'[r] : mem'[r].kids[t] = db[u].kids[t]
      <4>1. mem[r].kids \in [Table -> Kid] /\ loaded[r] \in Nat
        BY <1>2 DEF State, TypeOK
      <4>2. \A t \in 1 .. loaded[r] : mem[r].kids[t] = db[u].kids[t]
        BY DEF Fresh
      <4>3. loaded'[r] = k
        BY <1>1 DEF TypeOK
      <4>4. \A t \in 1 .. k : t = k \/ t \in 1 .. loaded[r]
        BY <4>1
      <4>5. \A t \in 1 .. k : t \in Table
        BY <1>1, <4>1, ConstantsAssumption DEF Table
      <4>6. \A t \in Table : mem'[r].kids[t] =
                               IF t = k THEN db[u].kids[k] ELSE mem[r].kids[t]
        BY <1>3, <4>1
      <4>7. QED BY <4>2, <4>3, <4>4, <4>5, <4>6
    <3>2. mem'[r].row = db[u].row
      BY <1>3 DEF Fresh
    <3>3. mem'[r] # NoPlayer /\ pc' = pc /\ db' = db /\ staged' = staged
      BY <1>3, ConstantsAssumption
    <3>4. QED BY <2>1, <3>1, <3>2, <3>3 DEF Fresh, Locked
  <2>2. CASE s # r
    BY <1>3, <2>2 DEF TypeOK, Fresh, Locked
  <2>3. QED BY <2>1, <2>2
<1>7. QED BY <1>4, <1>5, <1>6

LEMMA LoadedInv ==
  ASSUME Inv, NEW r \in Request, Loaded(r)
  PROVE  Inv'
<1> USE DEF Inv, Loaded, Goto
<1>1. TypeOK'
  BY DEF TypeOK, Phase, InTx, Locked
<1>2. LockedExactly'
  BY DEF TypeOK, LockedExactly, Locked
<1>3. Fresh'
  <2>1. mem[r] \in State /\ db[UserOf(r)] \in State
    BY ConstantsAssumption DEF TypeOK, Player, Fresh, Locked
  <2>2. mem[r].kids = db[UserOf(r)].kids
    <3>1. \A t \in Table : mem[r].kids[t] = db[UserOf(r)].kids[t]
      BY DEF Fresh, Locked, Table
    <3>2. mem[r].kids \in [Table -> Kid] /\ db[UserOf(r)].kids \in [Table -> Kid]
      BY <2>1 DEF State
    <3>3. QED BY <3>1, <3>2
  <2>3. mem[r].row = db[UserOf(r)].row
    BY DEF Fresh
  <2>4. mem[r] = db[UserOf(r)]
    BY <2>1, <2>2, <2>3 DEF State
  <2>5. QED BY <2>1, <2>4 DEF TypeOK, Fresh, Locked
<1>4. QED BY <1>1, <1>2, <1>3

LEMMA RunInv ==
  ASSUME Inv, NEW r \in Request, Run(r)
  PROVE  Inv'
<1> USE DEF Inv, Run, Goto
<1> DEFINE now == db[UserOf(r)]
<1>1. mem[r] = now /\ now \in State /\ staged[r] = now
  BY ConstantsAssumption DEF TypeOK, Player, Fresh, Locked
<1>2. Accepts(r, now) /\ After(r, now) \in State
  BY <1>1, ConstantsAssumption
<1>3. mem'[r] = After(r, now) /\ mem'[r] \in State
  BY <1>1, <1>2 DEF TypeOK
<1>4. /\ staged'[r].kids = mem'[r].kids
      /\ staged'[r].row = now.row
      /\ staged'[r] \in State
  BY <1>1, <1>3 DEF TypeOK, State
<1>5. TypeOK'
  BY <1>3, <1>4 DEF TypeOK, Player, Phase, InTx, Locked
<1>6. LockedExactly'
  BY DEF TypeOK, LockedExactly, Locked
<1>7. Fresh'
  <2> SUFFICES ASSUME NEW s \in Request PROVE Fresh!(s)'
    BY DEF Fresh
  <2>1. CASE s = r
    BY <1>1, <1>2, <1>3, <1>4, <2>1, ConstantsAssumption DEF TypeOK, Fresh, Locked
  <2>2. CASE s # r
    BY <2>2 DEF TypeOK, Fresh, Locked
  <2>3. QED BY <2>1, <2>2
<1>8. QED BY <1>5, <1>6, <1>7

LEMMA SaveInv ==
  ASSUME Inv, NEW r \in Request, Save(r)
  PROVE  Inv'
<1> USE DEF Inv, Save, Goto
<1> DEFINE now == db[UserOf(r)]
<1>1. /\ now \in State /\ Accepts(r, now)
      /\ mem[r] = After(r, now)
      /\ staged[r] \in State /\ staged[r].kids = mem[r].kids
  BY ConstantsAssumption DEF TypeOK, Player, Fresh, Locked
<1>2. mem[r] \in State
  BY <1>1, ConstantsAssumption
<1>3. staged'[r] = mem[r]
  BY <1>1, <1>2 DEF TypeOK, State
<1>4. TypeOK'
  BY <1>2, <1>3 DEF TypeOK, Player, Phase, InTx, Locked
<1>5. LockedExactly'
  BY DEF TypeOK, LockedExactly, Locked
<1>6. Fresh'
  <2> SUFFICES ASSUME NEW s \in Request PROVE Fresh!(s)'
    BY DEF Fresh
  <2>1. CASE s = r
    BY <1>1, <1>2, <1>3, <2>1, ConstantsAssumption DEF TypeOK, Fresh, Locked
  <2>2. CASE s # r
    BY <2>2 DEF TypeOK, Fresh, Locked
  <2>3. QED BY <2>1, <2>2
<1>7. QED BY <1>4, <1>5, <1>6

\* What a commit installs is what the handler makes of the committed player.
LEMMA CommitInstalls ==
  ASSUME Inv, NEW r \in Request, Commit(r)
  PROVE  /\ db[UserOf(r)] \in State
         /\ Accepts(r, db[UserOf(r)])
         /\ mem[r] = After(r, db[UserOf(r)])
         /\ db' = [db EXCEPT ![UserOf(r)] = After(r, db[UserOf(r)])]
<1>1. pc[r] = "commit"
  BY DEF Commit, Goto
<1>2. db[UserOf(r)] # NoPlayer /\ UserOf(r) \in User
  BY <1>1, ConstantsAssumption DEF Inv, Fresh, Locked
<1>3. db[UserOf(r)] \in State
  BY <1>2 DEF Inv, TypeOK, Player
<1>4. /\ Accepts(r, db[UserOf(r)])
      /\ mem[r] = After(r, db[UserOf(r)])
      /\ staged[r] = mem[r]
  BY <1>1 DEF Inv, Fresh
<1>5. QED BY <1>3, <1>4 DEF Commit

LEMMA CommitInv ==
  ASSUME Inv, NEW r \in Request, Commit(r)
  PROVE  Inv'
<1> USE DEF Inv, Commit, Goto
<1>1. db'[UserOf(r)] \in State /\ db' \in [User -> Player]
  <2>1. After(r, db[UserOf(r)]) \in State
    BY CommitInstalls, ConstantsAssumption
  <2>2. QED BY <2>1, CommitInstalls, ConstantsAssumption DEF TypeOK, Player
<1>2. TypeOK'
  BY <1>1 DEF TypeOK, Phase, Committed, Unlocked
<1>3. LockedExactly'
  BY ConstantsAssumption DEF TypeOK, LockedExactly, Locked, Unlocked
<1>4. Fresh'
  <2> SUFFICES ASSUME NEW s \in Request, pc'[s] \in Locked PROVE Fresh!(s)'
    BY DEF Fresh, Locked
  <2>1. s # r /\ pc[s] \in Locked /\ pc[r] \in Locked
    BY DEF TypeOK, Locked
  <2>2. UserOf(s) # UserOf(r)
    BY <2>1, OneHolder
  <2>3. db'[UserOf(s)] = db[UserOf(s)]
    BY <2>2, ConstantsAssumption DEF TypeOK
  <2>4. QED BY <2>1, <2>3 DEF TypeOK, Fresh, Locked
<1>5. QED BY <1>2, <1>3, <1>4
-----------------------------------------------------------------------------
\* Every step keeps the invariant.
LEMMA StepInv == Inv /\ [Next]_vars => Inv'
<1> SUFFICES ASSUME Inv, [Next]_vars PROVE Inv'
  OBVIOUS
<1> USE DEF Goto
<1>1. ASSUME NEW r \in Request, Arrive(r) PROVE Inv'
  BY <1>1, Walk DEF Arrive, Phase, InTx, Locked, Committed
<1>2. ASSUME NEW r \in Request, Begin(r) PROVE Inv'
  BY <1>2, Walk DEF Begin, Phase, InTx, Locked, Committed
<1>3. ASSUME NEW r \in Request, LockRow(r) PROVE Inv'
  BY <1>3, LockRowInv
<1>4. ASSUME NEW r \in Request, NotFound(r) PROVE Inv'
  BY <1>4, Walk DEF NotFound, Phase, InTx, Locked, Committed
<1>5. ASSUME NEW r \in Request, LoadChild(r) PROVE Inv'
  BY <1>5, LoadChildInv
<1>6. ASSUME NEW r \in Request, Loaded(r) PROVE Inv'
  BY <1>6, LoadedInv
<1>7. ASSUME NEW r \in Request, Run(r) PROVE Inv'
  BY <1>7, RunInv
<1>8. ASSUME NEW r \in Request, Refuse(r) \/ Rollback(r) PROVE Inv'
  <2>1. pc' = [pc EXCEPT ![r] = "failed"]
    BY <1>8 DEF Refuse, Rollback
  <2>2. /\ pc' \in [Request -> Phase]
        /\ \A s \in {r} : pc'[s] \notin Locked
        /\ \A s \in Request \ {r} : pc'[s] = pc[s]
    BY <2>1 DEF Inv, TypeOK, Phase, Locked
  <2>3. lock' = Unlocked({r}) /\ UNCHANGED <<db, mem, loaded, staged>>
    BY <1>8 DEF Refuse, Rollback
  <2>4. QED BY <2>2, <2>3, Abandon
<1>9. ASSUME NEW r \in Request, Save(r) PROVE Inv'
  BY <1>9, SaveInv
<1>10. ASSUME NEW r \in Request, Commit(r) PROVE Inv'
  BY <1>10, CommitInv
<1>11. ASSUME NEW r \in Request, Reply(r) \/ LoseReply(r) PROVE Inv'
  BY <1>11, Walk DEF Reply, LoseReply, Phase, InTx, Locked, Committed
<1>12. CASE Crash
  <2>1. /\ pc' \in [Request -> Phase]
        /\ \A s \in Request : pc'[s] \notin Locked
    BY <1>12 DEF Crash, Inv, TypeOK, Phase, InTx, Locked, Committed
  <2>2. lock' = Unlocked(Request)
    BY <1>12, ConstantsAssumption DEF Crash, Inv, TypeOK, Unlocked
  <2>3. UNCHANGED <<db, mem, loaded, staged>>
    BY <1>12 DEF Crash
  <2>4. QED BY <2>1, <2>2, <2>3, Abandon
<1>13. CASE UNCHANGED vars
  BY <1>13 DEF vars, Inv, TypeOK, LockedExactly, Fresh
<1>14. QED
  BY <1>1, <1>2, <1>3, <1>4, <1>5, <1>6, <1>7, <1>8, <1>9, <1>10, <1>11,
     <1>12, <1>13 DEF Next, Progress

LEMMA InvAlways == Spec => []Inv
<1>1. QED BY InitInv, StepInv, PTL DEF Spec

\* The phases, locks, copies and committed players always have their types.
THEOREM TypeCorrect == Spec => []TypeOK
<1>1. Inv => TypeOK
  BY DEF Inv
<1>2. QED BY <1>1, InvAlways, PTL

\* A request is past its SELECT ... FOR UPDATE exactly while it holds its
\* player's row, whatever fails.
THEOREM LockCorrect == Spec => []LockedExactly
<1>1. Inv => LockedExactly
  BY DEF Inv
<1>2. QED BY <1>1, InvAlways, PTL

\* No handler of WithLocked ever decides on, or writes back, stale data.
THEOREM FreshCorrect == Spec => []Fresh
<1>1. Inv => Fresh
  BY DEF Inv
<1>2. QED BY <1>1, InvAlways, PTL
-----------------------------------------------------------------------------
\* A step that commits nothing and changes no player: it drops the requests
\* it ends, and nothing else can be seen from outside.
LEMMA Unseen ==
  ASSUME Inv, NEW S \in SUBSET Request,
         \A r \in S : pc[r] \notin Committed \cup {"failed"} /\ pc'[r] = "failed",
         \A r \in Request \ S : Fate'[r] = Fate[r] /\
                                (pc'[r] \in Committed <=> pc[r] \in Committed),
         \A r \in Request : pc[r] \in Committed => mem'[r] = mem[r],
         db' = db
  PROVE  Store!Drop(S)
<1>1. \A r \in S : Fate[r] = "open" /\ Fate'[r] = "dropped"
  BY DEF Fate, Committed
<1>2. Fate' = [r \in Request |-> IF r \in S THEN "dropped" ELSE Fate[r]]
  BY <1>1 DEF Fate
<1>3. Answer' = Answer
  BY DEF Answer, Committed
<1>4. QED BY <1>1, <1>2, <1>3 DEF Store!Drop

\* A commit is the instant the request takes effect.
LEMMA CommitApplies ==
  ASSUME Inv, NEW r \in Request, Commit(r)
  PROVE  Store!Apply(r)
<1>1. pc' = [pc EXCEPT ![r] = "reply"] /\ pc[r] = "commit" /\ mem' = mem
  BY DEF Commit, Goto
<1>2. Fate[r] = "open" /\ Fate' = [Fate EXCEPT ![r] = "applied"]
  BY <1>1 DEF Fate, Committed, Inv, TypeOK
<1>3. Answer' = [Answer EXCEPT ![r] = mem[r]]
  BY <1>1 DEF Answer, Committed, Inv, TypeOK
<1>4. db[UserOf(r)] # NoPlayer
  BY CommitInstalls, ConstantsAssumption
<1>5. QED BY <1>2, <1>3, <1>4, CommitInstalls DEF Store!Apply

LEMMA StepRefines == Inv /\ [Next]_vars => [Store!Next]_(Store!vars)
<1> SUFFICES ASSUME Inv, [Next]_vars PROVE [Store!Next]_(Store!vars)
  OBVIOUS
<1> USE DEF Goto
<1>1. ASSUME NEW S \in SUBSET Request, Store!Drop(S)
      PROVE  [Store!Next]_(Store!vars)
  BY <1>1 DEF Store!Next
<1>2. ASSUME NEW r \in Request,
             \/ Arrive(r) \/ Begin(r) \/ LockRow(r) \/ LoadChild(r) \/ Loaded(r)
             \/ Run(r) \/ Save(r) \/ Reply(r) \/ LoseReply(r)
      PROVE  Store!Drop({})
  <2>1. \A s \in Request : /\ Fate'[s] = Fate[s]
                           /\ pc'[s] \in Committed <=> pc[s] \in Committed
    BY <1>2 DEF Arrive, Begin, LockRow, LoadChild, Loaded, Run, Save, Reply,
                LoseReply, Fate, Committed, Inv, TypeOK
  <2>2. db' = db /\ \A s \in Request : pc[s] \in Committed => mem'[s] = mem[s]
    BY <1>2 DEF Arrive, Begin, LockRow, LoadChild, Loaded, Run, Save, Reply,
                LoseReply, Committed, Inv, TypeOK
  <2>3. QED BY <2>1, <2>2, Unseen
<1>3. ASSUME NEW r \in Request, NotFound(r) \/ Refuse(r) \/ Rollback(r)
      PROVE  Store!Drop({r})
  <2>1. /\ pc' = [pc EXCEPT ![r] = "failed"] /\ db' = db /\ mem' = mem
        /\ pc[r] \notin Committed \cup {"failed"}
    BY <1>3 DEF NotFound, Refuse, Rollback, Committed, InTx, Locked
  <2>2. QED BY <2>1, Unseen DEF Fate, Committed, Inv, TypeOK
<1>4. ASSUME Crash
      PROVE  Store!Drop({r \in Request : pc[r] \in InTx \cup {"begin"}})
  <2> DEFINE S == {r \in Request : pc[r] \in InTx \cup {"begin"}}
  <2>1. \A r \in S : pc[r] \notin Committed \cup {"failed"} /\ pc'[r] = "failed"
    BY <1>4 DEF Crash, Committed, InTx, Locked
  <2>2. \A r \in Request \ S : Fate'[r] = Fate[r] /\
                               (pc'[r] \in Committed <=> pc[r] \in Committed)
    BY <1>4 DEF Crash, Committed, InTx, Locked, Fate
  <2>3. db' = db /\ mem' = mem
    BY <1>4 DEF Crash
  <2>4. QED BY <2>1, <2>2, <2>3, Unseen
<1>5. ASSUME NEW r \in Request, Commit(r) PROVE [Store!Next]_(Store!vars)
  BY <1>5, CommitApplies DEF Store!Next
<1>6. CASE UNCHANGED vars
  BY <1>6 DEF vars, Store!vars, Fate, Answer
<1>7. QED
  <2>1. ASSUME NEW r \in Request,
               Arrive(r) \/ Progress(r) \/ Rollback(r) \/ LoseReply(r)
        PROVE  [Store!Next]_(Store!vars)
    BY <2>1, <1>1, <1>2, <1>3, <1>5 DEF Progress
  <2>2. CASE Crash
    BY <2>2, <1>1, <1>4
  <2>3. QED BY <2>1, <2>2, <1>6 DEF Next

\* WithLocked keeps the promise of AD-004: seen from outside, every request
\* changes its player at one instant, on the player of that instant and to the
\* player it answers, or leaves no trace.
THEOREM LockImplementsStore == Spec => ImplementsStore
<1>1. Init => Store!Init
  BY DEF Init, Store!Init, Player, Fate, Answer, Committed
<1>2. QED BY <1>1, StepRefines, InvAlways, PTL DEF Spec, ImplementsStore, Store!Spec
-----------------------------------------------------------------------------
ReaderOK ==
  /\ rpc \in [Reader -> {"idle", "row", "kids", "done", "failed"}]
  /\ got \in [Reader -> 0 .. Tables]
  /\ view = [q \in Reader |-> view[q]]
  /\ since = [q \in Reader |-> since[q]]
  /\ \A q \in Reader :
       /\ rpc[q] \in {"idle", "row"} => got[q] = 0
       /\ rpc[q] = "done" => got[q] = Tables
       /\ rpc[q] \in {"kids", "done"} =>
            /\ view[q] \in State /\ db[ReaderUser(q)] \in State
            /\ since[q] \subseteq CommittedOn(ReaderUser(q))

\* What a reader has seen so far is what is committed.
Current(q) ==
  LET now == db[ReaderUser(q)]
  IN  /\ view[q].row = now.row
      /\ \A t \in 1 .. got[q] : view[q].kids[t] = now.kids[t]

\* A mutation of its player has been committed since a reader read the row.
Overtaken(q) == since[q] # CommittedOn(ReaderUser(q))

Seen ==
  \A q \in Reader : rpc[q] \in {"kids", "done"} => Overtaken(q) \/ Current(q)

RInv == Inv /\ ReaderOK /\ Seen

-----------------------------------------------------------------------------
LEMMA RInitInv == RInit => RInv
<1>1. SUFFICES ASSUME RInit PROVE RInv
  OBVIOUS
<1>2. Inv
  BY <1>1, InitInv DEF RInit
<1>3. ReaderOK /\ Seen
  BY <1>1, ConstantsAssumption DEF RInit, ReaderOK, Seen
<1>4. QED BY <1>2, <1>3 DEF RInv

\* A step of the mutations either commits one on a player or leaves all the
\* committed players alone, and takes none back.
LEMMA Commits ==
  ASSUME Inv, Next
  PROVE  /\ \A u \in User : CommittedOn(u) \subseteq CommittedOn(u)'
         /\ \A u \in User : db'[u] = db[u] \/ CommittedOn(u)' # CommittedOn(u)
         /\ \A u \in User : db[u] \in State => db'[u] \in State
<1> DEFINE Good == /\ \A s \in Request : pc[s] \in Committed => pc'[s] \in Committed
                   /\ \A u \in User : db'[u] = db[u] \/ \E s \in Request :
                          UserOf(s) = u /\ pc[s] \notin Committed /\ pc'[s] \in Committed
                   /\ \A u \in User : db[u] \in State => db'[u] \in State
<1>1. SUFFICES Good
  BY DEF CommittedOn
<1>2. pc \in [Request -> Phase] /\ db \in [User -> Player]
  BY DEF Inv, TypeOK
<1>3. ASSUME NEW r \in Request, Arrive(r) \/ Begin(r) \/ NotFound(r) \/ LoadChild(r) \/ Loaded(r)
                                \/ Save(r) \/ Reply(r) \/ LoseReply(r)
      PROVE  Good
  <2>1. db' = db
    BY <1>3 DEF Arrive, Begin, NotFound, LoadChild, Loaded, Save, Reply, LoseReply
  <2>2. \A s \in Request : pc[s] \in Committed => pc'[s] \in Committed
    BY <1>2, <1>3 DEF Arrive, Begin, NotFound, LoadChild, Loaded, Save, Reply, LoseReply, Goto, Committed
  <2>3. QED BY <2>1, <2>2
<1>4. ASSUME NEW r \in Request, LockRow(r) \/ Run(r) \/ Refuse(r) \/ Rollback(r)
      PROVE  Good
  <2>1. db' = db
    BY <1>4 DEF LockRow, Run, Refuse, Rollback
  <2>2. \A s \in Request : pc[s] \in Committed => pc'[s] \in Committed
    BY <1>2, <1>4 DEF LockRow, Run, Refuse, Rollback, Goto, Committed, InTx, Locked
  <2>3. QED BY <2>1, <2>2
<1>5. ASSUME NEW r \in Request, Commit(r)
      PROVE  Good
  <2>1. /\ pc[r] \notin Committed /\ pc'[r] \in Committed
        /\ \A s \in Request : pc[s] \in Committed => pc'[s] \in Committed
    BY <1>2, <1>5 DEF Commit, Goto, Committed
  <2>2. \A u \in User : u # UserOf(r) => db'[u] = db[u]
    BY <1>2, <1>5 DEF Commit
  <2>3. staged[r] \in State
    BY <1>2, <1>5 DEF Inv, TypeOK, Fresh, Commit, Goto, Locked, Player
  <2>4. \A u \in User : db[u] \in State => db'[u] \in State
    BY <1>2, <1>5, <2>3 DEF Commit
  <2>5. QED BY <2>1, <2>2, <2>4
<1>6. CASE Crash
  <2>1. db' = db
    BY <1>6 DEF Crash
  <2>2. \A s \in Request : pc[s] \in Committed => pc'[s] \in Committed
    BY <1>2, <1>6 DEF Crash, Committed, InTx, Locked
  <2>3. QED BY <2>1, <2>2
<1>7. QED BY <1>3, <1>4, <1>5, <1>6 DEF Next, Progress

\* A mutation's step leaves a reader right or overtakes it.
LEMMA MutationInv ==
  ASSUME RInv, Next, UNCHANGED rvars
  PROVE  RInv'
<1>1. Inv /\ Inv'
  BY StepInv DEF RInv
<1>2. UNCHANGED <<rpc, view, got, since>> /\ ReaderOK /\ Seen
  BY DEF rvars, RInv
<1>3. ASSUME NEW q \in Reader, rpc[q] \in {"kids", "done"}
      PROVE  /\ since[q] \subseteq CommittedOn(ReaderUser(q))'
             /\ Overtaken(q)' \/ Current(q)'
             /\ db'[ReaderUser(q)] \in State
  <2> DEFINE u == ReaderUser(q)
  <2>1. u \in User
    BY ReadersAssumption
  <2>2. /\ CommittedOn(u) \subseteq CommittedOn(u)'
        /\ db'[u] = db[u] \/ CommittedOn(u)' # CommittedOn(u)
    BY <1>1, <2>1, Commits
  <2>3. since[q] \subseteq CommittedOn(u)
    BY <1>2, <1>3 DEF ReaderOK
  <2>4. Overtaken(q) \/ Current(q)
    BY <1>2, <1>3 DEF Seen
  <2>5. ASSUME ~Overtaken(q)'
        PROVE  Current(q)'
    <3>1. since[q] = CommittedOn(u)'
      BY <1>2, <2>5 DEF Overtaken
    <3>2. since[q] = CommittedOn(u) /\ db'[u] = db[u]
      BY <2>2, <2>3, <3>1
    <3>3. Current(q)
      BY <2>4, <3>2 DEF Overtaken
    <3>4. QED BY <1>2, <3>2, <3>3 DEF Current
  <2>6. db'[u] \in State
    BY <1>1, <1>2, <1>3, <2>1, Commits DEF ReaderOK
  <2>7. QED BY <2>2, <2>3, <2>5, <2>6
<1>4. ReaderOK'
  BY <1>2, <1>3 DEF ReaderOK
<1>5. Seen'
  BY <1>2, <1>3 DEF Seen
<1>6. QED BY <1>1, <1>4, <1>5 DEF RInv

-----------------------------------------------------------------------------
\* A reader's step keeps what the other readers have.
LEMMA ReaderInv ==
  ASSUME RInv, UNCHANGED vars, NEW q \in Reader,
         ReadArrive(q) \/ ReadRow(q) \/ ReadKid(q) \/ ReadFail(q)
  PROVE  RInv'
<1> DEFINE u == ReaderUser(q)
           now == db[u]
<1>1. Inv'
  BY StepInv DEF RInv
<1>2. db' = db /\ \A v : CommittedOn(v)' = CommittedOn(v)
  BY DEF vars, CommittedOn
<1>3. /\ ReaderOK /\ Seen /\ db \in [User -> Player] /\ u \in User
      /\ Tables \in Nat
  BY ReadersAssumption, ConstantsAssumption DEF RInv, Inv, TypeOK
<1>4. CASE ReadArrive(q) \/ ReadFail(q)
  <2>1. /\ UNCHANGED <<view, got, since>>
        /\ \/ rpc[q] = "idle" /\ rpc' = [rpc EXCEPT ![q] = "row"]
           \/ rpc' = [rpc EXCEPT ![q] = "failed"]
    BY <1>4 DEF ReadArrive, ReadFail
  <2>2. /\ rpc' \in [Reader -> {"idle", "row", "kids", "done", "failed"}]
        /\ \A p \in Reader : rpc'[p] \in {"idle", "kids", "done"} => rpc'[p] = rpc[p]
        /\ \A p \in Reader : rpc'[p] = "row" => rpc[p] \in {"idle", "row"}
    BY <1>3, <2>1 DEF ReaderOK
  <2>3. ReaderOK'
    BY <1>2, <1>3, <2>1, <2>2 DEF ReaderOK
  <2>4. Seen'
    BY <1>2, <1>3, <2>1, <2>2 DEF Seen, Overtaken, Current
  <2>5. QED BY <1>1, <2>3, <2>4 DEF RInv
<1>5. CASE ReadRow(q)
  <2>1. rpc[q] = "row" /\ got[q] = 0 /\ UNCHANGED got
    BY <1>3, <1>5 DEF ReadRow, ReaderOK
  <2>2. CASE now = NoPlayer
    <3>1. UNCHANGED <<view, since>> /\ rpc' = [rpc EXCEPT ![q] = "failed"]
      BY <1>5, <2>2 DEF ReadRow
    <3>2. /\ rpc' \in [Reader -> {"idle", "row", "kids", "done", "failed"}]
          /\ \A p \in Reader : rpc'[p] # "failed" => rpc'[p] = rpc[p]
      BY <1>3, <3>1 DEF ReaderOK
    <3>3. ReaderOK'
      BY <1>2, <1>3, <2>1, <3>1, <3>2 DEF ReaderOK
    <3>4. Seen'
      BY <1>2, <1>3, <2>1, <3>1, <3>2 DEF Seen, Overtaken, Current
    <3>5. QED BY <1>1, <3>3, <3>4 DEF RInv
  <2>3. CASE now # NoPlayer
    <3> DEFINE blank == [row |-> now.row, kids |-> [t \in Table |-> NoKid]]
    <3>1. /\ rpc' = [rpc EXCEPT ![q] = "kids"] /\ view' = [view EXCEPT ![q] = blank]
          /\ since' = [since EXCEPT ![q] = CommittedOn(u)]
      BY <1>5, <2>3 DEF ReadRow
    <3>2. now \in State
      BY <1>3, <2>3 DEF Player
    <3>3. blank \in State /\ blank.row = now.row
      BY <3>2, ConstantsAssumption DEF State
    <3> HIDE DEF blank
    <3>4. /\ rpc'[q] = "kids" /\ view'[q] = blank /\ since'[q] = CommittedOn(u)
          /\ \A p \in Reader : p # q => rpc'[p] = rpc[p] /\ view'[p] = view[p] /\ since'[p] = since[p]
      BY <1>3, <3>1 DEF ReaderOK
    <3>5. ReaderOK'
      <4>1. /\ rpc' \in [Reader -> {"idle", "row", "kids", "done", "failed"}]
            /\ view' = [p \in Reader |-> view'[p]] /\ since' = [p \in Reader |-> since'[p]]
        BY <1>3, <3>1 DEF ReaderOK
      <4>2. QED BY <1>2, <1>3, <2>1, <3>2, <3>3, <3>4, <4>1 DEF ReaderOK
    <3>6. Current(q)'
      <4>1. 1 .. got'[q] = {}
        BY <2>1
      <4>2. QED BY <1>2, <3>2, <3>3, <3>4, <4>1 DEF Current
    <3>7. Seen'
      <4>1. SUFFICES ASSUME NEW p \in Reader, rpc'[p] \in {"kids", "done"}
                     PROVE  Overtaken(p)' \/ Current(p)'
        BY DEF Seen
      <4>2. CASE p = q
        BY <3>6, <4>2
      <4>3. CASE p # q
        BY <1>2, <1>3, <2>1, <3>4, <4>1, <4>3 DEF Seen, Overtaken, Current
      <4>4. QED BY <4>2, <4>3
    <3>8. QED BY <1>1, <3>5, <3>7 DEF RInv
  <2>4. QED BY <2>2, <2>3
<1>6. CASE ReadKid(q)
  <2> DEFINE t == got[q] + 1
             to == IF t = Tables THEN "done" ELSE "kids"
             kids == [view[q].kids EXCEPT ![t] = now.kids[t]]
  <2>1. /\ rpc[q] = "kids" /\ t <= Tables /\ UNCHANGED since
        /\ got' = [got EXCEPT ![q] = t] /\ rpc' = [rpc EXCEPT ![q] = to]
        /\ view' = [view EXCEPT ![q].kids[t] = now.kids[t]]
    BY <1>6 DEF ReadKid, Visible
  <2>2. got[q] \in Nat /\ t \in Table /\ t \in 0 .. Tables
    BY <1>3, <2>1 DEF ReaderOK, Table
  <2>3. view[q] \in State
    BY <1>3, <2>1 DEF ReaderOK
  <2>4. view[q].kids \in [Table -> Kid] /\ view[q].row \in Row
    BY <2>3 DEF State
  <2>5. view' = [view EXCEPT ![q] = [view[q] EXCEPT !.kids = kids]]
    BY <2>1
  <2>6. view'[q] = [view[q] EXCEPT !.kids = kids]
    BY <1>3, <2>5 DEF ReaderOK
  <2>7. view'[q].row = view[q].row /\ view'[q].kids = kids /\ view'[q] = [row |-> view[q].row, kids |-> kids]
    BY <2>3, <2>6 DEF State
  <2>8. \A p \in Reader : p # q => view'[p] = view[p] /\ got'[p] = got[p] /\ rpc'[p] = rpc[p]
    BY <1>3, <2>1, <2>5 DEF ReaderOK
  <2>9. got'[q] = t /\ rpc'[q] = to
    BY <1>3, <2>1 DEF ReaderOK
  <2>10. \A k \in Table : kids[k] = IF k = t THEN now.kids[t] ELSE view[q].kids[k]
    BY <2>4
  <2>11. now \in State /\ now.kids \in [Table -> Kid]
    BY <1>3, <2>1 DEF ReaderOK, State
  <2>12. kids \in [Table -> Kid]
    BY <2>2, <2>4, <2>11
  <2> HIDE DEF kids
  <2>13. view'[q] \in State
    BY <2>4, <2>7, <2>12 DEF State
  <2>14. ReaderOK'
    <3>1. /\ rpc' \in [Reader -> {"idle", "row", "kids", "done", "failed"}]
          /\ got' \in [Reader -> 0 .. Tables]
          /\ view' = [p \in Reader |-> view'[p]]
      BY <1>3, <2>1, <2>2, <2>5 DEF ReaderOK
    <3>2. QED BY <1>2, <1>3, <2>1, <2>8, <2>9, <2>11, <2>13, <3>1 DEF ReaderOK
  <2>15. Overtaken(q)' \/ Current(q)'
    <3>1. CASE Overtaken(q)
      BY <1>2, <2>1, <3>1 DEF Overtaken
    <3>2. CASE Current(q)
      <4>1. \A k \in 1 .. t : k = t \/ k \in 1 .. got[q]
        BY <2>2
      <4>2. \A k \in 1 .. t : k \in Table
        BY <1>3, <2>2 DEF Table
      <4>3. \A k \in 1 .. t : kids[k] = now.kids[k]
        BY <2>10, <3>2, <4>1, <4>2 DEF Current
      <4>4. Current(q)'
        BY <1>2, <2>7, <2>9, <3>2, <4>3 DEF Current
      <4>5. QED BY <4>4
    <3>3. QED BY <1>3, <2>1, <3>1, <3>2 DEF Seen
  <2>16. Seen'
    <3>1. SUFFICES ASSUME NEW p \in Reader, rpc'[p] \in {"kids", "done"}
                   PROVE  Overtaken(p)' \/ Current(p)'
      BY DEF Seen
    <3>2. CASE p = q
      BY <2>15, <3>2
    <3>3. CASE p # q
      BY <1>2, <1>3, <2>1, <2>8, <3>1, <3>3 DEF Seen, Overtaken, Current
    <3>4. QED BY <3>2, <3>3
  <2>17. QED BY <1>1, <2>14, <2>16 DEF RInv
<1>7. QED BY <1>4, <1>5, <1>6

LEMMA RNextInv == RInv /\ [RNext]_<<vars, rvars>> => RInv'
<1>1. SUFFICES ASSUME RInv, [RNext]_<<vars, rvars>> PROVE RInv'
  OBVIOUS
<1>2. CASE Next /\ UNCHANGED rvars
  BY <1>1, <1>2, MutationInv
<1>3. CASE UNCHANGED <<vars, rvars>>
  BY <1>1, <1>3, StepInv
     DEF vars, rvars, RInv, ReaderOK, Seen, Overtaken, Current, CommittedOn
<1>4. QED BY <1>1, <1>2, <1>3, ReaderInv DEF RNext, Read

\* However the reads of GET /me fall between the mutations' commits: an answer
\* that no commit on its player overlapped is the committed player.
THEOREM ReadsExact == RSpec => []QuietReadIsExact
<1>1. RInv => QuietReadIsExact
  <2>1. SUFFICES ASSUME RInv, NEW q \in Reader, rpc[q] = "done",
                        since[q] = CommittedOn(ReaderUser(q))
                 PROVE  view[q] = db[ReaderUser(q)]
    BY DEF QuietReadIsExact
  <2> DEFINE now == db[ReaderUser(q)]
  <2>2. /\ view[q] \in State /\ now \in State /\ got[q] = Tables /\ Current(q)
    BY <2>1 DEF RInv, ReaderOK, Seen, Overtaken
  <2>3. view[q].row = now.row /\ \A t \in Table : view[q].kids[t] = now.kids[t]
    BY <2>2 DEF Current, Table
  <2>4. /\ view[q].kids \in [Table -> Kid] /\ now.kids \in [Table -> Kid]
        /\ view[q] = [row |-> view[q].row, kids |-> view[q].kids]
        /\ now = [row |-> now.row, kids |-> now.kids]
    BY <2>2 DEF State
  <2> HIDE DEF now
  <2>5. view[q].kids = now.kids
    BY <2>3, <2>4
  <2>6. view[q] = now
    BY <2>3, <2>4, <2>5
  <2>7. QED BY <2>6 DEF now
<1>2. RSpec => RInit /\ [][RNext]_<<vars, rvars>>
  BY PTL DEF RSpec
<1>3. QED BY <1>1, <1>2, RInitInv, RNextInv, PTL
=============================================================================
