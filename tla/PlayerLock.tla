----------------------------- MODULE PlayerLock -----------------------------
(***************************************************************************)
(* player.WithLocked: the one path every player mutation takes.  A request *)
(* takes a pooled connection, opens a transaction, reads the players row   *)
(* FOR UPDATE, reads the child tables one statement at a time (READ        *)
(* COMMITTED: each statement sees what is committed when it runs), runs    *)
(* its handler fn on the copy p, writes the row back and commits.  Any     *)
(* error, a cut connection or a crash of the process before the commit     *)
(* rolls the transaction back; after it the client may never hear.         *)
(***************************************************************************)
EXTENDS Naturals, FiniteSets

CONSTANTS User, Request,
          NoPlayer,        \* no row: the user has not created a player
          NoRequest,       \* nobody holds the row lock
          Row,             \* what the players row may hold
          Kid, NoKid,      \* what a child table may hold; a list not read yet
          Tables,          \* the number of child tables WithLocked reads
          PoolSize,        \* the connections of the pgx pool
          UserOf(_),       \* the user whose session sent the request
          Accepts(_, _),   \* fn of the request returns nil on this player
          After(_, _)      \* what fn leaves of the player it was given

Table == 1 .. Tables
State == [row : Row, kids : [Table -> Kid]]

ASSUME ConstantsAssumption ==
  /\ NoPlayer \notin State
  /\ NoRequest \notin Request
  /\ NoKid \in Kid
  /\ Tables \in Nat /\ PoolSize \in Nat
  /\ \A r \in Request : UserOf(r) \in User
  /\ \A r \in Request, s \in State : Accepts(r, s) \in BOOLEAN
  /\ \A r \in Request, s \in State : Accepts(r, s) => After(r, s) \in State

VARIABLES pc,      \* where each request is
          lock,    \* who holds the lock of each user's players row
          db,      \* the committed player of each user
          mem,     \* p: the copy of the player a request works on
          loaded,  \* how many child tables a request has read
          staged   \* the player as the request's open transaction sees it

vars == <<pc, lock, db, mem, loaded, staged>>

(* A transaction holds its connection in every phase of InTx and, from the *)
(* SELECT ... FOR UPDATE on, the lock of its player's row.                 *)
Locked    == {"load", "run", "save", "commit"}
InTx      == {"lock"} \cup Locked
Committed == {"reply", "ok", "lost"}
Final     == {"ok", "lost", "failed"}
Phase     == {"idle", "begin", "failed"} \cup InTx \cup Committed

Init == /\ pc = [r \in Request |-> "idle"]
        /\ lock = [u \in User |-> NoRequest]
        /\ db \in [User -> State \cup {NoPlayer}]
        /\ mem = [r \in Request |-> NoPlayer]
        /\ loaded = [r \in Request |-> 0]
        /\ staged = [r \in Request |-> NoPlayer]

Goto(r, from, to) == pc[r] = from /\ pc' = [pc EXCEPT ![r] = to]

\* The row locks once the transactions of S are over.
Unlocked(S) == [u \in User |-> IF lock[u] \in S THEN NoRequest ELSE lock[u]]

-----------------------------------------------------------------------------
\* A click reaches the server: the handler calls WithLocked.
Arrive(r) ==
  /\ Goto(r, "idle", "begin")
  /\ UNCHANGED <<lock, db, mem, loaded, staged>>

\* pool.Begin: waits for one of the PoolSize connections.
Begin(r) ==
  /\ Goto(r, "begin", "lock")
  /\ Cardinality({s \in Request : pc[s] \in InTx}) < PoolSize
  /\ UNCHANGED <<lock, db, mem, loaded, staged>>

\* (Fault) A plain SELECT: nothing is waited for, the row is read all the same.
LockRowPlain(r) ==
  LET u == UserOf(r)
  IN  /\ Goto(r, "lock", "load")
      /\ db[u] # NoPlayer
      /\ lock' = [lock EXCEPT ![u] = r]
      /\ mem' = [mem EXCEPT ![r] =
                   [row |-> db[u].row, kids |-> [t \in Table |-> NoKid]]]
      /\ loaded' = [loaded EXCEPT ![r] = 0]
      /\ staged' = [staged EXCEPT ![r] = db[u]]
      /\ UNCHANGED db

\* SELECT ... FOR UPDATE: waits for the row lock, then reads the row as last
\* committed.
LockRow(r) ==
  LET u == UserOf(r)
  IN  /\ Goto(r, "lock", "load")
      /\ lock[u] = NoRequest
      /\ db[u] # NoPlayer
      /\ lock' = [lock EXCEPT ![u] = r]
      /\ mem' = [mem EXCEPT ![r] =
                   [row |-> db[u].row, kids |-> [t \in Table |-> NoKid]]]
      /\ loaded' = [loaded EXCEPT ![r] = 0]
      /\ staged' = [staged EXCEPT ![r] = db[u]]
      /\ UNCHANGED db

\* The SELECT finds no row: ErrPlayerNotFound.
NotFound(r) ==
  /\ db[UserOf(r)] = NoPlayer
  /\ Goto(r, "lock", "failed")
  /\ UNCHANGED <<lock, db, mem, loaded, staged>>

\* The next child table is read, in a statement of its own.
LoadChild(r) ==
  /\ pc[r] = "load"
  /\ loaded[r] < Tables
  /\ loaded' = [loaded EXCEPT ![r] = @ + 1]
  /\ mem' = [mem EXCEPT ![r].kids[loaded'[r]] =
                           db[UserOf(r)].kids[loaded'[r]]]
  /\ UNCHANGED <<pc, lock, db, staged>>

Loaded(r) ==
  /\ loaded[r] = Tables
  /\ Goto(r, "load", "run")
  /\ UNCHANGED <<lock, db, mem, loaded, staged>>

\* (Fault) fn writes the child rows through the pool, not the transaction.
RunOnPool(r) ==
  /\ Goto(r, "run", "save")
  /\ Accepts(r, mem[r])
  /\ mem' = [mem EXCEPT ![r] = After(r, mem[r])]
  /\ staged' = [staged EXCEPT ![r].kids = mem'[r].kids]
  /\ db' = [db EXCEPT ![UserOf(r)].kids = mem'[r].kids]
  /\ UNCHANGED <<lock, loaded>>

\* fn accepts: it changes p in memory and writes the child rows inside the
\* transaction.
Run(r) ==
  /\ Goto(r, "run", "save")
  /\ Accepts(r, mem[r])
  /\ mem' = [mem EXCEPT ![r] = After(r, mem[r])]
  /\ staged' = [staged EXCEPT ![r].kids = mem'[r].kids]
  /\ UNCHANGED <<lock, db, loaded>>

\* UPDATE players SET level, xp, ... : every column from p.
Save(r) ==
  /\ Goto(r, "save", "commit")
  /\ staged' = [staged EXCEPT ![r].row = mem[r].row]
  /\ UNCHANGED <<lock, db, mem, loaded>>

\* COMMIT: the transaction's writes become visible together and the lock and
\* the connection are given back.
Commit(r) ==
  /\ Goto(r, "commit", "reply")
  /\ db' = [db EXCEPT ![UserOf(r)] = staged[r]]
  /\ lock' = Unlocked({r})
  /\ UNCHANGED <<mem, loaded, staged>>

\* (Fault) No deferred Rollback: an error leaves the row locked.
RollbackForgotten(r) ==
  /\ pc[r] \in InTx \cup {"begin"}
  /\ pc' = [pc EXCEPT ![r] = "failed"]
  /\ UNCHANGED <<lock, db, mem, loaded, staged>>

\* The deferred Rollback: fn refuses, a statement fails or the client's
\* context is cancelled, at any point of an open transaction.
Rollback(r) ==
  /\ pc[r] \in InTx \cup {"begin"}
  /\ pc' = [pc EXCEPT ![r] = "failed"]
  /\ lock' = Unlocked({r})
  /\ UNCHANGED <<db, mem, loaded, staged>>

\* (Fault) The same for an fn that returns an error.
RefuseForgotten(r) ==
  /\ Goto(r, "run", "failed")
  /\ ~Accepts(r, mem[r])
  /\ UNCHANGED <<lock, db, mem, loaded, staged>>

\* fn returned an error; unlike the other rollbacks, this one must happen.
Refuse(r) ==
  /\ Goto(r, "run", "failed")
  /\ ~Accepts(r, mem[r])
  /\ lock' = Unlocked({r})
  /\ UNCHANGED <<db, mem, loaded, staged>>

\* {"player"} reaches the client ...
Reply(r) ==
  /\ Goto(r, "reply", "ok")
  /\ UNCHANGED <<lock, db, mem, loaded, staged>>

\* ... or the connection breaks after the commit.
LoseReply(r) ==
  /\ Goto(r, "reply", "lost")
  /\ UNCHANGED <<lock, db, mem, loaded, staged>>

\* The API process dies and restarts: its connections close, the database
\* rolls their transactions back, no pending answer is sent.
Crash ==
  /\ \E r \in Request : pc[r] \in InTx
  /\ pc' = [r \in Request |-> CASE pc[r] \in InTx \cup {"begin"} -> "failed"
                                [] pc[r] = "reply" -> "lost"
                                [] OTHER -> pc[r]]
  /\ lock' = [u \in User |-> NoRequest]
  /\ UNCHANGED <<db, mem, loaded, staged>>

Progress(r) ==
  \/ Begin(r) \/ LockRow(r) \/ NotFound(r) \/ LoadChild(r) \/ Loaded(r)
  \/ Run(r) \/ Refuse(r) \/ Save(r) \/ Commit(r) \/ Reply(r)

Next == \/ \E r \in Request : \/ Arrive(r) \/ Progress(r)
                              \/ Rollback(r) \/ LoseReply(r)
        \/ Crash

Spec == Init /\ [][Next]_vars

\* A request the server has taken up keeps running: goroutines are scheduled,
\* statements finish and Postgres grants a free lock.  Clicks, failures and
\* crashes are never owed.
FairSpec == Spec /\ \A r \in Request : WF_vars(Progress(r))
-----------------------------------------------------------------------------
Player == State \cup {NoPlayer}

TypeOK ==
  /\ pc \in [Request -> Phase]
  /\ lock \in [User -> Request \cup {NoRequest}]
  /\ db \in [User -> Player]
  /\ mem \in [Request -> Player]
  /\ loaded \in [Request -> 0 .. Tables]
  /\ staged \in [Request -> Player]

\* A request is past its SELECT ... FOR UPDATE exactly while it holds the lock
\* of its own player's row: two tabs never work on one player at once, and no
\* error path, refusal, crash or commit leaves a row locked behind it.
LockedExactly ==
  \A r \in Request, u \in User :
    (lock[u] = r) <=> (pc[r] \in Locked /\ UserOf(r) = u)

\* What a locked request has read is still what the database holds: nothing it
\* decided on is stale, through every statement it runs before its commit.
Fresh ==
  \A r \in Request :
    LET now == db[UserOf(r)]
    IN  /\ pc[r] \in Locked => /\ now # NoPlayer
                               /\ mem[r] # NoPlayer
                               /\ staged[r] # NoPlayer
        /\ pc[r] = "load" =>
             /\ mem[r].row = now.row
             /\ \A t \in 1 .. loaded[r] : mem[r].kids[t] = now.kids[t]
        /\ pc[r] \in {"load", "run"} => staged[r] = now
        /\ pc[r] = "run" => mem[r] = now
        /\ pc[r] \in {"save", "commit"} =>
             /\ Accepts(r, now)
             /\ mem[r] = After(r, now)
             /\ staged[r].kids = mem[r].kids
        /\ pc[r] = "save" => staged[r].row = now.row
        /\ pc[r] = "commit" => staged[r] = mem[r]

\* What the outside can tell of a request, and the player it has to answer.
Fate == [r \in Request |-> CASE pc[r] \in Committed -> "applied"
                             [] pc[r] = "failed" -> "dropped"
                             [] OTHER -> "open"]
Answer == [r \in Request |-> IF pc[r] \in Committed THEN mem[r] ELSE NoPlayer]

Store == INSTANCE PlayerStore WITH store <- db, fate <- Fate, answer <- Answer

\* The promise of AD-004: every request takes effect at one instant or not at
\* all, on the player of that instant, and answers the player it left.
ImplementsStore == Store!Spec

\* Every request the server takes up is answered, whatever the others do and
\* however few connections the pool has: lock waiters that keep their
\* connection never wait for one another in a circle.
EveryRequestEnds ==
  \A r \in Request : (pc[r] = "begin") ~> (pc[r] \in Final)
=============================================================================
