----------------------------- MODULE PlayerReads -----------------------------
(***************************************************************************)
(* player.Get beside the locked mutations of PlayerLock.  GET /me, the     *)
(* deploy list and the battle screen read the player without a transaction *)
(* and without a lock: the players row first, then each child table, every *)
(* statement on whatever connection the pool lends it and on whatever is   *)
(* committed when it runs.  A commit between two of them tears the answer. *)
(***************************************************************************)
EXTENDS PlayerLock

CONSTANTS Reader,        \* the requests that only read a player
          ReaderUser(_)  \* the user each of them reads

ASSUME ReadersAssumption == \A q \in Reader : ReaderUser(q) \in User

VARIABLES rpc,    \* where each reader is
          view,   \* the player a reader has put together so far
          got,    \* how many child tables a reader has read
          since   \* the mutations committed when a reader read the row (ghost)

rvars == <<rpc, view, got, since>>

RInit == /\ Init
         /\ rpc = [q \in Reader |-> "idle"]
         /\ view = [q \in Reader |-> NoPlayer]
         /\ got = [q \in Reader |-> 0]
         /\ since = [q \in Reader |-> {}]

\* Each statement borrows a connection for its own duration.
FreeConnection == Cardinality({s \in Request : pc[s] \in InTx}) < PoolSize

CommittedOn(u) == {r \in Request : pc[r] \in Committed /\ UserOf(r) = u}

ReadArrive(q) ==
  /\ rpc[q] = "idle"
  /\ rpc' = [rpc EXCEPT ![q] = "row"]
  /\ UNCHANGED <<view, got, since>>

\* SELECT ... FROM players; no row is ErrPlayerNotFound.
ReadRow(q) ==
  LET u == ReaderUser(q)
  IN  /\ rpc[q] = "row"
      /\ FreeConnection
      /\ IF db[u] = NoPlayer
         THEN /\ rpc' = [rpc EXCEPT ![q] = "failed"]
              /\ UNCHANGED <<view, since>>
         ELSE /\ rpc' = [rpc EXCEPT ![q] = "kids"]
              /\ view' = [view EXCEPT ![q] =
                            [row |-> db[u].row, kids |-> [t \in Table |-> NoKid]]]
              /\ since' = [since EXCEPT ![q] = CommittedOn(u)]
      /\ UNCHANGED got

\* (Fault) A dirty read of an open transaction.
VisibleDirty(u, t) ==
  IF lock[u] = NoRequest THEN db[u].kids[t] ELSE staged[lock[u]].kids[t]

\* What a statement outside any transaction sees of a child table.
Visible(u, t) == db[u].kids[t]

\* loadSkills, loadInventory, LoadGear, ... loadNotebook, one after the other.
ReadKid(q) ==
  LET t == got[q] + 1
      u == ReaderUser(q)
  IN  /\ rpc[q] = "kids"
      /\ t <= Tables
      /\ FreeConnection
      /\ got' = [got EXCEPT ![q] = t]
      /\ view' = [view EXCEPT ![q].kids[t] = Visible(u, t)]
      /\ rpc' = [rpc EXCEPT ![q] = IF t = Tables THEN "done" ELSE "kids"]
      /\ UNCHANGED since

\* A statement fails or the client goes away.
ReadFail(q) ==
  /\ rpc[q] \in {"row", "kids"}
  /\ rpc' = [rpc EXCEPT ![q] = "failed"]
  /\ UNCHANGED <<view, got, since>>

Read(q) == ReadRow(q) \/ ReadKid(q)

RNext == \/ Next /\ UNCHANGED rvars
         \/ \E q \in Reader : /\ ReadArrive(q) \/ Read(q) \/ ReadFail(q)
                              /\ UNCHANGED vars

RSpec == /\ RInit /\ [][RNext]_<<vars, rvars>>
         /\ \A r \in Request : WF_<<vars, rvars>>(Progress(r) /\ UNCHANGED rvars)
         /\ \A q \in Reader : WF_<<vars, rvars>>(Read(q) /\ UNCHANGED vars)
-----------------------------------------------------------------------------
\* A read that no commit on its player overlapped shows exactly the committed
\* player, whatever transactions were open or rolled back meanwhile.
QuietReadIsExact ==
  \A q \in Reader :
    LET u == ReaderUser(q)
    IN  rpc[q] = "done" /\ since[q] = CommittedOn(u) => view[q] = db[u]

\* Every call the server takes up ends.  A read waits for connections only,
\* never for a row lock, and the lock waiters that hold every connection let go
\* of them, however few the pool has: nobody waits for anybody in a circle.
EveryCallEnds ==
  /\ EveryRequestEnds
  /\ \A q \in Reader : (rpc[q] = "row") ~> (rpc[q] \in {"done", "failed"})
=============================================================================
