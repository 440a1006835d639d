---------------------------- MODULE PlayerStore ----------------------------
(***************************************************************************)
(* What the API promises about a player (decision AD-004): a request that  *)
(* changes a player takes effect at one instant, on the player as it was   *)
(* at that instant, or has no effect at all; and the player it answers is  *)
(* the one it left in the database.  Nothing is said of locks,             *)
(* transactions, connections or memory: PlayerLock shows how the code      *)
(* keeps the promise.                                                      *)
(***************************************************************************)
CONSTANTS User,          \* the GitHub users
          Request,       \* the requests that mutate a player, each used once
          State,         \* the states of a player: its row and child rows
          NoPlayer,      \* the user has not created a player yet
          UserOf(_),     \* the user of a request
          Accepts(_, _), \* a request's handler accepts this player state
          After(_, _)    \* the player state an accepting handler leaves

VARIABLES store,   \* the player of each user
          fate,    \* what has become of each request
          answer   \* the player each applied request has to answer

vars == <<store, fate, answer>>

Init == /\ store \in [User -> State \cup {NoPlayer}]
        /\ fate = [r \in Request |-> "open"]
        /\ answer = [r \in Request |-> NoPlayer]

\* The request takes effect, on the player of this very moment.
Apply(r) ==
  LET u == UserOf(r)
  IN  /\ fate[r] = "open"
      /\ store[u] # NoPlayer
      /\ Accepts(r, store[u])
      /\ store' = [store EXCEPT ![u] = After(r, store[u])]
      /\ fate' = [fate EXCEPT ![r] = "applied"]
      /\ answer' = [answer EXCEPT ![r] = After(r, store[u])]

\* Requests that are refused, fail or are cut off leave no trace.
Drop(S) ==
  /\ \A r \in S : fate[r] = "open"
  /\ fate' = [r \in Request |-> IF r \in S THEN "dropped" ELSE fate[r]]
  /\ UNCHANGED <<store, answer>>

Next == \/ \E r \in Request : Apply(r)
        \/ \E S \in SUBSET Request : Drop(S)

Spec == Init /\ [][Next]_vars
=============================================================================
