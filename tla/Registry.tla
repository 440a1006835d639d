------------------------------ MODULE Registry ------------------------------
(***************************************************************************)
(* What creating a player promises: one player per GitHub user, one user   *)
(* per dev name, and refusals with a cause.  The cause is the one named,   *)
(* except that a request that met a conflict and could not look it up is   *)
(* told that the name is taken, be it the user's own player that was in    *)
(* the way.  Onboarding shows how the code keeps it without a lock.        *)
(***************************************************************************)
CONSTANTS User, Name, Request, Nobody,
          UserOf(_),   \* the user who asks
          NameOf(_),   \* the dev name asked for, normalised
          Valid(_)     \* name, class, body and looks pass the form's checks

VARIABLES players,  \* the dev name of each user's player, or Nobody
          answers   \* what each request has been answered

vars == <<players, answers>>

Init == /\ players = [u \in User |-> Nobody]
        /\ answers = [r \in Request |-> "none"]

Answer(r, a) == answers[r] = "none" /\ answers' = [answers EXCEPT ![r] = a]

Taken(n) == \E u \in User : players[u] = n

\* A player is made and the request told so; or an error, or nothing, is heard.
Create(r) == /\ \E a \in {"created", "failed", "lost"} : Answer(r, a)
             /\ Valid(r)
             /\ players[UserOf(r)] = Nobody
             /\ ~Taken(NameOf(r))
             /\ players' = [players EXCEPT ![UserOf(r)] = NameOf(r)]

Exists(r) == /\ Answer(r, "exists")
             /\ players[UserOf(r)] # Nobody
             /\ UNCHANGED players

NameTaken(r) == /\ Answer(r, "nameTaken")
                /\ Valid(r)
                /\ players[UserOf(r)] = Nobody
                /\ Taken(NameOf(r))
                /\ UNCHANGED players

\* The same 409, but nobody could look up whose row it was.
Guess(r) == /\ Answer(r, "guessed")
            /\ Valid(r)
            /\ players[UserOf(r)] # Nobody \/ Taken(NameOf(r))
            /\ UNCHANGED players

Invalid(r) == /\ Answer(r, "invalid")
              /\ ~Valid(r)
              /\ UNCHANGED players

\* Nothing is made, and an error or nothing is answered.
Fail(r) == /\ \E a \in {"failed", "lost"} : Answer(r, a)
           /\ UNCHANGED players

Next == \E r \in Request : \/ Create(r) \/ Exists(r) \/ NameTaken(r)
                           \/ Guess(r) \/ Invalid(r) \/ Fail(r)

Spec == Init /\ [][Next]_vars
=============================================================================
