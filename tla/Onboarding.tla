----------------------------- MODULE Onboarding -----------------------------
(***************************************************************************)
(* player.Create: the check-then-insert of onboarding.  Two requests can   *)
(* pass the check together; the two unique indexes of players decide the   *)
(* race.  An INSERT enters its row in the index on github_user_id first    *)
(* and in the index on upper(dev_name) next, and at each of them waits for *)
(* a transaction that has entered the same key and has not ended.  The     *)
(* loser gets error 23505 and reads again to learn which index refused it; *)
(* if that second Get fails for any reason, the answer is dev_name_taken.  *)
(***************************************************************************)
EXTENDS Naturals

CONSTANTS User, Name, Request, Nobody,
          UserOf(_),   \* the user whose session sent the request
          NameOf(_),   \* what NormalizeDevName makes of the name sent
          Valid(_)     \* the name, the class, the body and the looks pass

ASSUME OnboardingAssumption ==
  /\ Nobody \notin Name
  /\ \A r \in Request : UserOf(r) \in User /\ Valid(r) \in BOOLEAN
  /\ \A r \in Request : Valid(r) => NameOf(r) \in Name

VARIABLES pc,      \* where each request is; a final value is its answer
          players  \* the committed dev name of each user, or Nobody

vars == <<pc, players>>

\* The answers: 201, player_exists, dev_name_taken after a second Get that found
\* no player ("nameTaken") or that failed ("guessed"), 422, 500; "lost" is none.
Final == {"created", "exists", "nameTaken", "guessed", "invalid", "failed", "lost"}
Open  == {"check", "userKey", "nameKey", "items", "conflict"}

Init == /\ pc = [r \in Request |-> "idle"]
        /\ players = [u \in User |-> Nobody]

Goto(r, from, to) == pc[r] = from /\ pc' = [pc EXCEPT ![r] = to]

\* (Fault) A transaction that hit 23505 is left open, its index entries too.
HoldsUserKeyForever(r) == pc[r] \in {"nameKey", "items", "nameTaken", "guessed"}

\* The uncommitted index entries of a request's open transaction.
HoldsUserKey(r) == pc[r] \in {"nameKey", "items"}
HoldsNameKey(r) == pc[r] = "items"

Arrive(r) == Goto(r, "idle", "check") /\ UNCHANGED players

\* Get finds a player, or the form is checked.
Check(r) ==
  /\ \/ Goto(r, "check", "exists")  /\ players[UserOf(r)] # Nobody
     \/ Goto(r, "check", "invalid") /\ players[UserOf(r)] = Nobody /\ ~Valid(r)
     \/ Goto(r, "check", "userKey") /\ players[UserOf(r)] = Nobody /\ Valid(r)
  /\ UNCHANGED players

\* The INSERT reaches the index on github_user_id.
InsertUserKey(r) ==
  /\ \A s \in Request \ {r} : UserOf(s) = UserOf(r) => ~HoldsUserKey(s)
  /\ \/ Goto(r, "userKey", "conflict") /\ players[UserOf(r)] # Nobody
     \/ Goto(r, "userKey", "nameKey")  /\ players[UserOf(r)] = Nobody
  /\ UNCHANGED players

Taken(n) == \E u \in User : players[u] = n

\* (Fault) Only committed names are looked up, as the check before it does.
InsertNameKeyNoWait(r) ==
  /\ \/ Goto(r, "nameKey", "conflict") /\ Taken(NameOf(r))
     \/ Goto(r, "nameKey", "items")    /\ ~Taken(NameOf(r))
  /\ UNCHANGED players

\* The INSERT reaches the index on upper(dev_name).
InsertNameKey(r) ==
  /\ \A s \in Request \ {r} : HoldsNameKey(s) => NameOf(s) # NameOf(r)
  /\ \/ Goto(r, "nameKey", "conflict") /\ Taken(NameOf(r))
     \/ Goto(r, "nameKey", "items")    /\ ~Taken(NameOf(r))
  /\ UNCHANGED players

\* COMMIT makes the row and its keys visible, whoever still hears of it.
Record(r, answer) ==
  /\ Goto(r, "items", answer)
  /\ players' = [players EXCEPT ![UserOf(r)] = NameOf(r)]

\* The starting items are added in the same transaction, and COMMIT.
Commit(r) == Record(r, "created")

\* The server commits but tx.Commit returns an error, or the process dies.
CommitUnseen(r) == \E answer \in {"failed", "lost"} : Record(r, answer)

\* (Fault) 23505 is taken to mean the name, without reading again.
ExplainByName(r) == Goto(r, "conflict", "nameTaken") /\ UNCHANGED players

\* After 23505 the transaction is rolled back and Get tells the two apart.
Explain(r) ==
  /\ \/ Goto(r, "conflict", "exists")    /\ players[UserOf(r)] # Nobody
     \/ Goto(r, "conflict", "nameTaken") /\ players[UserOf(r)] = Nobody
  /\ UNCHANGED players

\* Only getErr == nil is asked: a second Get that fails, by a statement or a
\* lost connection, answers dev_name_taken whoever has the player or the name.
ExplainBlind(r) == Goto(r, "conflict", "guessed") /\ UNCHANGED players

\* A statement before COMMIT fails, or the client goes away and cancels it: 500.
Fail(r) ==
  /\ pc[r] \in Open \ {"conflict"}
  /\ pc' = [pc EXCEPT ![r] = "failed"]
  /\ UNCHANGED players

\* The process dies: nothing is answered and the open transaction is undone.
Lose(r) ==
  /\ pc[r] \in Open
  /\ pc' = [pc EXCEPT ![r] = "lost"]
  /\ UNCHANGED players

Progress(r) == \/ Check(r) \/ InsertUserKey(r) \/ InsertNameKey(r)
               \/ Commit(r) \/ Explain(r)

Mishap(r) == CommitUnseen(r) \/ ExplainBlind(r) \/ Fail(r) \/ Lose(r)

Next == \E r \in Request : Arrive(r) \/ Progress(r) \/ Mishap(r)

Spec == Init /\ [][Next]_vars

\* Statements finish; a click, a failure or a crash is never owed.
FairSpec == Spec /\ \A r \in Request : WF_vars(Progress(r))
-----------------------------------------------------------------------------
TypeOK == /\ pc \in [Request -> {"idle"} \cup Open \cup Final]
          /\ players \in [User -> Name \cup {Nobody}]

\* No two users play under one dev name, however their requests interleave.
NamesUnique ==
  \A u, v \in User : players[u] = players[v] /\ players[u] # Nobody => u = v

\* Of all the requests a user sends, from any number of tabs, at most one is
\* answered 201, and the player keeps the name that one asked for.
OneCreation ==
  \A r \in Request : pc[r] = "created" =>
    /\ players[UserOf(r)] = NameOf(r)
    /\ \A s \in Request : pc[s] = "created" /\ UserOf(s) = UserOf(r) => s = r

Answers == [r \in Request |-> IF pc[r] \in Final THEN pc[r] ELSE "none"]

\* The race is invisible: a request is answered 201 by the step that makes its
\* player and player_exists only to a user who has one; dev_name_taken is true
\* if the second Get worked, and if it failed it still follows a real conflict,
\* with the user's own player or with the name; only 500 and silence leave open
\* whether the player was created.
Atomic == INSTANCE Registry WITH answers <- Answers
ImplementsRegistry == Atomic!Spec

\* Requests that wait for one another at the indexes never wait in a circle.
EveryCreateEnds == \A r \in Request : (pc[r] = "check") ~> (pc[r] \in Final)
=============================================================================
