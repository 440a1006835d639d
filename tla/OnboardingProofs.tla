-------------------------- MODULE OnboardingProofs --------------------------
(***************************************************************************)
(* Proofs about Onboarding, for any users, names and requests.  The        *)
(* invariant that makes the race safe says what an open transaction's      *)
(* index entries stand for: whoever has entered a key is alone with it,    *)
(* and no committed row has it.                                            *)
(***************************************************************************)
EXTENDS Onboarding, TLAPS

\* The holder of a user's index entry is alone, and the user has no player.
UserKeys ==
  \A r \in Request : HoldsUserKey(r) =>
    /\ Valid(r)
    /\ players[UserOf(r)] = Nobody
    /\ \A s \in Request : HoldsUserKey(s) /\ UserOf(s) = UserOf(r) => s = r

\* The holder of a name's index entry is alone, and nobody plays under it.
NameKeys ==
  \A r \in Request : HoldsNameKey(r) =>
    /\ ~Taken(NameOf(r))
    /\ \A s \in Request : HoldsNameKey(s) /\ NameOf(s) = NameOf(r) => s = r

\* Only a valid form gets past the check; error 23505 has a cause among the
\* committed rows, and it stays.
Causes ==
  \A r \in Request :
    /\ pc[r] \in {"userKey", "created"} => Valid(r)
    /\ pc[r] = "conflict" =>
         Valid(r) /\ (players[UserOf(r)] # Nobody \/ Taken(NameOf(r)))

Inv == TypeOK /\ UserKeys /\ NameKeys /\ Causes /\ NamesUnique /\ OneCreation

LEMMA InitInv == Init => Inv
BY DEF Init, Inv, TypeOK, UserKeys, NameKeys, Causes, NamesUnique, OneCreation,
       HoldsUserKey, HoldsNameKey, Open, Final

-----------------------------------------------------------------------------
\* A request that gets no index entry and commits nothing disturbs nobody.
LEMMA Walk ==
  ASSUME Inv, NEW r \in Request,
         NEW to \in {"check", "userKey", "conflict"} \cup (Final \ {"created"}),
         pc' = [pc EXCEPT ![r] = to], pc[r] # "created", players' = players,
         to = "userKey" => Valid(r),
         to = "conflict" =>
           Valid(r) /\ (players[UserOf(r)] # Nobody \/ Taken(NameOf(r)))
  PROVE  Inv'
<1>1. TypeOK'
  BY DEF Inv, TypeOK, Open, Final
<1>2. UserKeys' /\ NameKeys'
  BY DEF Inv, TypeOK, UserKeys, NameKeys, HoldsUserKey, HoldsNameKey, Taken, Final
<1>3. Causes'
  BY DEF Inv, TypeOK, Causes, Taken
<1>4. NamesUnique' /\ OneCreation'
  BY DEF Inv, TypeOK, NamesUnique, OneCreation, Final
<1>5. QED BY <1>1, <1>2, <1>3, <1>4 DEF Inv

LEMMA InsertUserKeyInv ==
  ASSUME Inv, NEW r \in Request, InsertUserKey(r)
  PROVE  Inv'
<1>1. CASE Goto(r, "userKey", "conflict") /\ players[UserOf(r)] # Nobody
  BY <1>1, Walk DEF InsertUserKey, Goto, Inv, Causes
<1>2. CASE Goto(r, "userKey", "nameKey") /\ players[UserOf(r)] = Nobody
  <2>1. /\ pc' = [pc EXCEPT ![r] = "nameKey"] /\ pc[r] = "userKey" /\ Valid(r)
        /\ players' = players
        /\ \A s \in Request \ {r} : UserOf(s) = UserOf(r) => ~HoldsUserKey(s)
    BY <1>2 DEF InsertUserKey, Goto, Inv, Causes
  <2>2. TypeOK'
    BY <2>1 DEF Inv, TypeOK, Open
  <2>3. UserKeys'
    BY <1>2, <2>1 DEF Inv, TypeOK, UserKeys, HoldsUserKey
  <2>4. NameKeys' /\ Causes' /\ NamesUnique' /\ OneCreation'
    BY <2>1 DEF Inv, TypeOK, NameKeys, HoldsNameKey, Causes, Taken, NamesUnique, OneCreation
  <2>5. QED BY <2>2, <2>3, <2>4 DEF Inv
<1>3. QED BY <1>1, <1>2 DEF InsertUserKey

LEMMA InsertNameKeyInv ==
  ASSUME Inv, NEW r \in Request, InsertNameKey(r)
  PROVE  Inv'
<1>1. CASE Goto(r, "nameKey", "conflict") /\ Taken(NameOf(r))
  <2>1. Valid(r)
    BY <1>1 DEF Goto, Inv, UserKeys, HoldsUserKey
  <2>2. QED BY <1>1, <2>1, Walk DEF InsertNameKey, Goto
<1>2. CASE Goto(r, "nameKey", "items") /\ ~Taken(NameOf(r))
  <2>1. /\ pc' = [pc EXCEPT ![r] = "items"] /\ pc[r] = "nameKey"
        /\ players' = players
        /\ \A s \in Request \ {r} : HoldsNameKey(s) => NameOf(s) # NameOf(r)
    BY <1>2 DEF InsertNameKey, Goto
  <2>2. TypeOK'
    BY <2>1 DEF Inv, TypeOK, Open
  <2>3. UserKeys'
    BY <2>1 DEF Inv, TypeOK, UserKeys, HoldsUserKey
  <2>4. NameKeys'
    BY <1>2, <2>1 DEF Inv, TypeOK, NameKeys, HoldsNameKey, Taken
  <2>5. Causes' /\ NamesUnique' /\ OneCreation'
    BY <2>1 DEF Inv, TypeOK, Causes, Taken, NamesUnique, OneCreation
  <2>6. QED BY <2>2, <2>3, <2>4, <2>5 DEF Inv
<1>3. QED BY <1>1, <1>2 DEF InsertNameKey

\* A commit adds the one row its two index entries stand for.
LEMMA RecordInv ==
  ASSUME Inv, NEW r \in Request, NEW answer \in {"created", "failed", "lost"},
         Record(r, answer)
  PROVE  Inv'
<1> DEFINE u == UserOf(r)
           n == NameOf(r)
<1>1. /\ pc[r] = "items" /\ pc' = [pc EXCEPT ![r] = answer]
      /\ players' = [players EXCEPT ![u] = n]
  BY DEF Record, Goto
<1>2. HoldsUserKey(r) /\ HoldsNameKey(r)
  BY <1>1 DEF HoldsUserKey, HoldsNameKey
<1>3. /\ u \in User /\ n \in Name /\ n # Nobody /\ players[u] = Nobody /\ ~Taken(n)
      /\ \A s \in Request : HoldsUserKey(s) /\ UserOf(s) = u => s = r
      /\ \A s \in Request : HoldsNameKey(s) /\ NameOf(s) = n => s = r
  BY <1>2, OnboardingAssumption DEF Inv, UserKeys, NameKeys
<1>4. /\ players'[u] = n
      /\ \A v \in User : v # u => players'[v] = players[v]
      /\ \A v \in User : players[v] # Nobody => players'[v] # Nobody
      /\ \A m : Taken(m)' <=> m = n \/ (Taken(m) /\ m # Nobody)
                              \/ (m = Nobody /\ \E v \in User : v # u /\ players[v] = m)
  BY <1>1, <1>3 DEF Inv, TypeOK, Taken
<1>5. TypeOK'
  BY <1>1, <1>3 DEF Inv, TypeOK, Final
<1>6. UserKeys'
  <2> SUFFICES ASSUME NEW s \in Request, HoldsUserKey(s)'
               PROVE  /\ Valid(s) /\ players'[UserOf(s)] = Nobody
                      /\ \A t \in Request : HoldsUserKey(t)' /\ UserOf(t) = UserOf(s) => t = s
    BY DEF UserKeys
  <2>1. s # r /\ HoldsUserKey(s)
    BY <1>1 DEF HoldsUserKey, Inv, TypeOK
  <2>2. UserOf(s) # u /\ UserOf(s) \in User
    BY <1>3, <2>1, OnboardingAssumption
  <2>3. \A t \in Request : HoldsUserKey(t)' => HoldsUserKey(t)
    BY <1>1 DEF HoldsUserKey, Inv, TypeOK
  <2>4. QED BY <1>4, <2>1, <2>2, <2>3 DEF Inv, UserKeys
<1>7. NameKeys'
  <2> SUFFICES ASSUME NEW s \in Request, HoldsNameKey(s)'
               PROVE  /\ ~Taken(NameOf(s))'
                      /\ \A t \in Request : HoldsNameKey(t)' /\ NameOf(t) = NameOf(s) => t = s
    BY DEF NameKeys
  <2>1. s # r /\ HoldsNameKey(s) /\ HoldsUserKey(s)
    BY <1>1 DEF HoldsNameKey, HoldsUserKey, Inv, TypeOK
  <2>2. NameOf(s) # n /\ NameOf(s) \in Name /\ ~Taken(NameOf(s))
    BY <1>3, <2>1, OnboardingAssumption DEF Inv, UserKeys, NameKeys
  <2>3. \A t \in Request : HoldsNameKey(t)' => HoldsNameKey(t)
    BY <1>1 DEF HoldsNameKey, Inv, TypeOK
  <2>4. ~Taken(NameOf(s))'
    BY <1>4, <2>2, OnboardingAssumption
  <2>5. QED BY <2>1, <2>3, <2>4 DEF Inv, NameKeys
<1>8. Causes'
  <2> SUFFICES ASSUME NEW s \in Request
               PROVE  /\ pc'[s] \in {"userKey", "created"} => Valid(s)
                      /\ pc'[s] = "conflict" => /\ Valid(s)
                                                /\ players'[UserOf(s)] # Nobody
                                                   \/ Taken(NameOf(s))'
    BY DEF Causes
  <2>1. CASE s = r
    BY <1>1, <1>2, <2>1 DEF Inv, TypeOK, UserKeys
  <2>2. CASE s # r
    <3>1. pc'[s] = pc[s]
      BY <1>1, <2>2 DEF Inv, TypeOK
    <3>2. Valid(s) => NameOf(s) # Nobody /\ UserOf(s) \in User
      BY OnboardingAssumption
    <3>3. Taken(NameOf(s)) /\ NameOf(s) # Nobody => Taken(NameOf(s))'
      BY <1>4
    <3>4. QED BY <1>4, <3>1, <3>2, <3>3 DEF Inv, Causes
  <2>3. QED BY <2>1, <2>2
<1>9. NamesUnique'
  BY <1>3, <1>4 DEF Inv, NamesUnique, Taken
<1>10. OneCreation'
  <2> SUFFICES ASSUME NEW s \in Request, pc'[s] = "created"
               PROVE  /\ players'[UserOf(s)] = NameOf(s)
                      /\ \A t \in Request :
                           pc'[t] = "created" /\ UserOf(t) = UserOf(s) => t = s
    BY DEF OneCreation
  <2>1. \A t \in Request : pc'[t] = "created" /\ t # r =>
          /\ pc[t] = "created" /\ players[UserOf(t)] = NameOf(t)
          /\ NameOf(t) # Nobody => UserOf(t) # u
    BY <1>1, <1>3 DEF Inv, TypeOK, OneCreation
  <2>2. \A t \in Request : pc[t] = "created" => NameOf(t) # Nobody
    BY OnboardingAssumption DEF Inv, Causes
  <2>3. QED BY <1>4, <2>1, <2>2, OnboardingAssumption DEF Inv, OneCreation
<1>11. QED BY <1>5, <1>6, <1>7, <1>8, <1>9, <1>10 DEF Inv

-----------------------------------------------------------------------------
LEMMA StepInv == Inv /\ [Next]_vars => Inv'
<1> SUFFICES ASSUME Inv, [Next]_vars PROVE Inv'
  OBVIOUS
<1>1. ASSUME NEW r \in Request, Arrive(r) PROVE Inv'
  BY <1>1, Walk DEF Arrive, Goto
<1>2. ASSUME NEW r \in Request, Check(r) PROVE Inv'
  BY <1>2, Walk DEF Check, Goto, Final
<1>3. ASSUME NEW r \in Request, InsertUserKey(r) PROVE Inv'
  BY <1>3, InsertUserKeyInv
<1>4. ASSUME NEW r \in Request, InsertNameKey(r) PROVE Inv'
  BY <1>4, InsertNameKeyInv
<1>5. ASSUME NEW r \in Request, Commit(r) \/ CommitUnseen(r) PROVE Inv'
  BY <1>5, RecordInv DEF Commit, CommitUnseen
<1>6. ASSUME NEW r \in Request, Explain(r) \/ ExplainBlind(r) PROVE Inv'
  BY <1>6, Walk DEF Explain, ExplainBlind, Goto, Final
<1>7. ASSUME NEW r \in Request, Fail(r) \/ Lose(r) PROVE Inv'
  BY <1>7, Walk DEF Fail, Lose, Final, Open
<1>8. CASE UNCHANGED vars
  BY <1>8 DEF vars, Inv, TypeOK, UserKeys, NameKeys, Causes, NamesUnique,
              OneCreation, HoldsUserKey, HoldsNameKey, Taken
<1>9. QED
  BY <1>1, <1>2, <1>3, <1>4, <1>5, <1>6, <1>7, <1>8 DEF Next, Progress, Mishap

LEMMA InvAlways == Spec => []Inv
<1>1. QED BY InitInv, StepInv, PTL DEF Spec

\* Two users never play under one dev name.
THEOREM NamesStayUnique == Spec => []NamesUnique
<1>1. Inv => NamesUnique
  BY DEF Inv
<1>2. QED BY <1>1, InvAlways, PTL

\* Of a user's requests at most one is answered 201, and its name stands.
THEOREM OneCreationPerUser == Spec => []OneCreation
<1>1. Inv => OneCreation
  BY DEF Inv
<1>2. QED BY <1>1, InvAlways, PTL
-----------------------------------------------------------------------------
\* A step that answers nothing is not seen, one that answers gives one answer.
LEMMA AnswerGiven ==
  ASSUME Inv, NEW r \in Request, NEW from, NEW to, Goto(r, from, to),
         from \notin Final
  PROVE  /\ to \in Final => Atomic!Answer(r, to)
         /\ to \notin Final => Answers' = Answers
BY DEF Goto, Atomic!Answer, Answers, Inv, TypeOK

LEMMA StepRefines == Inv /\ [Next]_vars => [Atomic!Next]_(Atomic!vars)
<1> SUFFICES ASSUME Inv, [Next]_vars PROVE [Atomic!Next]_(Atomic!vars)
  OBVIOUS
<1> USE DEF Atomic!Next
<1>1. ASSUME players' = players, Answers' = Answers
      PROVE  [Atomic!Next]_(Atomic!vars)
  BY <1>1 DEF Atomic!vars
<1>2. ASSUME NEW r \in Request, Arrive(r) PROVE [Atomic!Next]_(Atomic!vars)
  BY <1>1, <1>2, AnswerGiven DEF Arrive, Final
<1>3. ASSUME NEW r \in Request, Check(r) PROVE [Atomic!Next]_(Atomic!vars)
  <2>1. CASE Goto(r, "check", "exists") /\ players[UserOf(r)] # Nobody
    <3>1. Atomic!Exists(r)
      BY <1>3, <2>1, AnswerGiven DEF Check, Final, Atomic!Exists
    <3>2. QED BY <3>1
  <2>2. CASE Goto(r, "check", "invalid") /\ ~Valid(r)
    <3>1. Atomic!Invalid(r)
      BY <1>3, <2>2, AnswerGiven DEF Check, Final, Atomic!Invalid
    <3>2. QED BY <3>1
  <2>3. CASE Goto(r, "check", "userKey")
    BY <1>1, <1>3, <2>3, AnswerGiven DEF Check, Final
  <2>4. QED BY <1>3, <2>1, <2>2, <2>3 DEF Check
<1>4. ASSUME NEW r \in Request, InsertUserKey(r) \/ InsertNameKey(r)
      PROVE  [Atomic!Next]_(Atomic!vars)
  BY <1>1, <1>4, AnswerGiven DEF InsertUserKey, InsertNameKey, Final
<1>5. ASSUME NEW r \in Request, Commit(r) \/ CommitUnseen(r)
      PROVE  [Atomic!Next]_(Atomic!vars)
  <2>1. PICK answer \in {"created", "failed", "lost"} : Record(r, answer)
    BY <1>5 DEF Commit, CommitUnseen
  <2>2. HoldsUserKey(r) /\ HoldsNameKey(r)
    BY <2>1 DEF Record, Goto, HoldsUserKey, HoldsNameKey
  <2>3. Valid(r) /\ players[UserOf(r)] = Nobody /\ ~Taken(NameOf(r))
    BY <2>2 DEF Inv, UserKeys, NameKeys
  <2>4. Atomic!Answer(r, answer)
    BY <2>1, AnswerGiven DEF Record, Final
  <2>5. Atomic!Create(r)
    BY <2>1, <2>3, <2>4 DEF Record, Atomic!Create, Atomic!Taken, Taken
  <2>6. QED BY <2>5
<1>6. ASSUME NEW r \in Request, Explain(r) PROVE [Atomic!Next]_(Atomic!vars)
  <2>1. CASE Goto(r, "conflict", "exists") /\ players[UserOf(r)] # Nobody
    <3>1. Atomic!Exists(r)
      BY <1>6, <2>1, AnswerGiven DEF Explain, Final, Atomic!Exists
    <3>2. QED BY <3>1
  <2>2. CASE Goto(r, "conflict", "nameTaken") /\ players[UserOf(r)] = Nobody
    <3>1. Valid(r) /\ Taken(NameOf(r))
      BY <2>2 DEF Goto, Inv, Causes
    <3>2. Atomic!NameTaken(r)
      BY <1>6, <2>2, <3>1, AnswerGiven
      DEF Explain, Final, Atomic!NameTaken, Atomic!Taken, Taken
    <3>3. QED BY <3>2
  <2>3. QED BY <1>6, <2>1, <2>2 DEF Explain
<1>7. ASSUME NEW r \in Request, ExplainBlind(r) PROVE [Atomic!Next]_(Atomic!vars)
  <2>1. Valid(r) /\ (players[UserOf(r)] # Nobody \/ Taken(NameOf(r)))
    BY <1>7 DEF ExplainBlind, Goto, Inv, Causes
  <2>2. Atomic!Guess(r)
    BY <1>7, <2>1, AnswerGiven
    DEF ExplainBlind, Final, Atomic!Guess, Atomic!Taken, Taken
  <2>3. QED BY <2>2
<1>8. ASSUME NEW r \in Request, Fail(r) \/ Lose(r) PROVE [Atomic!Next]_(Atomic!vars)
  <2>1. PICK a \in {"failed", "lost"} : Goto(r, pc[r], a) /\ pc[r] \notin Final
    BY <1>8 DEF Fail, Lose, Goto, Open, Final
  <2>2. Atomic!Fail(r)
    BY <1>8, <2>1, AnswerGiven DEF Fail, Lose, Final, Atomic!Fail
  <2>3. QED BY <2>2
<1>9. CASE UNCHANGED vars
  BY <1>1, <1>9 DEF vars, Answers
<1>10. QED
  BY <1>2, <1>3, <1>4, <1>5, <1>6, <1>7, <1>8, <1>9 DEF Next, Progress, Mishap

\* The two indexes and the second Get hide the race from the players: whatever
\* fails or is lost, 201 is answered by the step that makes the player, and
\* player_exists only to a user who has one.  dev_name_taken is true when the
\* second Get worked; when it failed, it is answered to a valid request whose
\* user has a player or whose name is taken, and nobody asked which.
THEOREM OnboardingImplementsRegistry == Spec => ImplementsRegistry
<1>1. Init => Atomic!Init
  BY DEF Init, Atomic!Init, Answers, Final
<1>2. QED BY <1>1, StepRefines, InvAlways, PTL
          DEF Spec, ImplementsRegistry, Atomic!Spec
=============================================================================
