------------------------------- MODULE Avatar -------------------------------
(***************************************************************************)
(* The looks of one player: an option picked for each part of the hero,    *)
(* options bought for money, and the body, changed with a redesign token.  *)
(* Only the picks are stored; what the hero wears is resolved from them on *)
(* every read, for the body of the moment.  A change of body keeps picks   *)
(* the new body cannot wear, so what is stored and what is worn differ for *)
(* as long as that body lasts.  Each handler runs in one locked            *)
(* transaction (PlayerLock) and is one step.                               *)
(***************************************************************************)
EXTENDS Integers, FiniteSetsExt

CONSTANTS Part, Option, Body,
          NoOption,       \* no pick for a part
          PartOf(_),      \* the part an option is for
          Bodies(_),      \* the bodies that may wear an option
          GearOnly,       \* the options only equipped gear shows
          Price(_),       \* of an option, 0 for a free one
          Default(_, _),  \* what a body wears on a part it has no pick for
          Coins, Tokens   \* what the player can spend, bounds of the model

\* TestCatalog_AvatarReferencesCatalog: every default can be picked, for free,
\* and what only gear shows has no price.
ASSUME AvatarAssumption ==
  /\ NoOption \notin Option
  /\ GearOnly \subseteq Option /\ \A o \in GearOnly : Price(o) = 0
  /\ \A o \in Option : PartOf(o) \in Part /\ Bodies(o) \subseteq Body /\ Price(o) \in Nat
  /\ \A b \in Body, p \in Part : LET d == Default(b, p)
                                 IN  /\ d \in Option \ GearOnly /\ PartOf(d) = p
                                     /\ b \in Bodies(d) /\ Price(d) = 0
  /\ Coins \in Nat /\ Tokens \in Nat

VARIABLES body,    \* players.body
          picks,   \* players.appearance: the pick for each part, or NoOption
          looks,   \* player_looks: the priced options bought
          purse,   \* the balance options are paid from
          tokens,  \* the redesign tokens in the bag
          left     \* what each body last wore where nothing was picked since (ghost)

avatarVars == <<body, picks, looks, purse, tokens, left>>

Fits(o, p, b) == PartOf(o) = p /\ o \notin GearOnly /\ b \in Bodies(o)

\* (Fault) The body is not asked.
ResolveAnyBody(b, ps) ==
  [p \in Part |-> IF ps[p] \in Option /\ PartOf(ps[p]) = p THEN ps[p] ELSE Default(b, p)]

\* The pick for each part while the body can wear it, its default otherwise.
Resolve(b, ps) ==
  [p \in Part |-> IF ps[p] \in Option /\ Fits(ps[p], p, b) THEN ps[p] ELSE Default(b, p)]

Appearance == Resolve(body, picks)

MayChoose(p, o, b, owned) == Fits(o, p, b) /\ (Price(o) > 0 => o \in owned)

\* A picked part is no longer what a body left behind.
Picked(parts) == left' = [b \in Body |-> [p \in Part |-> IF p \in parts THEN NoOption
                                                                       ELSE left[b][p]]]

\* The looks the form of a new player may come with, and the tokens that the
\* shop will have sold by the first change of body.
AvatarInit == /\ body \in Body
              /\ picks \in [Part -> Option \cup {NoOption}]
              /\ \A p \in Part : picks[p] # NoOption => MayChoose(p, picks[p], body, {})
              /\ looks = {} /\ purse = Coins /\ tokens = Tokens
              /\ left = [b \in Body |-> [p \in Part |-> NoOption]]

\* What a request may ask for: an option for each of some parts.
Ask == UNION {[parts -> Option] : parts \in SUBSET Part \ {{}}}

\* Every pick is saved, or none if one of them is refused.
Update(ask) ==
  /\ \A p \in DOMAIN ask : MayChoose(p, ask[p], body, looks)
  /\ picks' = [p \in Part |-> IF p \in DOMAIN ask THEN ask[p] ELSE picks[p]]
  /\ Picked(DOMAIN ask)
  /\ UNCHANGED <<body, looks, purse, tokens>>

\* A priced option is paid for, kept and worn at once.
Buy(o) ==
  /\ Price(o) > 0
  /\ body \in Bodies(o)
  /\ o \notin looks
  /\ purse >= Price(o)
  /\ purse' = purse - Price(o)
  /\ looks' = looks \cup {o}
  /\ picks' = [picks EXCEPT ![PartOf(o)] = o]
  /\ Picked({PartOf(o)})
  /\ UNCHANGED <<body, tokens>>

\* (Fault) The picks that the new body cannot wear are dropped.
SetBodyTidy(b) ==
  /\ body' = b
  /\ picks' = [p \in Part |-> IF picks[p] \in Option /\ b \in Bodies(picks[p])
                              THEN picks[p] ELSE NoOption]

SetBody(b) == body' = b /\ UNCHANGED picks

\* A token for another body; the picks stay.
ChangeBody(b) ==
  /\ b # body
  /\ tokens >= 1
  /\ tokens' = tokens - 1
  /\ SetBody(b)
  /\ left' = [left EXCEPT ![body] = Appearance]
  /\ UNCHANGED <<looks, purse>>

AvatarNext == \/ \E ask \in Ask : Update(ask)
              \/ \E o \in Option : Buy(o)
              \/ \E b \in Body : ChangeBody(b)

AvatarSpec == AvatarInit /\ [][AvatarNext]_avatarVars
-----------------------------------------------------------------------------
AvatarType == /\ body \in Body
              /\ picks \in [Part -> Option \cup {NoOption}]
              /\ looks \subseteq Option
              /\ purse \in 0 .. Coins /\ tokens \in 0 .. Tokens
              /\ left \in [Body -> [Part -> Option \cup {NoOption}]]

WearsOwn == \A p \in Part : MayChoose(p, Appearance[p], body, looks)

\* On every part the hero wears an option of that part, that no gear has to
\* show, that the body of the moment can wear and that is free or was paid for;
\* a pick kept from another body never shows.
LooksSound ==
  /\ WearsOwn
  /\ purse >= 0
  /\ purse + SumFunction([o \in looks |-> Price(o)]) = Coins

\* A hero that changes back to a body wears what it wore when it left that body,
\* on every part picked for nothing since: "a pick the new body cannot wear comes
\* back if the body changes again" (SetBody).
LookComesBack ==
  \A p \in Part : left[body][p] # NoOption => Appearance[p] = left[body][p]
=============================================================================
