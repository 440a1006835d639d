------------------------------ MODULE LevelUp ------------------------------
(***************************************************************************)
(* The loop of player.GainXP, one turn a step: Progression has its result  *)
(* in closed form, for the modules in which a reward is one step.          *)
(***************************************************************************)
EXTENDS Progression, Sequences

VARIABLE start  \* while the loop runs, the hero it began with and the xp

Earning == start # <<>>

\* GainXP is called: p.XP += xp.
Gain(xp) == /\ ~Earning
            /\ start' = <<hero, xp>>
            /\ hero' = [hero EXCEPT !.xp = @ + xp]

\* One turn of "for p.XP >= p.XPMax".
Turn == /\ Earning
        /\ hero.xp >= hero.xpMax
        /\ hero' = [hero EXCEPT !.xp = @ - hero.xpMax, !.level = @ + 1,
                                !.xpMax = @ + 2 * HalfXP,
                                !.skillPoints = @ + 1, !.hpMax = @ + LevelHP,
                                !.hp = hero.hpMax + LevelHP]
        /\ UNCHANGED start

\* (Fault) if instead of for: one level-up at most.
EndedAfterOne == hero.xp < hero.xpMax \/ hero.level > start[1].level

Ended == hero.xp < hero.xpMax

Done == /\ Earning
        /\ Ended
        /\ start' = <<>>
        /\ UNCHANGED hero

-----------------------------------------------------------------------------
\* The loop leaves what GainXP says in closed form, however many levels a
\* reward pays for while their price rises: xp, points, hp and hpMax.
LoopIsGainXP ==
  [][Done => hero = GainXP(start[1], start[2])]_<<hero, start>>
=============================================================================
