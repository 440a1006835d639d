# DevServer: TLA+ models of the game server

DevServer is a browser RPG for developers. The program is a Go HTTP API over
PostgreSQL (`src/api`) and a Next.js client (`src/web`). The client draws; the
server owns every number, every draw and every clock (decisions AD-001 to AD-021
in `src/.specs/STATE.md`). The pictures the client draws come from four Python
scripts (`src/web/scripts`) that cut rendered sheets into the files of the game.
These modules model the server, how it changes a player under concurrency and
failure and what the features do with the player's numbers once that is settled,
and the scripts: their picture algorithms and the files they leave.

The argument about the server has two layers.

1. `PlayerLock` shows that a request which changes a player is **atomic**: it
   takes effect at one instant, on the player of that instant, or not at all,
   whatever other requests, rollbacks, lost answers and crashes do.
2. Because of that, each feature module (`Deploy`, `Skills`, `Battle`, `Shop`,
   `Rooms`, `Notebook`) may treat a handler as **one step**. What stays
   concurrent in those modules is what the code really reads *outside* the lock:
   the deploy handlers' clock. Everything else is about long sequences of legal
   calls.

## Inventory

| component | state | operations | talks to | what is hard |
|---|---|---|---|---|
| player: locked mutation, `player.WithLocked` | the `players` row and its child tables; the row lock; the pool | begin, `SELECT ... FOR UPDATE`, child reads, fn, `UPDATE`, commit, rollback | every feature hands it an fn | lost updates, half-done writes, crash around the commit, waiters that hold connections |
| player: reads, `player.Get` | none of its own | nine statements without a transaction | `/me`, deploy list, battle screen, onboarding check | torn answers beside commits |
| player: onboarding, `player.Create` | `players` and two unique indexes | check, form, insert, explain 23505 | Get, AddItem | check-then-insert race; finding the reason of 23505; a commit nobody hears of |
| player: progression, `GainXP`, `ChangeHP`, `Bonus` | level, xp, xpMax, hp, hpMax, skillPoints | earn xp, start or stop a bonus | deploy, battle, shop, skills, notebook | several levels at once; hpMax stored, not computed |
| deploy | `deploy_jobs` | List, Start, Claim, Boost | GainXP, AddItem, Bonus | clock read before the lock; double claims; frozen rewards |
| skills | `player_skills` (level, slot) | Unlock, Equip, Unequip, Upgrade | ChangeHP | gaps in the slots, prices by level, hp deltas |
| battle and world | `battles` (one row per player), `region_progress`, region, power | Get, Start, Command, Item, Travel | GainXP, AddItem, AdvanceProgress | the row outlives its page, its region and its victory |
| shop and forge | items, gear, equipment, skins, purse | buy, equip, wear, use, discard, forge | Pay, AddItem, ChangeHP, GainXP | several debits and one output; swaps in a slot |
| rack and office | rack slots, office cells, light | buy, remove, install, template, light | Pay | refunds; templates all or nothing |
| notebook | level, upgrades | Enhance, Upgrade | Pay, ChangeHP | differences between levels |
| avatar | picks, looks, body | Update, Buy, ChangeBody | Pay, AddItem | picks that a new body cannot wear |
| cast: cutting out, `slice_cast.knock_out` | a picture, a queue, marks | flood from the border, two passes over the halo | slicing, poses | a queue with marks on removal; in-place change while looking |
| cast: slicing, `slice_sheet` | the pieces found, the frames | still, strip, variants, plate | the manifest | joining pieces, ranking, captions, cells, odd sizes |
| cast: poses, `build_idle_sheets`, `build_hero_sheets` | none | sprite, fit, scale, sheet | slicing, through a picture only | frames that must be found again |
| cast: files, `slice_all`, `emit`, the two builders, `paint_cast` | sheets, pictures, the manifest | read, save, fail | each other, through the files | no transaction: failures and interruptions between files |
| auth | `sessions`, two cookies | Login, Callback, Lookup, Logout | GitHub | expiry and logout beside requests; two logins at once |
| catalog | none after `Load` | lookups | all | start-up validation |
| web client | the player last answered | fetch, setPlayer, logout | the API | answers out of order |

`httpx`, `app`, `db`, `cmd`, `fakegithub`, the specs and the infrastructure
files keep no state of the game. `PROJECT.json` lists each
component with its status, and the hazards of the code line by line with the
properties that watch them.

## Modules

| module | models | extends |
|---|---|---|
| `PlayerStore` | the promise of AD-004: atomic requests on a store of players | |
| `PlayerLock` | `WithLocked`, statement by statement | |
| `PlayerReads` | `Get` beside the mutations | `PlayerLock` |
| `PlayerProofs` | theorems about the mutations and the readers | `PlayerReads` |
| `Registry` | the promise of creating a player | |
| `Onboarding`, `OnboardingProofs` | `Create` and its theorems | |
| `Progression` | `newPlayer`, `GainXP`, `ChangeHP`, rounding, as pure operators | |
| `LedgerLemmas` | sums over finite sets and the level-up rule, for the proofs below | `Progression` |
| `LevelUp` | GainXP's loop, turn by turn, as steps of `Life` | `Progression` |
| `Deploy`, `DeployProofs` | `deploy.go` and its theorems | `Progression`, `LedgerLemmas` |
| `Skills` | `skills.go`, as steps of `Life` | `Progression` |
| `Battle`, `BattleProofs` | `battle`, `world.Travel`, `AdvanceProgress` and theorems | `Progression`, `LedgerLemmas` |
| `Purse` | `player.Pay`: what a player has and pays in a currency | |
| `Shop` | `shop.go`, `forge.go` | `Progression`, `Purse` |
| `Rooms` | `rack.go`, `office.go` | `Purse` |
| `ShopProofs` | theorems about both | `Shop`, `Rooms`, `LedgerLemmas` |
| `Avatar` | `avatar.go`, `ResolveAppearance` | |
| `Notebook` | `notebook.go`, as steps of `Life` | `Progression` |
| `Life` | a player's skills and notebook together, rewards, fights | `Skills`, `Notebook`, `LevelUp` |
| `HeroProofs` | theorems about `Life` and `Avatar` | `Life`, `Avatar`, `LedgerLemmas` |
| `Raster` | pictures, colours, boxes, blitting, and `knock_out` as a whole | |
| `Cutout` | `knock_out`, one queue step at a time | `Raster` |
| `Slicer` | `slice_sheet` in every mode | `Cutout` |
| `Poses` | what the two builders lay out, as pure operators | `Raster` |
| `PoseSheets` | the sheets of `Poses` as inputs of `slice_sheet`, and what must come back | `Slicer`, `Poses` |
| `CastFiles` | the four scripts over the files | |
| `CastProofs` | theorems about `PoseSheets` and `CastFiles` | `PoseSheets`, `CastFiles`, `LedgerLemmas` |
| `MC...` | the instances for TLC | the module they are named after (`MCSlicer`: `PoseSheets`) |

Definitions named `...` after a comment "(Fault)" are wrong versions of the
definition that follows them (a dropped guard, a missing reset). No
specification uses them. They are there to be put in the place of the right one:
the property they are written for must then fail.

### PlayerLock

`pc[r]` is where a request is in `WithLocked`; `lock`, `db`, `mem`, `staged` are
the row lock, the committed players, the copy `p` in memory and the player as the
open transaction sees it. One action per statement: `Begin` waits for a
connection of the pool; `LockRow` waits for the row and reads it; `LoadChild`
reads one child table, from what is committed *at that moment* (READ COMMITTED);
`Run` is fn, which changes `p` and writes child rows inside the transaction;
`Save` is the `UPDATE` of every column; `Commit`. `Rollback` can happen at any
point of an open transaction (an error, a cancelled context), `Crash` ends all of
them and loses the answers not sent yet. fn is the pair of constants `Accepts`,
`After`: for any handler that is a function of the player, the results hold.
Abstractions: a crash frees the locks at once (in reality when PostgreSQL
notices the closed connection); a commit whose acknowledgement is lost counts as
a commit whose answer is lost.

### PlayerReads

Adds readers that hold no transaction. `since` records which mutations had
committed when the row was read, so that "no commit overlapped" can be said.
That an overlapped read is torn is what the code does; no document promises
otherwise.

### Onboarding

An `INSERT` enters its keys in the index on `github_user_id` and then in the one
on `upper(dev_name)`; at each it waits for another open transaction that has
entered the same key, and gets 23505 if that one commits. The keys are derived
from `pc`. `Explain` is the second `Get`, after the rollback, when it answers;
`ExplainBlind` is the same `Get` when it fails: the code asks only `getErr == nil`
(`player/handlers.go:84`), so any error of it answers `dev_name_taken`. That answer has
a value of its own, `"guessed"`, so that `Registry` can say what holds of it (the
request was valid and there was a conflict, with the user's own player or with
the name) and keep the true reason for the answers given after a `Get` that
worked. `Fail` is any other statement that fails (500), `CommitUnseen` a COMMIT
the server makes while `tx.Commit` returns an error or the process dies, and `Lose` a crash, which answers nothing. After 500 or silence a
player may or may not have been made, and `Registry` allows both.

### Progression and LevelUp

`GainXP` is written in closed form (how many levels a total affords) so that the
other modules can use it in one step; `LevelUp` runs the loop of the code turn by
turn, inside `Life`, and `LoopIsGainXP` says that both agree. `Percent` is `math.Round` of a
percentage in exact arithmetic: for the small non-negative numbers of the game
the binary fractions of the code could differ only where the exact result is a
half.

### Deploy

`req[s].now` is the clock a handler read on arrival; its transaction may run any
number of ticks later. `Start`, `Claim`, `Boost`, `List` are the handlers, with
the reward and the end frozen in the row by `NewJob`. `due`, `boosts` in a row
and `shown`, `knew` are ghosts: the end first given, the boosts since, the jobs
some answer has shown as ready, and what a claim's sender could have seen. The
clock never goes back (`Deps.Now` is the wall clock truncated to seconds).

### Skills, Notebook and Life, Shop, Rooms

State as in the tables, one action per handler, refusals by guards. In `Shop`,
`log` counts what was done and in `Rooms` and `Life` `removed`, `best` and
`rewards` do: ghosts for the ledgers. `Skills` and `Notebook` have steps and no
specification of their own: `hero` (declared in `Progression`), the numbers both
add to, is shared, and `Life` interleaves their steps with rewards and fights. A
call that the code answers 200 without change (equipping what is equipped,
removing from an empty slot) is a stutter.

### Battle

`fight` is the row of `battles`. A turn (`Play`, `UseItem`) does what the code
does in order: cost, hit with weakness and bonus, heal, exposure, sp, then
`EndTurn` with its three outcomes, drops and `AdvanceProgress`. Draws are
nondeterministic choices. `Bonus` values are drawn from constants on each use.
Gems are left out because a victory pays them with the coins; limit commands of
other classes are left out of `Command`. `Reequip` is the skills page in another
tab: equipping changes which commands may be played in the middle of a fight.
The levels of skills, which scale a command, are taken as fixed.

### Avatar

`picks` is `players.appearance`, with `NoOption` for a part that has no key;
`Appearance` is computed from it as `ResolveAppearance` does on every read, pick
and change of body. `Update` asks `MayChoose` of every pick before it saves one,
`Buy` pays, keeps and wears, `ChangeBody` takes a token. Unknown parts and
options are refused like options of another part and are left out of `Ask`; a
look has one currency, so there is one balance (`Shop` has both). The tokens are
those that will ever be bought. The ghost `left` remembers what a body wore when
it was changed, until the part is picked for.

### Raster, Cutout and Slicer

A picture is its size, the colour of each pixel and the set `on` of the pixels
whose alpha is not 0; alpha is taken as on or off, which is all the sheets have.
`Cutout` has the queue `q`, the byte array `clear` and the picture `knock_out`
changes: `Mark` and `Pass` are the two branches of the loop for the pixel at the
head, `Flooded` kills what was marked, `Fringe` is one pass over the halo (found
first, killed afterwards, as in the code). `Slicer` goes on where the code goes
on: the scan and the queue of the pieces (`OpenPiece`, `Grow`, `ClosePiece`,
where a pixel is met when it is put, unlike in the flood), the stable sort
(`Rank`), then the end of each mode: `RowFrames` with `Strip` or `Variants`,
`Largest`, `Still`, `Plate`. What the code raises is the stage `"failed"`.
Thresholds of colour are those of the code; thresholds of size (24, 8, 400
pixels, margins of 32 and 64) are the constants `MinArea`, `MinPart`,
`MinOpaque`, `Pad`, `Space`, because only the order of sizes around them matters.

### Poses and PoseSheets

The builders keep no state: `Sprite`, `Fit`, `Scale`, `Sheet`, `Cycle` are
operators. `Space`, the `GAP` of 64 pixels, is positive: frames that touch would be
one piece. Pillow's `NEAREST` resize is external and is written as the pixel under
the centre.

`PoseSheets` puts the two programs together: an input of `Slicer` may be a sheet that
`Poses` laid out, with its frames beside it, and `RoundTrip` compares them with what
is cut. `LaidOutAssumption` says what such a sheet is: four frames (`build_idle_sheets`
refuses another number, `build_hero_sheets` counts to four) and a row of
`sheets.json` that is cut as a strip, with no key and no captions to drop, which is
what all sixteen rows of the idle and hero files say; `CycleIsLaidOut` proves that
the frames are pictures. The code keeps no promise about frames in several pieces
(`_row_frames` may give a loose piece to the neighbour whose centre is nearer), so
`RoundTrip` speaks of frames that are `Legible`: one piece each, and no speck. It
trims the cells before it compares; where a frame stands in its cell, centred from
side to side and on the floor or centred from top to bottom, is part of
`PiecesStayWhole`.

### CastFiles

Here a picture is only the height of its figure and of its cell, its frames and
where it is from; `sheets` and `cast` are the two directories, `manifest` the set
of rows it lists. One action per file read or written: `ReadSheet` notes a missing
sheet and ends the script on one that cannot be used, `EndSlices` refuses to write
unless all were there, `SavePicture` and `WriteManifest` are `emit`, `ReadIdle` and
`SaveHero` are `build_hero_sheets` (body by body), `SaveCycle` is
`build_idle_sheets`. `batch` holds the rows cut or painted so far. The scripts run one at a time. `Stop` cuts one off between two
files or inside the one it writes (`Torn`), `Change` is somebody who draws a sheet
anew, loses it or spoils it. The ghost `log` remembers the last scripts that ended
well with no mishap between them.

## Runs

| run | bounds | why enough | states |
|---|---|---|---|
| `player_lock` | 2 requests of one player (a buy and a sale that may be refused), 1 of a second user, 1 reader without a lock, 2 connections, 2 child tables, poor, rich and missing players | a mutation finds the pool used up while another holds the lock; two child tables are read at different moments; a commit fits before, between and after any two reads | 119,207 |
| `onboarding` | 2 users, 2 names, 5 requests (one invalid) | same user twice, same name by two users, and both together; each with failed reads, failed and unheard commits and crashes | 50,723 |
| `deploy` | 1 type, 2 levels, 2 requests in flight, 2 jobs, 2 boosters, clock 0..3 | a job collected while a request for it, or for its successor, is pending with an old clock | 1,456,452 |
| `life` | 3 nodes in a row, 2 slots, 3 node levels, a node of another class; 3 notebook levels, upgrades of 2 and 1 steps; 5 rewards of no or several levels, looped turn by turn | more nodes than slots, gaps, hp nodes at every level, the hp upgrade before and after the notebook level it needs | 359,884 |
| `battle` | 2 regions with paths of 2 and 1, 6 commands, 1 potion, 3 fights | a replay, a fight left behind, a level-up that opens a region | 241,538 |
| `shop` | 2 items, 2 pieces of hp in one slot, 1 skin, 2 recipes, 2 rewards | bought and forged pieces replace one another; the last coin | 36,819 |
| `rooms` | 2 rack slots, 3 cells, 3 pieces, 2 templates, 3 removals | blocked, partly present and unaffordable templates; odd halves | 2,694 |
| `avatar` | 2 parts, 7 options (free, priced, of one body, of gear), 2 bodies, 4 tokens | away and back twice, with picks on each side | 1,011 |
| `slicer` | every drawing of 3 by 3 on a light board, every 2 by 2 of three colours on a dark one, dithered drawings, a cup of ink with light rows that a transparent one opens, rows of four of five shapes, captions, a boss with panels and dashes, refusals, 130 sheets laid out from poses; `MinArea` 3, `MinPart` 2, `Pad` 1, `Space` 2, `MinOpaque` 4 | holes, rings, corners, bays of the background; the cup tells two passes of the halo from three; pieces on both sides of each threshold; drawings that reach under one another; even and odd cells | 76,310 |
| `cast_files` | 2 bodies with 2 actions, a cycle, a sheet of 2 effects, 6 stand-ins, for ids that the sheets give as stills, strips and variants, 2 heights, 2 mishaps | a script cut off at each file, then another, or a second round; a sheet changed between rounds; a stand-in under a hero | 2,792,179 |
| `deploy_boost`, `battle_place` | as `deploy`, `battle` | see the findings | |

`CHECK_DEADLOCK FALSE` is set where the system stops when all its work has ended:
in `player_lock` and `onboarding`, where every request is used once, and in
`slicer`, where every sheet is sliced once. In `deploy` the two tabs are
interchangeable (symmetry; the run checks only safety, no liveness).

### Fairness

Liveness is checked of `player_lock`, `onboarding` and `slicer`. In the first two,
weak fairness is assumed of the next statement of a request the server has taken
up (`Progress`, `Read`): goroutines are scheduled, statements end, and PostgreSQL
grants a lock that is free. Nothing is assumed of clicks, failures, rollbacks
and crashes. The two waits, for a connection and for the row, need no strong
fairness here because each request is sent once, so a wait is not postponed for
ever. In `slicer` weak fairness is assumed of the loop of `knock_out` alone: the
script is sequential and goes on with a loop it has entered; that the queue runs
empty, though every marked pixel puts its neighbours back on it, is the property.

## Findings

* `deploy_boost`: the comment on `Boost` says "A ready deploy is refused without
  spending anything" (`src/api/internal/deploy/deploy.go:192`). The handler reads
  `now` at line 199, then waits for the player's row. If the deploy's end passes
  meanwhile and another answer shows it as ready, the older `now` is still before
  `ends_at`, the boost is accepted and a booster is spent on a ready deploy.
* `battle_place`: the plan says that one fights "na região atual do jogador;
  viajar para outra região e voltar ao combate troca de inimigo"
  (`src/.specs/features/bug-fight/plan.md:45`). `Start` follows it. The turn
  handlers do not: after a travel, commands sent to the old fight are played to
  its end, rewards and path included.

Observed in `onboarding`, allowed there and not a run of its own: AC 15 of
`src/.specs/features/foundation/plan.md:80` wants `player_exists` for a user who
has a player, but when the second `Get` of `Create` fails after 23505
(`src/api/internal/player/handlers.go:84-87`) such a user is told `dev_name_taken`, and
the client then asks for another name. `Guess` in `Registry` is this answer.

Observed, not contradicted by any document: life is floored at 1 when a bonus
stops counting, so at low life taking a piece off and putting it on again heals;
a light stays on after the furniture that unlocked it is gone, as
`src/.specs/features/office-keyart/plan.md:46` wants.

The first words of `paint_cast.py` (lines 4 and 5) say that the stand-ins "keep the
same ids, strip layout and manifest". Its list has no `hero-m-interact` and no
`hero-f-interact`, and paints as stills eight that `src/web/cast/sheets.json` cuts as
strips (the slimes, `enemy-spider`, `enemy-snake`, `enemy-boss-nuvem`, `fx-fire`,
`fx-teleport`); no run is about it, because ids are constants of `CastFiles`,
which lets the two lists differ. From a directory without a cast, `build_hero_sheets`
cannot run before a paint or a slice has written the idle pictures, and a slice
refuses while the hero sheets are missing: the first cast needs a paint, and the
heroes built on stand-ins are right only after a second round, which is the
precondition of `StripsFitIdle`.

## Proofs

All theorems are proved for every value of the constants that satisfies the named
assumptions of the modules (what the catalog's and the sheets' files satisfy; TLC
evaluates them in the runs). Every property the passing runs check as a safety
property is such a theorem.

* **`PlayerProofs`** (`ConstantsAssumption`: `Accepts` is Boolean, `After` of an
  accepted player is a player; users, requests, tables and pool are arbitrary).
  `TypeCorrect` is inductive with `Fresh`, since `After` is a player only where
  `Accepts` held. `LockCorrect` and `FreshCorrect` are proved together: `Fresh`
  survives another request's commit only because two requests of one player cannot
  both be past the lock, which is `LockedExactly`. `LockImplementsStore` maps a
  commit to `Apply`, a refusal, rollback or crash to `Drop` of the set of requests
  it ends, and every other step to a stutter; that the committed player is `After`
  of the *current* one is `Fresh` at `"commit"`. For the readers
  (`ReadersAssumption`) the invariant says that either a mutation of its player has
  committed since one read the row (`Overtaken`) or all it has put together is what
  is committed (`Current`). `Commits` is the lemma it needs: a step that changes a
  committed player commits a mutation of it, and none is taken back, so `Overtaken`
  is for good. `ReadsExact` follows.
* **`OnboardingProofs`** (`OnboardingAssumption`). The invariant says which keys
  open transactions hold, that no two hold the same one, and that a request past
  an index has a key no committed player has. `Causes` adds that whoever got 23505
  sent a valid form and that the row in its way stays, which is all that is left
  to say of a `dev_name_taken` given without knowing. `RecordInv` covers the
  COMMIT with each of its three outcomes. `NamesStayUnique`, `OneCreationPerUser`
  and `OnboardingImplementsRegistry` follow.
* **`LedgerLemmas`** (`ProgressionAssumption`). The sums of the ledgers are folds of
  the community modules over finite sets, in an order that a `CHOOSE` picks. What
  such a sum is (`SumEmpty`, `SumAdd`), how it changes with one value
  (`SumChange`) or with the values of a part of the domain (`SumMove`) is proved by
  an induction over a *set of numbers* (`Induction`: a set with 0 that is closed
  under +1 has every number), since a theorem with a predicate as its parameter
  cannot be used. In the same way `LevelsExist` and `LevelsUnique` make the closed
  form of `GainXP` well defined, and `GainXPSound` says what it keeps: the total of
  xp ever earned, life within its bounds, points and life by level.
* **`DeployProofs`** (`DeployAssumption`). Every handler does one of four things to
  the rows: nothing, adds one (`Added`), collects one (`Paid`) or moves an end to an
  earlier time (`Sped`). `OneActive` is inductive because a row is added only where
  none of its type runs: `OneRunning`. `JobsFrozen` is what the four leave of a row.
  `ReadyStaysClaimable` needs `Promised`: what was shown as ready has ended, and has
  ended on the clock of every claim sent since, because ends only move earlier and
  a claim reads the clock when it arrives. `RewardsAddUp` adds `Books`, a ledger over
  the rows, to which `Paid` adds exactly the row it collects. `TimeIsAlwaysPaid`
  needs, of every row, that its end and what its boosters took reach the end it was
  given, and that it is collected only after its end; and that boosters in stock and
  boosters spent on rows are those the player got.
* **`BattleProofs`** (`BattleAssumption`, `NoFightAssumption`). `FightInv` is the
  type of the fight and the progress, `WonIffDown` and `PathSound`. `PathSound`
  is not inductive alone: that a won node is cleared needs that an active fight's
  node is at most the frontier, and that a step wins only a fight that was active
  with its enemy alive. `PathStaysSound`, `WonMeansDown` and the action property
  `PathAdvancesInOrder` follow. `NeverPaidTwice`: with every fight started worth one
  victory, `PaidPerFight` is inductive beside `FightInv`. `RowInv` adds the ranges of
  the row and of the player and that coins and xp are paid together: `RangesKept`
  and `PaidOnceAndWhole`, which needs `GainXPSound`.
* **`HeroProofs`** (`LifeAssumption`, `SkillsAssumption`, `NotebookAssumption`,
  `AvatarAssumption`; what `TestCatalog_AvatarReferencesCatalog` asks of the catalog
  is in the last). Nothing recomputes `hpMax`, so of `Life` the ledgers themselves are
  the invariant: a step changes one node or one upgrade, and each sum by what that one
  adds (`SkillEffect`, `NotebookEffect`). `LoadoutStaysSound` needs that the first free
  slot ends the loadout. `LoopEndsAsGainXP` needs that every turn of the loop leaves
  the sum of xp and thresholds passed, so that the loop's end is the one number
  `LevelsUnique` allows. Of `Avatar`, `LookComesBack` speaks of the body of the moment
  and is not inductive; `LeftResolves` says it of every body: what a body left is what
  the picks resolve to for it, worn now or not. `LooksStaySound` needs `PicksOwned`,
  which says of a stored pick all that was checked but the body, and a sum for the
  coins.
* **`ShopProofs`** (`ShopAssumption`, `RoomsAssumption`). `ShopInv` is the ledgers with
  what they need: the type, `Fits` (life and `hpMax` of a hero with this kit), and
  `ForgedIsOwned`: a forged piece is owned, hence never bought as well, without
  which a forged piece would count as paid twice. A forging moves several materials
  and one output at once, which is `SumMove`. In `Rooms` the sum over slots and
  cells changes by the pieces a template brings, whose targets are free and
  distinct: `FurnishingAddsUp`, `TemplatesAreWhole`.
* **`CastProofs`, the pictures** (`SlicerAssumption`; `RowAssumption` for the rows: the
  indices of a row of `sheets.json` are among its drawings, and a strip has none). `FloodInv`, while the queue
  runs: a background pixel of the border or beside a marked one is marked or on the
  queue (nothing is forgotten), all that is on the queue is such a pixel, and the
  marks lie inside every closed set (nothing is taken too much). `SpreadIsLeast` says
  of the recursive function the properties use as their reference (`Linked`, `Wave`
  by `Wave`) that it is the least closed set, and so `BackgroundIsGone`. `FringeInv`
  counts how far the passes over the halo have come, one pixel more each:
  `InteriorKept`. Of the pieces, `PieceInv` says that what is gathered lies in the
  piece of its first pixel (`Whole`), that every neighbour of what the queue has passed
  is gathered too, and that every pixel the scan met before is in exactly one listed
  piece or in a speck (`Found`); a stable sort keeps the list as a set (`SortedLists`).
  `PiecesFound` follows. What is shown needs `WholeInv`, which says what each stage
  leaves to the next: each piece has its own box (`Boxed`) and the largest is first
  (`BySize`); every drawing has its seed and its frame, and without captions every
  piece is in exactly one (`LaidAs`); the rows are those of the frames (`RowsLaid`).
  From it, `StripIsPasted`: a frame that is pasted stays in its cell (`InCell`, the cell
  is the widest), so the frames lie apart (`SpotsApart`) and the fold of the blits shows
  them all (`FoldIsCanvas`, by induction with `Counting`), and `CellShows` gets each
  frame back from its cell; `AsManyShown` counts that no pixel is shown twice or
  from elsewhere. `AloneIsWhole` and `StillShows` are the two stills, and
  `PiecesKeptWhole` puts the modes together. Two more theorems have no property among
  the runs. `KnockOutIsExact`: what the queue leaves is `KnockedOut`, the operator
  through which `Poses` calls `knock_out` (`PeelInv` follows the two passes).
  `RowsRefusedForCause`: a row is refused exactly when its pieces are too few, its
  ids are not as many as its drawings or two seeds have one centre, since without a tie
  every seed is nearest to itself and with one the left seed has every piece of both
  (`TieLeavesNothing`).
* **`CastProofs`, what is laid out comes back** (`PosesAssumption`,
  `LaidOutAssumption`). A sheet and a strip are both frames pasted on a canvas, so one
  lemma is about both: a fold of blits whose frames lie apart is the canvas with all
  of them (`FoldIsCanvas`). Where a frame lies (`Lies`) is a sum of the widths before
  it; those sums, folds like the ledgers' (`SumOnSet` of `LedgerLemmas`), rise by a
  width and a gap each (`ColumnsAre`), so two frames have an empty column between
  them (`LiesApart`) and the sheet shows each where it lies (`SheetIs`). A frame in one piece
  is then a piece of the sheet (`PieceOfSheet`), and as the scan lists every piece once
  (`Found`) there are four (`FourPieces`); their centres rise with their columns, so
  the sorted seeds are the frames in order and each drawing is its seed alone
  (`DrawingsAre`). `BackInv` carries that to the end of the run: nothing of the sheet
  is cleared, no step of another mode is taken, nothing fails. A cell shows its
  drawing, which shows its frame, each moved; `SamePicture` says that a picture that is
  moved is cut to the same drawing, and `SheetsComeBack` follows. `CycleIsLaidOut`
  says that what `_cycle` makes of poses that have not collapsed are such frames, as
  high as the neutral one where there are no factors.
* **`CastProofs`, the files** (`CastAssumption`, `IdsAssumption`, `HeroAssumption`).
  `Complete` says that the rows cut so far are those of the sheets read so far, with no
  id twice; `Written` that what `emit` has saved is on disk, which holds on because
  no later row has the same id; `Described` is the claim between the scripts.
  `ManifestTrue` and `CastWhole` follow. `StripsFitTheIdle` needs `FitInv`, which says
  for each end of `log` what is known: after a slice the idle pictures are as high as
  the sheets they are cut from (`IdleFits`), which no script builds; after the heroes,
  every sheet of theirs is as high as that (`JobsFit`, by job, with the division of a
  job's number into body and action in `HeroJobs`); the next slice cuts both from the
  same sheets (`CutFrom`).

Only model-checked: the three liveness properties, `EveryCallEnds`, `EveryCreateEnds`
and `KnockOutEnds` (fairness and `ENABLED` are outside the prover), and the two
findings, which are counterexamples.

## Not modelled

* Auth: `Lookup` is one statement on an immutable row, and the handlers that follow
  it do not read the session again; only the pairing of two logins has steps that
  interleave, and it has no state in the database.
* The web client. Each scene keeps one `pending` flag and shows the player last
  answered; answers out of order across scenes are listed as a hazard that no
  property covers.
* Start-up (`catalog.Load`'s validation, migrations), routing, JSON and error texts.
* The painting of the stand-ins in `paint_cast.py` (ellipses and rectangles, no
  state and no decision); what it builds and how it writes it is in `CastFiles`.
  Reading and writing of PNG and JPEG, and Pillow's resize, are external. Partial
  alpha is outside `Raster`.
* A catalog that changes between versions (pieces that leave it and are removed
  with no refund): the constants are fixed. Integers are unbounded; the columns
  are 32-bit and the amounts of the catalog keep far below.

## Plan

The modules above were written in the order of their weight: the lock, then
creation, deploys, battles, the ledgers of the features, the cast; then their
theorems. What is left:

1. `Client`: answers that arrive out of order, the player shown and the pending
   flags of the scenes, on top of `PlayerLock`.
2. `Sessions`: login with the state cookie, expiry and logout beside requests.
