----------------------------- MODULE PurgedFolds ------------------------------
(***************************************************************************)
(* aqr/validation/cpcv.py, CombinatorialPurgedCV.split: the observations   *)
(* are cut into Splits blocks; on each path TestSplits of the blocks are   *)
(* tested, and the rest is for training, without the observations whose    *)
(* label reaches into a tested block and those right after one.            *)
(*                                                                         *)
(* Timestamps increase, so an observation is known by its position, and a  *)
(* label ends at a position too, perhaps beyond the last.  The order in    *)
(* which combinations() gives the paths is some fixed order.  After an     *)
(* empty block timestamps[e - 1] may be timestamps[-1], the last.          *)
(***************************************************************************)
EXTENDS Integers, FiniteSets, FiniteSetsExt

CONSTANTS Splits,      (* n_splits                                         *)
          TestSplits,  (* n_test_splits                                    *)
          EmbargoNum,  (* embargo_pct, as a fraction                       *)
          EmbargoDen,
          MaxObs,      (* bound: observations                              *)
          MaxHorizon   (* bound: how far a label reaches                   *)

ASSUME FoldsAssumption ==
    /\ Splits \in Nat \ {0}
    /\ TestSplits \in Nat \ {0}
    /\ TestSplits < Splits
    /\ EmbargoNum \in Nat
    /\ EmbargoDen \in Nat \ {0}
    /\ MaxObs \in Nat \ {0}
    /\ MaxHorizon \in Nat

VARIABLES step,   (* "idle", "next", "purge", "embargo", "path", "done"    *)
          obs,    (* how many observations there are                       *)
          ends,   (* where the label of each ends                          *)
          left,   (* test_combo values to come                             *)
          combo,  (* the blocks tested on this path                        *)
          rest,   (* those of them not yet purged around                   *)
          train,  (* train_mask                                            *)
          tested  (* per observation: on how many paths it was tested      *)

folds == <<step, obs, ends, left, combo, rest, train, tested>>

-----------------------------------------------------------------------------
Observations == 0..(obs - 1)
Combos == kSubset(TestSplits, 0..(Splits - 1))
FoldSize == obs \div Splits
EmbargoSize == (obs * EmbargoNum) \div EmbargoDen

First(b) == b * FoldSize

(* Mutant: the last block leaves the remainder out. *)
AfterEven(b) == (b + 1) * FoldSize

(* Where block b ends; the last one takes the remainder.                   *)
After(b) == IF b < Splits - 1 THEN (b + 1) * FoldSize ELSE obs

Block(b) == First(b)..(After(b) - 1)
Test == UNION {Block(b) : b \in combo}

Latest(b) == IF After(b) = 0 THEN obs - 1 ELSE After(b) - 1

(* Mutant: a label that ends with the first tested observation is kept. *)
OverlapsLate(o, b) == ends[o] > First(b) /\ o <= Latest(b)

Overlaps(o, b) == ends[o] >= First(b) /\ o <= Latest(b)

Embargoed(b) == {o \in Observations : After(b) <= o /\ o < After(b) + EmbargoSize}

Idle ==
    /\ step = "idle"
    /\ obs = 0
    /\ ends = <<>>
    /\ left = {}
    /\ combo = {}
    /\ rest = {}
    /\ train = {}
    /\ tested = <<>>

(* split is called with n observations and the ends e of their labels.     *)
Split(n, e) ==
    /\ step = "idle"
    /\ step' = "next"
    /\ obs' = n
    /\ ends' = e
    /\ left' = Combos
    /\ tested' = [o \in 0..(n - 1) |-> 0]
    /\ UNCHANGED <<combo, rest, train>>

(* Mutant: the mask is one too long. *)
NextPathWide ==
    /\ step = "next"
    /\ left # {}
    /\ combo' = CHOOSE c \in left : TRUE
    /\ left' = left \ {combo'}
    /\ rest' = combo'
    /\ train' = (0..obs) \ UNION {Block(b) : b \in combo'}
    /\ step' = "purge"
    /\ UNCHANGED <<obs, ends, tested>>

(* The next combination: all that is not tested may be trained on.         *)
NextPath ==
    /\ step = "next"
    /\ left # {}
    /\ combo' = CHOOSE c \in left : TRUE
    /\ left' = left \ {combo'}
    /\ rest' = combo'
    /\ train' = Observations \ UNION {Block(b) : b \in combo'}
    /\ step' = "purge"
    /\ UNCHANGED <<obs, ends, tested>>

Nearest == CHOOSE b \in rest : \A c \in rest : b <= c

(* Labels that reach into a tested block, or observations in it.           *)
Purge ==
    /\ step = "purge"
    /\ train' = {o \in train : ~Overlaps(o, Nearest)}
    /\ step' = "embargo"
    /\ UNCHANGED <<obs, ends, left, combo, rest, tested>>

(* The observations right after it.                                        *)
Embargo ==
    /\ step = "embargo"
    /\ train' = train \ Embargoed(Nearest)
    /\ rest' = rest \ {Nearest}
    /\ step' = IF rest' = {} THEN "path" ELSE "purge"
    /\ UNCHANGED <<obs, ends, left, combo, tested>>

(* The path goes to the caller.                                            *)
Yield ==
    /\ step = "path"
    /\ tested' = [o \in Observations |-> tested[o] + IF o \in Test THEN 1 ELSE 0]
    /\ step' = "next"
    /\ UNCHANGED <<obs, ends, left, combo, rest, train>>

Exhausted ==
    /\ step = "next"
    /\ left = {}
    /\ step' = "done"
    /\ UNCHANGED <<obs, ends, left, combo, rest, train, tested>>

Paths == NextPath \/ Purge \/ Embargo \/ Yield \/ Exhausted

(* Any caller with labels of its own.                                      *)
Labelled ==
    \E n \in 1..MaxObs :
        \E h \in [0..(n - 1) -> 0..MaxHorizon] :
            Split(n, [o \in 0..(n - 1) |-> o + h[o]])

FoldsSpec == Idle /\ [][Labelled \/ Paths]_folds

-----------------------------------------------------------------------------
FoldsTypeOK ==
    /\ step \in {"idle", "next", "purge", "embargo", "path", "done"}
    /\ obs \in 0..MaxObs
    /\ ends \in [Observations -> 0..(MaxObs + MaxHorizon)]
    /\ \A o \in Observations : ends[o] >= o
    /\ left \subseteq Combos
    /\ combo \in SUBSET (0..(Splits - 1))
    /\ rest \subseteq combo
    /\ train \subseteq Observations
    /\ tested \in [Observations -> Nat]

(* No look-ahead: on a path that is given out, nothing is learned from an  *)
(* observation that is tested, from a label that was not yet known when a  *)
(* tested observation was made, or within the embargo after a tested one.  *)
(* Where the embargo is at least as long as the labels, a tested label     *)
(* does not reach into what was learned from either.                       *)
NothingLeaks ==
    step = "path" =>
        \A o \in train, x \in Test :
            /\ ~(o <= x /\ x <= ends[o])
            /\ x < o => o > x + EmbargoSize
            /\ x < o /\ ends[x] <= x + EmbargoSize => ends[x] < o

(* The history is used, all of it alike: what a path neither trains on nor *)
(* tests overlaps a tested observation or follows one too soon, and in the *)
(* end each observation was tested on the same number of paths, those of   *)
(* the remainder too.  (With fewer observations than blocks, the empty     *)
(* blocks purge everything.)                                               *)
HistoryUsed ==
    obs >= Splits =>
        /\ step = "path" =>
              \A o \in Observations \ (train \cup Test) :
                  \E x \in Test : \/ o <= x /\ x <= ends[o]
                                  \/ x < o /\ o <= x + EmbargoSize
        /\ step = "done" =>
              \A o \in Observations : tested[o] = Cardinality({c \in Combos : 0 \in c})
=============================================================================
