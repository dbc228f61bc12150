---------------------------- MODULE BacktestProofs ----------------------------
(***************************************************************************)
(* That the paths of aqr/validation/cpcv.py leak nothing, and waste nothing*)
(* of the history, for any number of observations, of blocks and of tested *)
(* blocks, any labels and any embargo, the remainder in the last block     *)
(* included; and that a backtest of any hypothesis is the account of a     *)
(* trader who does not know the price of the bar he decides on, for any    *)
(* prices, windows and thresholds.                                         *)
(*                                                                         *)
(* For the paths: what is purged around one block stays purged while the   *)
(* others are done, and each block explains what it takes away, because it *)
(* is not empty.  For the counts: an observation is counted once for each  *)
(* combination with its block, it has one block, and exchanging two blocks *)
(* maps the combinations with one to those with the other.  For the        *)
(* account: a signal depends only on the prices up to its bar, family by   *)
(* family, and positions are shifted by one bar.                           *)
(***************************************************************************)
EXTENDS Backtest, FiniteSetTheorems, FunctionTheorems, TLAPS

(* The blocks of the path that are done with.                              *)
Done == combo \ rest

(* Nothing tested is trained on, nor anything too near to a block that is  *)
(* done with; while its embargo is due, a block has been purged around.    *)
Masked == step \in {"purge", "embargo", "path"} => train \cap Test = {}
DoneIsPurged ==
    step \in {"purge", "embargo", "path"} =>
        \A b \in Done : \A o \in train : ~Overlaps(o, b) /\ o \notin Embargoed(b)
NearestIsPurged ==
    step = "embargo" => \A o \in train : ~Overlaps(o, Nearest)
PathIsDone == step = "path" => rest = {}
IdleIsEmpty == step = "idle" => train = {}

IInv ==
    /\ FoldsTypeOK
    /\ Masked
    /\ DoneIsPurged
    /\ NearestIsPurged
    /\ PathIsDone
    /\ IdleIsEmpty

-----------------------------------------------------------------------------
LEMMA DivBound ==
    ASSUME NEW n \in Nat, NEW k \in Nat \ {0}
    PROVE  n \div k \in Nat /\ (n \div k) * k <= n
  OBVIOUS

LEMMA Multiples ==
    ASSUME NEW f \in Nat, NEW i \in Nat, NEW j \in Nat, i <= j
    PROVE  f * i \in Nat /\ f * i <= f * j
  OBVIOUS

LEMMA SizesType ==
    ASSUME obs \in Nat
    PROVE  /\ FoldSize \in Nat
           /\ FoldSize * Splits <= obs
           /\ EmbargoSize \in Nat
  <1>1. obs * EmbargoNum \in Nat BY FoldsAssumption
  <1> DEFINE scaled == obs * EmbargoNum
  <1>2. scaled \in Nat BY <1>1
  <1> HIDE DEF scaled
  <1>3. scaled \div EmbargoDen \in Nat BY <1>2, DivBound, FoldsAssumption
  <1>4. EmbargoSize \in Nat BY <1>3 DEF EmbargoSize, scaled
  <1> QED BY <1>4, DivBound, FoldsAssumption DEF FoldSize

(* The blocks lie among the observations.                                  *)
LEMMA BlockType ==
    ASSUME obs \in Nat, NEW b \in 0..(Splits - 1)
    PROVE  /\ First(b) \in Nat
           /\ After(b) \in 0..obs
           /\ Block(b) \subseteq Observations
  <1>1. FoldSize \in Nat /\ FoldSize * Splits <= obs BY SizesType
  <1>2. b \in Nat /\ Splits \in Nat BY FoldsAssumption
  <1>3. First(b) \in Nat
    <2>1. b * FoldSize = FoldSize * b BY <1>1, <1>2
    <2>2. FoldSize * b \in Nat BY <1>1, <1>2, Multiples
    <2> QED BY <2>1, <2>2 DEF First
  <1>4. After(b) \in 0..obs
    <2>1. CASE b < Splits - 1
      <3>1. FoldSize * (b + 1) \in Nat /\ FoldSize * (b + 1) <= FoldSize * Splits
        <4>1. b + 1 \in Nat /\ b + 1 <= Splits BY <1>2, <2>1
        <4> QED BY <4>1, <1>1, <1>2, Multiples
      <3>2. (b + 1) * FoldSize = FoldSize * (b + 1) BY <1>1, <1>2
      <3>3. FoldSize * Splits \in Nat BY <1>1, <1>2, Multiples
      <3>4. After(b) = FoldSize * (b + 1) BY <2>1, <3>2 DEF After
      <3> HIDE DEF FoldSize
      <3> QED BY <1>1, <3>1, <3>3, <3>4
    <2>2. CASE ~(b < Splits - 1) BY <2>2 DEF After
    <2> QED BY <2>1, <2>2
  <1> QED BY <1>3, <1>4 DEF Block, Observations

LEMMA CombosType ==
    ASSUME NEW c \in Combos PROVE c \in SUBSET (0..(Splits - 1))
  BY DEF Combos, kSubset

(* Labels do not end before they begin.                                    *)
LEMMA EndsType ==
    ASSUME FoldsTypeOK, NEW o \in Observations
    PROVE  o \in Nat /\ ends[o] \in Nat
  BY FoldsAssumption DEF FoldsTypeOK, Observations

-----------------------------------------------------------------------------
LEMMA InitInv == Idle => IInv
  <1> SUFFICES ASSUME Idle PROVE IInv OBVIOUS
  <1>1. Observations = {} BY DEF Idle, Observations
  <1>2. FoldsTypeOK
    <2>1. \A S : <<>> \in [{} -> S] OBVIOUS
    <2>2. /\ ends \in [Observations -> 0..(MaxObs + MaxHorizon)]
          /\ tested \in [Observations -> Nat]
      BY <1>1, <2>1 DEF Idle
    <2> QED BY <1>1, <2>2, FoldsAssumption DEF FoldsTypeOK, Idle
  <1> QED BY <1>2 DEF IInv, Idle, Masked, DoneIsPurged, NearestIsPurged, PathIsDone, IdleIsEmpty

LEMMA LabelledInv == ASSUME IInv, Labelled PROVE IInv'
  <1>1. PICK n \in 1..MaxObs : \E h \in [0..(n - 1) -> 0..MaxHorizon] :
            Split(n, [o \in 0..(n - 1) |-> o + h[o]])
    BY DEF Labelled
  <1>2. PICK h \in [0..(n - 1) -> 0..MaxHorizon] :
            Split(n, [o \in 0..(n - 1) |-> o + h[o]])
    BY <1>1
  <1>3. /\ step = "idle" /\ step' = "next" /\ obs' = n
        /\ ends' = [o \in 0..(n - 1) |-> o + h[o]]
        /\ left' = Combos
        /\ tested' = [o \in 0..(n - 1) |-> 0]
        /\ UNCHANGED <<combo, rest, train>>
    BY <1>2 DEF Split
  <1>4. Observations' = 0..(n - 1) BY <1>3 DEF Observations
  <1>5. ends' \in [Observations' -> 0..(MaxObs + MaxHorizon)]
    <2>1. ASSUME NEW o \in 0..(n - 1) PROVE o + h[o] \in 0..(MaxObs + MaxHorizon)
      BY FoldsAssumption
    <2> QED BY <1>3, <1>4, <2>1
  <1>6. \A o \in Observations' : ends'[o] >= o
    <2> SUFFICES ASSUME NEW o \in 0..(n - 1) PROVE o + h[o] >= o
      BY <1>3, <1>4
    <2>1. h[o] \in 0..MaxHorizon OBVIOUS
    <2> QED BY <2>1, FoldsAssumption
  <1>7. train' \subseteq Observations'
    BY <1>3 DEF IInv, IdleIsEmpty
  <1>8. FoldsTypeOK'
    BY <1>3, <1>4, <1>5, <1>6, <1>7, FoldsAssumption
       DEF IInv, FoldsTypeOK, Combos
  <1> QED BY <1>3, <1>8
          DEF IInv, Masked, DoneIsPurged, NearestIsPurged, PathIsDone, IdleIsEmpty

LEMMA NextPathInv == ASSUME IInv, NextPath PROVE IInv'
  <1>1. /\ step = "next" /\ step' = "purge"
        /\ combo' = CHOOSE c \in left : TRUE
        /\ left # {}
        /\ left' = left \ {combo'}
        /\ rest' = combo'
        /\ train' = Observations \ UNION {Block(b) : b \in combo'}
        /\ UNCHANGED <<obs, ends, tested>>
    BY DEF NextPath
  <1>2. combo' \in left BY <1>1
  <1>3. combo' \in SUBSET (0..(Splits - 1))
    BY <1>2, CombosType DEF IInv, FoldsTypeOK
  <1>4. Observations' = Observations /\ Combos' = Combos
    BY <1>1 DEF Observations, Combos
  <1>5. \A b : Block(b)' = Block(b)
    BY <1>1 DEF Block, First, After, FoldSize
  <1>6. FoldsTypeOK'
    BY <1>1, <1>3, <1>4 DEF IInv, FoldsTypeOK
  <1>7. Masked'
    BY <1>1, <1>5 DEF Masked, Test
  <1>8. Done' = {} BY <1>1 DEF Done
  <1> QED BY <1>1, <1>6, <1>7, <1>8
          DEF IInv, DoneIsPurged, NearestIsPurged, PathIsDone, IdleIsEmpty

(* What the blocks are depends on the number of observations and the       *)
(* labels only.                                                            *)
LEMMA SameFolds ==
    ASSUME UNCHANGED <<obs, ends>>
    PROVE  /\ Observations' = Observations
           /\ Combos' = Combos
           /\ \A b : Block(b)' = Block(b)
           /\ \A o, b : Overlaps(o, b)' <=> Overlaps(o, b)
           /\ \A b : Embargoed(b)' = Embargoed(b)
  <1>1. Observations' = Observations BY DEF Observations
  <1>2. /\ FoldSize' = FoldSize
        /\ EmbargoSize' = EmbargoSize
    BY DEF FoldSize, EmbargoSize
  <1>3. \A b : First(b)' = First(b) /\ After(b)' = After(b)
    BY <1>2 DEF First, After
  <1>4. \A b : Latest(b)' = Latest(b) BY <1>3 DEF Latest
  <1>5. \A b : Block(b)' = Block(b) BY <1>3 DEF Block
  <1>6. \A o, b : Overlaps(o, b)' <=> Overlaps(o, b)
    BY <1>3, <1>4 DEF Overlaps
  <1>7. \A b : Embargoed(b)' = Embargoed(b)
    BY <1>1, <1>2, <1>3 DEF Embargoed
  <1>8. Combos' = Combos BY DEF Combos
  <1> QED BY <1>1, <1>5, <1>6, <1>7, <1>8

LEMMA PurgeInv == ASSUME IInv, Purge PROVE IInv'
  <1>1. /\ step = "purge" /\ step' = "embargo"
        /\ train' = {o \in train : ~Overlaps(o, Nearest)}
        /\ UNCHANGED <<obs, ends, left, combo, rest, tested>>
    BY DEF Purge
  <1>2. /\ Observations' = Observations
        /\ Combos' = Combos
        /\ \A b : Block(b)' = Block(b)
        /\ \A o, b : Overlaps(o, b)' <=> Overlaps(o, b)
        /\ \A b : Embargoed(b)' = Embargoed(b)
    BY <1>1, SameFolds
  <1>3. Test' = Test /\ Done' = Done /\ Nearest' = Nearest
    BY <1>1, <1>2 DEF Test, Done, Nearest
  <1>4. FoldsTypeOK' BY <1>1, <1>2 DEF IInv, FoldsTypeOK
  <1>5. Masked' BY <1>1, <1>3 DEF IInv, Masked
  <1>6. DoneIsPurged' BY <1>1, <1>2, <1>3 DEF IInv, DoneIsPurged
  <1>7. NearestIsPurged'
    <2>1. \A o \in train' : ~Overlaps(o, Nearest) BY <1>1
    <2> QED BY <2>1, <1>2, <1>3 DEF NearestIsPurged
  <1> QED BY <1>1, <1>4, <1>5, <1>6, <1>7 DEF IInv, PathIsDone, IdleIsEmpty

LEMMA EmbargoInv == ASSUME IInv, Embargo PROVE IInv'
  <1>1. /\ step = "embargo"
        /\ train' = train \ Embargoed(Nearest)
        /\ rest' = rest \ {Nearest}
        /\ step' = IF rest' = {} THEN "path" ELSE "purge"
        /\ UNCHANGED <<obs, ends, left, combo, tested>>
    BY DEF Embargo
  <1>2. /\ Observations' = Observations
        /\ Combos' = Combos
        /\ \A b : Block(b)' = Block(b)
        /\ \A o, b : Overlaps(o, b)' <=> Overlaps(o, b)
        /\ \A b : Embargoed(b)' = Embargoed(b)
    BY <1>1, SameFolds
  <1>3. Test' = Test BY <1>1, <1>2 DEF Test
  <1>4. FoldsTypeOK' BY <1>1, <1>2 DEF IInv, FoldsTypeOK
  <1>5. Masked' BY <1>1, <1>3 DEF IInv, Masked
  <1>6. DoneIsPurged'
    <2> SUFFICES ASSUME NEW b \in Done', NEW o \in train'
                 PROVE  ~Overlaps(o, b)' /\ o \notin Embargoed(b)'
      BY DEF DoneIsPurged
    <2>1. o \in train /\ o \notin Embargoed(Nearest) BY <1>1
    <2>2. b \in Done \/ b = Nearest BY <1>1 DEF Done
    <2>3. CASE b \in Done
      BY <1>1, <1>2, <2>1, <2>3 DEF IInv, DoneIsPurged
    <2>4. CASE b = Nearest
      BY <1>1, <1>2, <2>1, <2>4 DEF IInv, NearestIsPurged
    <2> QED BY <2>2, <2>3, <2>4
  <1> QED BY <1>1, <1>4, <1>5, <1>6
          DEF IInv, NearestIsPurged, PathIsDone, IdleIsEmpty

LEMMA YieldInv == ASSUME IInv, Yield PROVE IInv'
  <1>1. /\ step = "path" /\ step' = "next"
        /\ tested' = [o \in Observations |-> tested[o] + IF o \in Test THEN 1 ELSE 0]
        /\ UNCHANGED <<obs, ends, left, combo, rest, train>>
    BY DEF Yield
  <1>2. Observations' = Observations /\ Combos' = Combos
    BY <1>1 DEF Observations, Combos
  <1>3. tested' \in [Observations -> Nat]
    <2>1. tested \in [Observations -> Nat] BY DEF IInv, FoldsTypeOK
    <2>2. \A o \in Observations : tested[o] + (IF o \in Test THEN 1 ELSE 0) \in Nat
      BY <2>1
    <2> QED BY <1>1, <2>2
  <1>4. FoldsTypeOK' BY <1>1, <1>2, <1>3 DEF IInv, FoldsTypeOK
  <1> QED BY <1>1, <1>4
          DEF IInv, Masked, DoneIsPurged, NearestIsPurged, PathIsDone, IdleIsEmpty

LEMMA StutterInv ==
    ASSUME IInv, UNCHANGED <<obs, ends, left, combo, rest, train, tested>>,
           step' = step \/ step' = "done"
    PROVE  IInv'
  <1>1. /\ Observations' = Observations
        /\ Combos' = Combos
        /\ \A b : Block(b)' = Block(b)
        /\ \A o, b : Overlaps(o, b)' <=> Overlaps(o, b)
        /\ \A b : Embargoed(b)' = Embargoed(b)
    BY SameFolds
  <1>2. Test' = Test /\ Done' = Done /\ Nearest' = Nearest
    BY <1>1 DEF Test, Done, Nearest
  <1>3. FoldsTypeOK' BY <1>1 DEF IInv, FoldsTypeOK
  <1> QED BY <1>1, <1>2, <1>3
          DEF IInv, Masked, DoneIsPurged, NearestIsPurged, PathIsDone, IdleIsEmpty

LEMMA StepInv == IInv /\ [Labelled \/ Paths]_folds => IInv'
  <1> SUFFICES ASSUME IInv, [Labelled \/ Paths]_folds PROVE IInv' OBVIOUS
  <1>1. CASE Labelled BY <1>1, LabelledInv
  <1>2. CASE NextPath BY <1>2, NextPathInv
  <1>3. CASE Purge BY <1>3, PurgeInv
  <1>4. CASE Embargo BY <1>4, EmbargoInv
  <1>5. CASE Yield BY <1>5, YieldInv
  <1>6. CASE Exhausted BY <1>6, StutterInv DEF Exhausted
  <1>7. CASE UNCHANGED folds BY <1>7, StutterInv DEF folds
  <1> QED BY <1>1, <1>2, <1>3, <1>4, <1>5, <1>6, <1>7 DEF Paths

(* The inductive invariant of the split holds in every reachable state.    *)
THEOREM Invariance == FoldsSpec => []IInv
  BY InitInv, StepInv, PTL DEF FoldsSpec

(* Types: only observations are trained on, and only blocks are tested.    *)
THEOREM TypeCorrect == FoldsSpec => []FoldsTypeOK
  BY Invariance, PTL DEF IInv

-----------------------------------------------------------------------------
(* What was purged and embargoed around a block is too far from it.        *)
LEMMA FarFromBlock ==
    ASSUME FoldsTypeOK,
           NEW b \in 0..(Splits - 1), NEW x \in Block(b),
           NEW o \in Observations \ Block(b),
           ~Overlaps(o, b), o \notin Embargoed(b)
    PROVE  /\ ~(o <= x /\ x <= ends[o])
           /\ x < o => o > x + EmbargoSize
  <1>1. obs \in Nat BY FoldsAssumption DEF FoldsTypeOK
  <1>2. /\ First(b) \in Nat
        /\ After(b) \in 0..obs
        /\ Block(b) = First(b)..(After(b) - 1)
    BY <1>1, BlockType DEF Block
  <1>3. x \in Nat /\ First(b) <= x /\ x <= After(b) - 1 BY <1>2
  <1>4. Latest(b) = After(b) - 1 BY <1>2, <1>3 DEF Latest
  <1>5. o \in Nat /\ ends[o] \in Nat BY EndsType
  <1>6. EmbargoSize \in Nat BY <1>1, SizesType
  <1>7. ~(o <= x /\ x <= ends[o])
    BY <1>2, <1>3, <1>4, <1>5 DEF Overlaps
  <1>8. ASSUME x < o PROVE o > x + EmbargoSize
    <2>1. After(b) <= o BY <1>2, <1>3, <1>5, <1>8
    <2>2. ~(o < After(b) + EmbargoSize) BY <2>1 DEF Embargoed
    <2> QED BY <1>2, <1>3, <1>5, <1>6, <2>2
  <1> QED BY <1>7, <1>8

(* On a path that is given out nothing was learned from a tested           *)
(* observation, from a label that reaches into one, or too soon after one. *)
THEOREM PathsAreClean == FoldsSpec => []NothingLeaks
  <1>1. IInv => NothingLeaks
    <2> SUFFICES ASSUME IInv, step = "path", NEW o \in train, NEW x \in Test
                 PROVE  /\ ~(o <= x /\ x <= ends[o])
                        /\ x < o => o > x + EmbargoSize
                        /\ x < o /\ ends[x] <= x + EmbargoSize => ends[x] < o
      BY DEF NothingLeaks
    <2>1. FoldsTypeOK BY DEF IInv
    <2>2. PICK b \in combo : x \in Block(b) BY DEF Test
    <2>3. b \in 0..(Splits - 1) /\ b \in Done
      BY <2>1 DEF FoldsTypeOK, Done, IInv, PathIsDone
    <2>4. o \in Observations \ Block(b)
      BY <2>1, <2>2 DEF FoldsTypeOK, IInv, Masked, Test
    <2>5. ~Overlaps(o, b) /\ o \notin Embargoed(b)
      BY <2>3 DEF IInv, DoneIsPurged
    <2>6. ~(o <= x /\ x <= ends[o]) /\ (x < o => o > x + EmbargoSize)
      BY <2>1, <2>2, <2>3, <2>4, <2>5, FarFromBlock
    <2>7. obs \in Nat BY <2>1, FoldsAssumption DEF FoldsTypeOK
    <2>8. x \in Observations BY <2>2, <2>3, <2>7, BlockType
    <2>9. x \in Nat /\ ends[x] \in Nat /\ o \in Nat
      BY <2>1, <2>4, <2>8, EndsType
    <2>10. EmbargoSize \in Nat BY <2>7, SizesType
    <2> QED BY <2>6, <2>9, <2>10
  <1> QED BY Invariance, <1>1, PTL

-----------------------------------------------------------------------------
(* A path is under way for the combination that was taken last.            *)
OnPath == step \in {"purge", "embargo", "path"}

(* The combinations whose paths were given to the caller.                  *)
Given ==
    IF step = "idle" THEN {}
    ELSE {c \in Combos \ left : OnPath => c # combo}

(* Why o is not used on a path that tests x.                               *)
TooNear(o, x) == \/ o <= x /\ x <= ends[o]
                 \/ x < o /\ o <= x + EmbargoSize

(* The combination of a path is one of its own; while it is purged around, *)
(* a block is left.                                                        *)
OwnCombo == OnPath => combo \in Combos \ left
BlockIsLeft == step \in {"purge", "embargo"} => rest # {}
DoneIsLast == step = "done" => left = {}

(* Whatever the path leaves out was too near.                              *)
Explained ==
    OnPath /\ obs >= Splits =>
        \A o \in Observations \ (train \cup Test) : \E x \in Test : TooNear(o, x)

(* An observation is counted once for each path given that tests it.       *)
Testing(o) == {c \in Combos : \E b \in c : o \in Block(b)}
Counted == \A o \in Observations : tested[o] = Cardinality(Given \cap Testing(o))

HistoryInv ==
    /\ OwnCombo
    /\ BlockIsLeft
    /\ DoneIsLast
    /\ Explained
    /\ Counted

-----------------------------------------------------------------------------
(* The smallest of some of finitely many blocks.                           *)
LEMMA SmallestIs ==
    ASSUME NEW S \in SUBSET Nat, IsFiniteSet(S), S # {}
    PROVE  \E m \in S : \A c \in S : m <= c
  <1> DEFINE upTo(m) == {c \in S : c <= m}
             T == {upTo(m) : m \in S}
             R == StrictSubsetOrdering(S)
  <1>1. IsWellFoundedOn(R, SUBSET S)
    BY FS_StrictSubsetOrderingWellFounded, FS_FiniteSubsetsOfFinite
  <1>2. T \subseteq SUBSET S /\ T # {} OBVIOUS
  <1>3. \E X \in T : \A Y \in T : ~(<<Y, X>> \in R)
    <2> HIDE DEF T, R
    <2> QED BY <1>1, <1>2, WFMin
  <1>4. PICK m \in S : \A k \in S : ~(<<upTo(k), upTo(m)>> \in R)
    BY <1>3
  <1>5. ASSUME NEW c \in S, ~(m <= c) PROVE FALSE
    <2>1. m \in Nat /\ c \in Nat OBVIOUS
    <2>2. upTo(c) \subseteq upTo(m)
      <3>1. \A d \in Nat : d <= c => d <= m BY <2>1, <1>5
      <3> QED BY <3>1
    <2>3. m \in upTo(m) /\ m \notin upTo(c) BY <2>1, <1>5
    <2>4. \A X, Y \in SUBSET S : X \subseteq Y /\ X # Y => <<X, Y>> \in R
      BY DEF StrictSubsetOrdering
    <2>5. <<upTo(c), upTo(m)>> \in R
      <3>1. upTo(c) \in SUBSET S /\ upTo(m) \in SUBSET S OBVIOUS
      <3>2. upTo(c) # upTo(m) BY <2>3
      <3> HIDE DEF upTo, R
      <3> QED BY <2>2, <2>4, <3>1, <3>2
    <2> QED BY <1>4, <2>5
  <1> QED BY <1>5

LEMMA NearestIs ==
    ASSUME FoldsTypeOK, rest # {}
    PROVE  Nearest \in rest /\ \A c \in rest : Nearest <= c
  <1>1. rest \in SUBSET Nat BY FoldsAssumption DEF FoldsTypeOK
  <1>2. IsFiniteSet(0..(Splits - 1)) BY FS_Interval, FoldsAssumption
  <1>3. rest \in SUBSET (0..(Splits - 1)) BY DEF FoldsTypeOK
  <1>4. IsFiniteSet(rest) BY <1>2, <1>3, FS_Subset
  <1> QED BY <1>1, <1>4, SmallestIs DEF Nearest

(* There are finitely many combinations, none of them empty.               *)
LEMMA CombosFinite == IsFiniteSet(Combos)
  <1>1. IsFiniteSet(0..(Splits - 1)) BY FS_Interval, FoldsAssumption
  <1>2. IsFiniteSet(SUBSET (0..(Splits - 1))) BY <1>1, FS_SUBSET
  <1>3. Combos \in SUBSET (SUBSET (0..(Splits - 1))) BY CombosType
  <1> QED BY <1>2, <1>3, FS_Subset

LEMMA CombosNotEmpty == ASSUME NEW c \in Combos PROVE c # {}
  BY FS_EmptySet, FoldsAssumption DEF Combos, kSubset

(* With an observation for each, no block is empty.                        *)
LEMMA BlockHasEnds ==
    ASSUME obs \in Nat, obs >= Splits, NEW b \in 0..(Splits - 1)
    PROVE  /\ First(b) \in Block(b)
           /\ After(b) - 1 \in Block(b)
           /\ Latest(b) = After(b) - 1
           /\ First(b) \in Nat /\ After(b) \in Nat
  <1>1. /\ FoldSize \in Nat /\ FoldSize * Splits <= obs
        /\ First(b) \in Nat /\ After(b) \in 0..obs
    BY SizesType, BlockType
  <1>2. b \in Nat /\ Splits \in Nat \ {0} /\ b <= Splits - 1 BY FoldsAssumption
  <1>3. FoldSize >= 1
    <2>1. \A n \in Nat, k \in Nat \ {0} : n >= k => n \div k >= 1 OBVIOUS
    <2> QED BY <1>2, <2>1 DEF FoldSize
  <1>4. First(b) < After(b)
    <2> DEFINE F == FoldSize
    <2>1. b * F = F * b /\ (b + 1) * F = F * b + F /\ F * b \in Nat
      BY <1>1, <1>2, Multiples
    <2>2. CASE b < Splits - 1
      <3>1. After(b) = F * b + F /\ First(b) = F * b
        BY <2>1, <2>2 DEF After, First
      <3> HIDE DEF F
      <3> QED BY <1>1, <1>3, <2>1, <3>1 DEF F
    <2>3. CASE ~(b < Splits - 1)
      <3>1. F * (b + 1) <= F * Splits /\ F * (b + 1) \in Nat
        <4>1. b + 1 \in Nat /\ b + 1 <= Splits BY <1>2
        <4> QED BY <4>1, <1>1, <1>2, Multiples
      <3>2. F * (b + 1) = F * b + F BY <1>1, <1>2
      <3>3. F * Splits \in Nat BY <1>1, <1>2, Multiples
      <3>4. After(b) = obs /\ First(b) = F * b
        BY <2>1, <2>3 DEF After, First
      <3>5. F \in Nat /\ F >= 1 /\ F * Splits <= obs BY <1>1, <1>3
      <3> HIDE DEF F
      <3> QED BY <2>1, <3>1, <3>2, <3>3, <3>4, <3>5
    <2> QED BY <2>2, <2>3
  <1> QED BY <1>1, <1>4 DEF Block, Latest

(* What is purged around a block, or embargoed after it, is too near to    *)
(* one of its observations.                                                *)
LEMMA NearBlock ==
    ASSUME FoldsTypeOK, obs >= Splits, NEW b \in combo,
           NEW o \in Observations \ Test,
           Overlaps(o, b) \/ o \in Embargoed(b)
    PROVE  \E x \in Test : TooNear(o, x)
  <1>1. obs \in Nat /\ b \in 0..(Splits - 1)
    BY FoldsAssumption DEF FoldsTypeOK
  <1>2. /\ First(b) \in Block(b)
        /\ After(b) - 1 \in Block(b)
        /\ Latest(b) = After(b) - 1
        /\ First(b) \in Nat /\ After(b) \in Nat
    BY <1>1, BlockHasEnds
  <1>3. First(b) \in Test /\ After(b) - 1 \in Test BY <1>2 DEF Test
  <1>4. o \in Nat /\ ends[o] \in Nat BY EndsType
  <1>5. EmbargoSize \in Nat BY <1>1, SizesType
  <1>6. CASE Overlaps(o, b)
    <2>1. ends[o] >= First(b) /\ o <= After(b) - 1 BY <1>2, <1>6 DEF Overlaps
    <2>2. o \notin Block(b) BY DEF Test
    <2>3. o < First(b) BY <1>2, <1>4, <2>1, <2>2 DEF Block
    <2>4. TooNear(o, First(b)) BY <1>2, <1>4, <2>1, <2>3 DEF TooNear
    <2> QED BY <1>3, <2>4
  <1>7. CASE o \in Embargoed(b)
    <2>1. After(b) <= o /\ o < After(b) + EmbargoSize BY <1>7 DEF Embargoed
    <2>2. TooNear(o, After(b) - 1) BY <1>2, <1>4, <1>5, <2>1 DEF TooNear
    <2> QED BY <1>3, <2>2
  <1> QED BY <1>6, <1>7

(* A step that leaves obs, ends and combo alone leaves alone what is tested*)
(* and what is too near to it.                                             *)
LEMMA SameTest ==
    ASSUME UNCHANGED <<obs, ends, combo>>
    PROVE  /\ Test' = Test
           /\ Observations' = Observations
           /\ \A o, x : TooNear(o, x)' <=> TooNear(o, x)
           /\ \A o : Testing(o)' = Testing(o)
  <1>1. /\ Observations' = Observations
        /\ Combos' = Combos
        /\ \A b : Block(b)' = Block(b)
    BY SameFolds
  <1>2. EmbargoSize' = EmbargoSize BY DEF EmbargoSize
  <1>3. Test' = Test BY <1>1 DEF Test
  <1>4. \A o, x : TooNear(o, x)' <=> TooNear(o, x) BY <1>2 DEF TooNear
  <1>5. \A o : Testing(o)' = Testing(o) BY <1>1 DEF Testing
  <1> QED BY <1>1, <1>3, <1>4, <1>5

LEMMA HistoryInit == Idle => HistoryInv
  <1> SUFFICES ASSUME Idle PROVE HistoryInv OBVIOUS
  <1>1. Observations = {} BY DEF Idle, Observations
  <1>2. step = "idle" BY DEF Idle
  <1> QED BY <1>1, <1>2
          DEF HistoryInv, OwnCombo, BlockIsLeft, DoneIsLast, Explained, Counted, OnPath

LEMMA SplitHistory ==
    ASSUME IInv, HistoryInv, NEW n, NEW e, Split(n, e)
    PROVE  HistoryInv' /\ Given' = Given
  <1>1. /\ step = "idle" /\ step' = "next" /\ obs' = n /\ left' = Combos
        /\ tested' = [o \in 0..(n - 1) |-> 0]
    BY DEF Split
  <1>2. Combos' = Combos BY DEF Combos
  <1>3. Given' = {} /\ Given = {} BY <1>1, <1>2 DEF Given, OnPath
  <1>4. Observations' = 0..(n - 1) BY <1>1 DEF Observations
  <1>5. Counted'
    <2> SUFFICES ASSUME NEW o \in Observations'
                 PROVE  tested'[o] = Cardinality(Given' \cap Testing(o)')
      BY DEF Counted
    <2>1. Given' \cap Testing(o)' = {} BY <1>3
    <2>2. tested'[o] = 0 BY <1>1, <1>4
    <2> QED BY <2>1, <2>2, FS_EmptySet
  <1> QED BY <1>1, <1>3, <1>5
          DEF HistoryInv, OwnCombo, BlockIsLeft, DoneIsLast, Explained, OnPath

(* A new path: nothing is given yet, and all that is not tested is used.   *)
LEMMA NextPathHistory ==
    ASSUME IInv, HistoryInv, NextPath PROVE HistoryInv' /\ Given' = Given
  <1>1. /\ step = "next" /\ step' = "purge"
        /\ combo' \in left
        /\ left' = left \ {combo'}
        /\ rest' = combo'
        /\ train' = Observations \ UNION {Block(b) : b \in combo'}
        /\ UNCHANGED <<obs, ends, tested>>
    BY DEF NextPath
  <1>2. /\ Observations' = Observations
        /\ Combos' = Combos
        /\ \A b : Block(b)' = Block(b)
    BY <1>1, SameFolds
  <1>3. left \subseteq Combos BY DEF IInv, FoldsTypeOK
  <1>4. OnPath' /\ ~OnPath BY <1>1 DEF OnPath
  <1>5. Given' = Given BY <1>1, <1>2, <1>3, <1>4 DEF Given
  <1>6. OwnCombo' BY <1>1, <1>2, <1>3 DEF OwnCombo
  <1>7. BlockIsLeft' BY <1>1, <1>3, CombosNotEmpty DEF BlockIsLeft
  <1>8. Test' = UNION {Block(b) : b \in combo'} BY <1>2 DEF Test
  <1>9. Explained' BY <1>1, <1>2, <1>8 DEF Explained
  <1>10. \A o : Testing(o)' = Testing(o) BY <1>2 DEF Testing
  <1>11. Counted' BY <1>1, <1>2, <1>5, <1>10 DEF Counted, HistoryInv
  <1> QED BY <1>1, <1>5, <1>6, <1>7, <1>9, <1>11 DEF HistoryInv, DoneIsLast

(* The block that is purged around explains what it takes away.            *)
LEMMA PathHistory ==
    ASSUME IInv, HistoryInv, OnPath,
           UNCHANGED <<obs, ends, left, combo, tested>>,
           OnPath',
           \A o \in train \ train' :
               \E b \in combo : Overlaps(o, b) \/ o \in Embargoed(b)
    PROVE  OwnCombo' /\ Explained' /\ Counted' /\ Given' = Given
  <1>1. /\ Test' = Test
        /\ Observations' = Observations
        /\ \A o, x : TooNear(o, x)' <=> TooNear(o, x)
        /\ \A o : Testing(o)' = Testing(o)
    BY SameTest
  <1>2. Combos' = Combos BY DEF Combos
  <1>3. OwnCombo' BY <1>2 DEF OwnCombo, HistoryInv
  <1>4. Given' = Given
    <2>1. step # "idle" /\ step' # "idle" BY DEF OnPath
    <2> QED BY <1>2, <2>1 DEF Given
  <1>5. Counted' BY <1>1, <1>4 DEF Counted, HistoryInv
  <1>6. ASSUME obs >= Splits, NEW o \in Observations \ (train' \cup Test)
        PROVE  \E x \in Test : TooNear(o, x)
    <2>1. CASE o \notin train
      BY <1>6, <2>1 DEF Explained, HistoryInv
    <2>2. CASE o \in train
      <3>1. PICK b \in combo : Overlaps(o, b) \/ o \in Embargoed(b) BY <2>2
      <3> QED BY <1>6, <3>1, NearBlock DEF IInv
    <2> QED BY <2>1, <2>2
  <1>7. Explained' BY <1>1, <1>6 DEF Explained
  <1> QED BY <1>3, <1>4, <1>5, <1>7

LEMMA PurgeHistory ==
    ASSUME IInv, HistoryInv, Purge PROVE HistoryInv' /\ Given' = Given
  <1>1. /\ step = "purge" /\ step' = "embargo"
        /\ train' = {o \in train : ~Overlaps(o, Nearest)}
        /\ UNCHANGED <<obs, ends, left, combo, rest, tested>>
    BY DEF Purge
  <1>2. OnPath /\ OnPath' BY <1>1 DEF OnPath
  <1>3. rest # {} /\ rest \subseteq combo /\ FoldsTypeOK
    BY <1>1 DEF HistoryInv, BlockIsLeft, IInv, FoldsTypeOK
  <1>4. Nearest \in combo BY <1>3, NearestIs
  <1>5. OwnCombo' /\ Explained' /\ Counted' /\ Given' = Given
    BY <1>1, <1>2, <1>4, PathHistory
  <1> QED BY <1>1, <1>3, <1>5 DEF HistoryInv, BlockIsLeft, DoneIsLast

LEMMA EmbargoHistory ==
    ASSUME IInv, HistoryInv, Embargo PROVE HistoryInv' /\ Given' = Given
  <1>1. /\ step = "embargo"
        /\ train' = train \ Embargoed(Nearest)
        /\ rest' = rest \ {Nearest}
        /\ step' = IF rest' = {} THEN "path" ELSE "purge"
        /\ UNCHANGED <<obs, ends, left, combo, tested>>
    BY DEF Embargo
  <1>2. OnPath /\ OnPath' BY <1>1 DEF OnPath
  <1>3. rest # {} /\ rest \subseteq combo /\ FoldsTypeOK
    BY <1>1 DEF HistoryInv, BlockIsLeft, IInv, FoldsTypeOK
  <1>4. Nearest \in combo BY <1>3, NearestIs
  <1>5. OwnCombo' /\ Explained' /\ Counted' /\ Given' = Given
    BY <1>1, <1>2, <1>4, PathHistory
  <1> QED BY <1>1, <1>5 DEF HistoryInv, BlockIsLeft, DoneIsLast

(* The path that is given is counted for what it tests.                    *)
LEMMA YieldHistory ==
    ASSUME IInv, HistoryInv, Yield
    PROVE  /\ HistoryInv'
           /\ Given' = Given \cup {combo}
           /\ combo \notin Given
  <1>1. /\ step = "path" /\ step' = "next"
        /\ tested' = [o \in Observations |-> tested[o] + IF o \in Test THEN 1 ELSE 0]
        /\ UNCHANGED <<obs, ends, left, combo, rest, train>>
    BY DEF Yield
  <1>2. /\ Observations' = Observations
        /\ \A o : Testing(o)' = Testing(o)
    BY <1>1, SameTest
  <1>3. OnPath /\ ~OnPath' BY <1>1 DEF OnPath
  <1>4. combo \in Combos \ left BY <1>3 DEF HistoryInv, OwnCombo
  <1>5. Combos' = Combos BY DEF Combos
  <1>6. Given' = Given \cup {combo} /\ combo \notin Given
    BY <1>1, <1>3, <1>4, <1>5 DEF Given
  <1>7. IsFiniteSet(Given)
    <2>1. Given \in SUBSET Combos BY DEF Given
    <2> QED BY <2>1, CombosFinite, FS_Subset
  <1>8. ASSUME NEW o \in Observations
        PROVE  tested'[o] = Cardinality(Given' \cap Testing(o))
    <2> DEFINE G == Given \cap Testing(o)
    <2>1. IsFiniteSet(G) BY <1>7, FS_Subset
    <2>2. tested[o] = Cardinality(G) /\ Cardinality(G) \in Nat
      BY <2>1, FS_CardinalityType DEF HistoryInv, Counted
    <2>3. o \in Test <=> combo \in Testing(o)
      BY <1>4 DEF Test, Testing
    <2>4. CASE o \in Test
      <3>1. Given' \cap Testing(o) = G \cup {combo} BY <1>6, <2>3, <2>4
      <3>2. combo \notin G BY <1>6
      <3>3. Cardinality(G \cup {combo}) = Cardinality(G) + 1
        BY <2>1, <3>2, FS_AddElement
      <3> QED BY <1>1, <2>2, <2>4, <3>1, <3>3
    <2>5. CASE o \notin Test
      <3>1. Given' \cap Testing(o) = G BY <1>6, <2>3, <2>5
      <3> HIDE DEF G
      <3> QED BY <1>1, <2>2, <2>5, <3>1
    <2> QED BY <2>4, <2>5
  <1>9. Counted' BY <1>2, <1>8 DEF Counted
  <1> QED BY <1>1, <1>3, <1>6, <1>9
          DEF HistoryInv, OwnCombo, BlockIsLeft, DoneIsLast, Explained

LEMMA StutterHistory ==
    ASSUME HistoryInv, UNCHANGED <<obs, ends, left, combo, rest, train, tested>>,
           \/ step' = step
           \/ step = "next" /\ left = {} /\ step' = "done"
    PROVE  HistoryInv' /\ Given' = Given
  <1>1. /\ Test' = Test
        /\ Observations' = Observations
        /\ \A o, x : TooNear(o, x)' <=> TooNear(o, x)
        /\ \A o : Testing(o)' = Testing(o)
    BY SameTest
  <1>2. Combos' = Combos BY DEF Combos
  <1>3. OnPath' <=> OnPath BY DEF OnPath
  <1>4. Given' = Given
    <2>1. step' = "idle" <=> step = "idle" OBVIOUS
    <2> QED BY <1>2, <1>3, <2>1 DEF Given
  <1>5. OwnCombo' BY <1>2, <1>3 DEF OwnCombo, HistoryInv
  <1>6. BlockIsLeft' /\ DoneIsLast' BY DEF BlockIsLeft, DoneIsLast, HistoryInv
  <1>7. Explained' BY <1>1, <1>3 DEF Explained, HistoryInv
  <1>8. Counted' BY <1>1, <1>4 DEF Counted, HistoryInv
  <1> QED BY <1>4, <1>5, <1>6, <1>7, <1>8 DEF HistoryInv

LEMMA HistoryStep == IInv /\ HistoryInv /\ [Labelled \/ Paths]_folds => HistoryInv'
  <1> SUFFICES ASSUME IInv, HistoryInv, [Labelled \/ Paths]_folds PROVE HistoryInv'
    OBVIOUS
  <1>1. CASE Labelled BY <1>1, SplitHistory DEF Labelled
  <1>2. CASE NextPath BY <1>2, NextPathHistory
  <1>3. CASE Purge BY <1>3, PurgeHistory
  <1>4. CASE Embargo BY <1>4, EmbargoHistory
  <1>5. CASE Yield BY <1>5, YieldHistory
  <1>6. CASE Exhausted BY <1>6, StutterHistory DEF Exhausted
  <1>7. CASE UNCHANGED folds BY <1>7, StutterHistory DEF folds
  <1> QED BY <1>1, <1>2, <1>3, <1>4, <1>5, <1>6, <1>7 DEF Paths

-----------------------------------------------------------------------------
(* Every observation is in one block only.                                 *)
LEMMA OneBlock ==
    ASSUME obs \in Nat, NEW b \in 0..(Splits - 1), NEW c \in 0..(Splits - 1),
           NEW o, o \in Block(b), o \in Block(c), b < c
    PROVE  FALSE
  <1> DEFINE F == FoldSize
  <1>1. F \in Nat BY SizesType
  <1>2. b \in Nat /\ c \in Nat /\ b + 1 <= c /\ b < Splits - 1 BY FoldsAssumption
  <1>3. F * (b + 1) \in Nat /\ F * (b + 1) <= F * c /\ F * c \in Nat
    BY <1>1, <1>2, Multiples
  <1>4. (b + 1) * F = F * (b + 1) /\ c * F = F * c BY <1>1, <1>2
  <1>5. After(b) = F * (b + 1) /\ First(c) = F * c
    BY <1>2, <1>4 DEF After, First
  <1>6. First(b) \in Nat /\ After(c) \in Nat BY BlockType
  <1>7. o \in Int /\ o <= After(b) - 1 /\ First(c) <= o
    BY <1>3, <1>5, <1>6 DEF Block
  <1> HIDE DEF F
  <1> QED BY <1>3, <1>5, <1>7

(* And in one at least, if none of them is empty.                          *)
LEMMA SomeBlock ==
    ASSUME obs \in Nat, obs >= Splits, NEW o \in Observations
    PROVE  \E b \in 0..(Splits - 1) : o \in Block(b)
  <1> DEFINE F == FoldSize
             q == o \div F
  <1>1. F \in Nat /\ Splits \in Nat \ {0} BY SizesType, FoldsAssumption
  <1>2. F \in Nat \ {0}
    <2>1. \A n \in Nat, k \in Nat \ {0} : n >= k => n \div k >= 1 OBVIOUS
    <2>2. F >= 1 BY <1>1, <2>1 DEF FoldSize
    <2> QED BY <1>1, <2>2
  <1>3. o \in Nat /\ o <= obs - 1 BY DEF Observations
  <1>4. q \in Nat /\ F * q <= o /\ o < F * q + F
    <2>1. \A n \in Nat, k \in Nat \ {0} :
              n \div k \in Nat /\ k * (n \div k) <= n /\ n < k * (n \div k) + k
      OBVIOUS
    <2> HIDE DEF F
    <2> QED BY <1>2, <1>3, <2>1
  <1>5. \A b \in 0..(Splits - 1) : /\ First(b) = F * b
                                   /\ (b + 1) * F = F * b + F
                                   /\ F * b \in Nat
    <2> SUFFICES ASSUME NEW b \in 0..(Splits - 1)
                 PROVE  First(b) = F * b /\ (b + 1) * F = F * b + F /\ F * b \in Nat
      OBVIOUS
    <2>1. b \in Nat BY <1>1
    <2>2. b * F = F * b /\ (b + 1) * F = F * b + F /\ F * b \in Nat
      BY <1>1, <2>1, Multiples
    <2> QED BY <2>2 DEF First
  <1>6. CASE q < Splits - 1
    <2>1. q \in 0..(Splits - 1) BY <1>1, <1>4, <1>6
    <2>2. First(q) = F * q /\ After(q) = F * q + F
      BY <1>5, <1>6, <2>1 DEF After
    <2>3. F * q \in Nat BY <1>5, <2>1
    <2> HIDE DEF F, q
    <2>4. o \in First(q)..(After(q) - 1) BY <1>1, <1>3, <1>4, <2>2, <2>3
    <2> QED BY <2>1, <2>4 DEF Block
  <1>7. CASE ~(q < Splits - 1)
    <2> DEFINE b == Splits - 1
    <2>1. b \in 0..(Splits - 1) /\ b \in Nat /\ b <= q BY <1>1, <1>4, <1>7
    <2>2. F * b <= F * q /\ F * b \in Nat /\ F * q \in Nat
      <3> HIDE DEF F, q, b
      <3> QED BY <1>1, <1>4, <2>1, Multiples
    <2>3. First(b) = F * b
      <3> HIDE DEF F, b
      <3> QED BY <1>5, <2>1
    <2>4. After(b) = obs BY <1>1 DEF After
    <2> HIDE DEF F, q, b
    <2>5. o \in First(b)..(After(b) - 1) BY <1>3, <1>4, <2>2, <2>3, <2>4
    <2> QED BY <2>1, <2>5 DEF Block
  <1> QED BY <1>6, <1>7

(* Combinations that test a block.                                         *)
With(b) == {c \in Combos : b \in c}

(* Exchanging two blocks makes combinations with one those with the other. *)
Exchanged(c, a, b) ==
    {e \in 0..(Splits - 1) : IF e = a THEN b \in c ELSE IF e = b THEN a \in c ELSE e \in c}

LEMMA ExchangeType ==
    ASSUME NEW a \in 0..(Splits - 1), NEW b \in 0..(Splits - 1), NEW c \in With(a)
    PROVE  Exchanged(c, a, b) \in With(b)
  <1> DEFINE d == Exchanged(c, a, b)
             f == [e \in c |-> IF e = a THEN b ELSE IF e = b THEN a ELSE e]
  <1>1. c \in Combos /\ c \in SUBSET (0..(Splits - 1)) /\ a \in c
    BY CombosType DEF With
  <1>2. f \in [c -> d]
    <2>1. \A e \in c : (IF e = a THEN b ELSE IF e = b THEN a ELSE e) \in d
      BY <1>1 DEF Exchanged
    <2> QED BY <2>1
  <1>3. \A x, y \in c : f[x] = f[y] => x = y OBVIOUS
  <1>4. \A e \in d : \E x \in c : f[x] = e
    <2> SUFFICES ASSUME NEW e \in d PROVE \E x \in c : f[x] = e OBVIOUS
    <2>1. CASE e = a
      <3>1. b \in c BY <2>1 DEF Exchanged
      <3>2. f[b] = e BY <2>1, <3>1
      <3> QED BY <3>1, <3>2
    <2>2. CASE e # a /\ e = b
      <3>1. f[a] = e BY <1>1, <2>2
      <3> QED BY <1>1, <3>1
    <2>3. CASE e # a /\ e # b
      <3>1. e \in c BY <2>3 DEF Exchanged
      <3>2. f[e] = e BY <2>3, <3>1
      <3> QED BY <3>1, <3>2
    <2> QED BY <2>1, <2>2, <2>3
  <1> HIDE DEF f
  <1>5. f \in Bijection(c, d) BY <1>2, <1>3, <1>4, Fun_IsBij
  <1>6. IsFiniteSet(c)
    <2>1. IsFiniteSet(0..(Splits - 1)) BY FS_Interval, FoldsAssumption
    <2> QED BY <1>1, <2>1, FS_Subset
  <1>7. Cardinality(d) = Cardinality(c)
    <2>1. ExistsBijection(c, d) BY <1>5 DEF ExistsBijection
    <2> HIDE DEF d
    <2> QED BY <1>6, <2>1, FS_Bijection
  <1>8. d \in SUBSET (0..(Splits - 1)) /\ b \in d
    BY <1>1 DEF Exchanged
  <1> QED BY <1>1, <1>7, <1>8 DEF With, Combos, kSubset

(* Every block is tested on the same number of paths.                      *)
LEMMA BlocksAreAlike ==
    ASSUME NEW a \in 0..(Splits - 1), NEW b \in 0..(Splits - 1)
    PROVE  Cardinality(With(a)) = Cardinality(With(b))
  <1> DEFINE f == [c \in With(a) |-> Exchanged(c, a, b)]
  <1>1. f \in [With(a) -> With(b)] BY ExchangeType
  <1>2. \A c \in With(a) \cup With(b) : c \in SUBSET (0..(Splits - 1))
    BY CombosType DEF With
  <1>3. \A c \in With(a) : c = Exchanged(Exchanged(c, a, b), b, a)
    BY <1>2 DEF Exchanged
  <1>4. \A c \in With(b) : c = Exchanged(Exchanged(c, b, a), a, b)
    BY <1>2 DEF Exchanged
  <1>5. \A c, d \in With(a) : f[c] = f[d] => c = d BY <1>3
  <1>6. \A d \in With(b) : \E c \in With(a) : f[c] = d
    <2> SUFFICES ASSUME NEW d \in With(b) PROVE \E c \in With(a) : f[c] = d OBVIOUS
    <2>1. Exchanged(d, b, a) \in With(a) BY ExchangeType
    <2> QED BY <1>4, <2>1
  <1>7. f \in Bijection(With(a), With(b))
    <2> HIDE DEF f
    <2> QED BY <1>1, <1>5, <1>6, Fun_IsBij
  <1>8. IsFiniteSet(With(a))
    <2>1. With(a) \in SUBSET Combos BY DEF With
    <2> QED BY <2>1, CombosFinite, FS_Subset
  <1>9. ExistsBijection(With(a), With(b)) BY <1>7 DEF ExistsBijection
  <1> QED BY <1>8, <1>9, FS_Bijection

LEMMA TestingIsWith ==
    ASSUME obs \in Nat, NEW b \in 0..(Splits - 1), NEW o \in Block(b)
    PROVE  Testing(o) = With(b)
  <1>1. ASSUME NEW c \in Combos, NEW e \in c, o \in Block(e) PROVE e = b
    <2>1. e \in 0..(Splits - 1) BY CombosType
    <2>2. ~(e < b) /\ ~(b < e) BY <1>1, <2>1, OneBlock
    <2> QED BY <2>1, <2>2
  <1> QED BY <1>1 DEF Testing, With

(* Nothing of the history is wasted: what a path leaves out was too near   *)
(* to what it tests, and every observation is tested equally often.        *)
THEOREM HistoryIsUsed == FoldsSpec => []HistoryUsed
  <1>1. IInv /\ HistoryInv => HistoryUsed
    <2> SUFFICES ASSUME IInv, HistoryInv, obs >= Splits PROVE
              /\ step = "path" =>
                    \A o \in Observations \ (train \cup Test) :
                        \E x \in Test : TooNear(o, x)
              /\ step = "done" =>
                    \A o \in Observations : tested[o] = Cardinality(With(0))
      BY DEF HistoryUsed, TooNear, With
    <2>1. step = "path" => OnPath BY DEF OnPath
    <2>2. ASSUME step = "done", NEW o \in Observations
          PROVE  tested[o] = Cardinality(With(0))
      <3>1. obs \in Nat BY FoldsAssumption DEF IInv, FoldsTypeOK
      <3>2. PICK b \in 0..(Splits - 1) : o \in Block(b) BY <3>1, SomeBlock
      <3>3. Testing(o) = With(b) BY <3>1, <3>2, TestingIsWith
      <3>4. Given = Combos BY <2>2 DEF Given, OnPath, HistoryInv, DoneIsLast
      <3>5. Given \cap Testing(o) = With(b) BY <3>3, <3>4 DEF With
      <3>6. 0 \in 0..(Splits - 1) BY FoldsAssumption
      <3>7. Cardinality(With(b)) = Cardinality(With(0)) BY <3>6, BlocksAreAlike
      <3> QED BY <3>5, <3>7 DEF HistoryInv, Counted
    <2> QED BY <2>1, <2>2 DEF HistoryInv, Explained
  <1> QED BY Invariance, HistoryInit, HistoryStep, <1>1, PTL DEF FoldsSpec

-----------------------------------------------------------------------------
(* A backtest splits like any other caller: with instant labels.           *)
PricesType == prices \in Seq(Prices) /\ Len(prices) <= MaxBars

LEMMA PricesInit == Init => PricesType
  BY BacktestAssumption DEF Init, PricesType

LEMMA PricesStep == PricesType /\ [Next]_vars => PricesType'
  <1> SUFFICES ASSUME PricesType, [Next]_vars PROVE PricesType' OBVIOUS
  <1>1. CASE \E p \in Prices : Load(p)
    <2>1. PICK p \in Prices : Load(p) BY <1>1
    <2>2. prices' = Append(prices, p) /\ Len(prices) < MaxBars BY <2>1 DEF Load
    <2>3. Append(prices, p) \in Seq(Prices) /\ Len(Append(prices, p)) = Len(prices) + 1
      BY DEF PricesType
    <2>4. Len(prices) \in Nat BY DEF PricesType
    <2> QED BY <2>2, <2>3, <2>4, BacktestAssumption DEF PricesType
  <1>2. CASE UNCHANGED prices BY <1>2 DEF PricesType
  <1>3. BacktestOne \/ Fold \/ Score \/ Scored \/ Execute \/ Research => UNCHANGED prices
    BY DEF BacktestOne, Fold, Score, Scored, Execute, Research, series
  <1>4. UNCHANGED vars => UNCHANGED prices BY DEF vars, series
  <1> QED BY <1>1, <1>2, <1>3, <1>4 DEF Next

LEMMA BacktestFolds == PricesType /\ [Next]_vars => [Labelled \/ Paths]_folds
  <1> SUFFICES ASSUME PricesType, [Next]_vars PROVE [Labelled \/ Paths]_folds OBVIOUS
  <1>1. CASE \E p \in Prices : Load(p)
    BY <1>1 DEF Load
  <1>2. CASE BacktestOne
    <2>1. CASE Insufficient
      BY <1>2, <2>1 DEF BacktestOne
    <2>2. CASE ~Insufficient
      <3> DEFINE n == Len(prices)
                 h == [o \in 0..(n - 1) |-> 0]
      <3>1. Split(n, [o \in 0..(n - 1) |-> o]) BY <1>2, <2>2 DEF BacktestOne
      <3>2. n \in 1..MaxObs
        <4>1. n \in Nat /\ n <= MaxBars BY DEF PricesType
        <4>2. n # 0
          <5>1. n = 0 => Bars = {} BY DEF Bars
          <5> QED BY <5>1, <2>2 DEF Insufficient, Flat
        <4> QED BY <4>1, <4>2, BacktestAssumption, FoldsAssumption
      <3>3. h \in [0..(n - 1) -> 0..MaxHorizon] BY FoldsAssumption
      <3>4. [o \in 0..(n - 1) |-> o] = [o \in 0..(n - 1) |-> o + h[o]] OBVIOUS
      <3> HIDE DEF n, h
      <3> QED BY <3>1, <3>2, <3>3, <3>4 DEF Labelled
    <2> QED BY <2>1, <2>2
  <1>3. CASE Fold BY <1>3 DEF Fold, Paths
  <1>4. CASE Score BY <1>4 DEF Score, Paths
  <1>5. CASE Scored BY <1>5 DEF Scored, Paths
  <1>6. CASE Execute BY <1>6 DEF Execute
  <1>7. CASE Research BY <1>7 DEF Research, Paths
  <1>8. CASE UNCHANGED vars BY <1>8 DEF vars
  <1> QED BY <1>1, <1>2, <1>3, <1>4, <1>5, <1>6, <1>7, <1>8 DEF Next

LEMMA BacktestIsFolds == Spec => FoldsSpec
  <1>1. Init => Idle BY DEF Init
  <1>2. Spec => []PricesType BY PricesInit, PricesStep, PTL DEF Spec
  <1> QED BY <1>1, <1>2, BacktestFolds, PTL DEF Spec, FoldsSpec

(* The paths of a backtest are clean too.                                  *)
THEOREM BacktestIsClean == Spec => []NothingLeaks
  BY BacktestIsFolds, PathsAreClean, PTL

(* A backtest wastes nothing of the history either.                        *)
THEOREM BacktestUsesHistory == Spec => []HistoryUsed
  BY BacktestIsFolds, HistoryIsUsed, PTL

-----------------------------------------------------------------------------
(* The paths of a backtest that count are among those that were given.     *)
UsedInv == used \in Nat /\ used <= Cardinality(Given)

(* The inputs of a backtest stay what they are.                            *)
InputsType ==
    /\ asked \in Hypothesis \cup {NoHypothesis}
    /\ fee \in Fees
    /\ verdict \in {"none", "refused", "insufficient", "scored"}

BacktestInv == PricesType /\ InputsType /\ IInv /\ HistoryInv /\ UsedInv

LEMMA GivenGrows ==
    ASSUME IInv, HistoryInv, [Labelled \/ Paths]_folds
    PROVE  /\ Cardinality(Given) \in Nat /\ Cardinality(Given') \in Nat
           /\ Cardinality(Given) <= Cardinality(Given')
           /\ Yield => Cardinality(Given') = Cardinality(Given) + 1
  <1>1. IsFiniteSet(Given)
    <2>1. Given \in SUBSET Combos BY DEF Given
    <2> QED BY <2>1, CombosFinite, FS_Subset
  <1>2. Cardinality(Given) \in Nat BY <1>1, FS_CardinalityType
  <1>3. CASE Yield
    <2>1. Given' = Given \cup {combo} /\ combo \notin Given
      BY <1>3, YieldHistory
    <2>2. Cardinality(Given') = Cardinality(Given) + 1
      BY <1>1, <2>1, FS_AddElement
    <2> QED BY <1>2, <2>2
  <1>4. CASE ~Yield
    <2>1. Labelled => Given' = Given BY SplitHistory DEF Labelled
    <2>2. NextPath => Given' = Given BY NextPathHistory
    <2>3. Purge => Given' = Given BY PurgeHistory
    <2>4. Embargo => Given' = Given BY EmbargoHistory
    <2>5. Exhausted => Given' = Given BY StutterHistory DEF Exhausted
    <2>6. UNCHANGED folds => Given' = Given BY StutterHistory DEF folds
    <2>7. Given' = Given BY <1>4, <2>1, <2>2, <2>3, <2>4, <2>5, <2>6 DEF Paths
    <2> QED BY <1>2, <1>4, <2>7
  <1> QED BY <1>3, <1>4

LEMMA BacktestInit == Init => BacktestInv
  <1> SUFFICES ASSUME Init PROVE BacktestInv OBVIOUS
  <1>1. PricesType BY PricesInit
  <1>2. InputsType BY BacktestAssumption DEF Init, InputsType
  <1>3. IInv /\ HistoryInv BY InitInv, HistoryInit DEF Init
  <1>4. UsedInv
    <2>1. Given = {} BY DEF Init, Idle, Given
    <2> QED BY <2>1, FS_EmptySet DEF Init, UsedInv
  <1> QED BY <1>1, <1>2, <1>3, <1>4 DEF BacktestInv

LEMMA BacktestStep == BacktestInv /\ [Next]_vars => BacktestInv'
  <1> SUFFICES ASSUME BacktestInv, [Next]_vars PROVE BacktestInv' OBVIOUS
  <1>1. PricesType /\ InputsType /\ IInv /\ HistoryInv /\ UsedInv
    BY DEF BacktestInv
  <1>2. PricesType' BY <1>1, PricesStep
  <1>3. [Labelled \/ Paths]_folds BY <1>1, BacktestFolds
  <1>4. IInv' /\ HistoryInv' BY <1>1, <1>3, StepInv, HistoryStep
  <1>5. InputsType'
    <2>1. asked' = asked /\ fee' = fee
      BY DEF Next, Load, BacktestOne, Fold, Score, Scored, Execute, Research, series, vars
    <2>2. verdict' \in {verdict, "refused", "insufficient", "scored"}
      BY DEF Next, Load, BacktestOne, Fold, Score, Scored, Execute, Research, vars
    <2> QED BY <1>1, <2>1, <2>2 DEF InputsType
  <1>6. UsedInv'
    <2>1. /\ Cardinality(Given) \in Nat /\ Cardinality(Given') \in Nat
          /\ Cardinality(Given) <= Cardinality(Given')
          /\ Yield => Cardinality(Given') = Cardinality(Given) + 1
      BY <1>1, <1>3, GivenGrows
    <2>2. used \in Nat /\ used <= Cardinality(Given) BY <1>1 DEF UsedInv
    <2>3. CASE Score
      <3>1. Yield /\ used' \in {used, used + 1} BY <2>3 DEF Score
      <3> QED BY <2>1, <2>2, <3>1 DEF UsedInv
    <2>4. CASE used' = used BY <2>1, <2>2, <2>4 DEF UsedInv
    <2>5. Score \/ used' = used
      BY DEF Next, Load, BacktestOne, Fold, Scored, Execute, Research, vars
    <2> QED BY <2>3, <2>4, <2>5
  <1> QED BY <1>2, <1>4, <1>5, <1>6 DEF BacktestInv

(* The inductive invariant of a backtest and its paths.                    *)
THEOREM BacktestInvariance == Spec => []BacktestInv
  BY BacktestInit, BacktestStep, PTL DEF Spec

(* Types of a backtest: no more paths count than there are.                *)
THEOREM BacktestTypes == Spec => []TypeOK
  <1>1. BacktestInv => TypeOK
    <2> SUFFICES ASSUME BacktestInv PROVE TypeOK OBVIOUS
    <2>1. PricesType /\ InputsType /\ FoldsTypeOK /\ UsedInv BY DEF BacktestInv, IInv
    <2>2. Given \in SUBSET Combos BY DEF Given
    <2>3. /\ IsFiniteSet(Given) /\ Cardinality(Given) <= Cardinality(Combos)
          /\ Cardinality(Given) \in Nat /\ Cardinality(Combos) \in Nat
      BY <2>2, CombosFinite, FS_Subset, FS_CardinalityType
    <2>4. used \in 0..Cardinality(Combos) BY <2>1, <2>3 DEF UsedInv
    <2> QED BY <2>1, <2>4 DEF TypeOK, PricesType, InputsType
  <1> QED BY BacktestInvariance, <1>1, PTL

-----------------------------------------------------------------------------
(* One more bar changes nothing of what a signal says of the bars before.  *)
LEMMA SameWindow ==
    ASSUME NEW S, NEW c \in Seq(S), NEW d \in Seq(S), Len(c) <= Len(d),
           \A j \in 1..Len(c) : d[j] = c[j],
           NEW i \in 1..Len(c), NEW n \in Nat \ {0}, n <= i
    PROVE  Window(d, i, n) = Window(c, i, n)
  <1>1. i - n + 1 \in 1..i OBVIOUS
  <1>2. Len(c) \in Nat /\ Len(d) \in Nat OBVIOUS
  <1>3. \A j \in (i - n + 1)..i : d[j] = c[j] BY <1>1, <1>2
  <1> QED BY <1>1, <1>2, <1>3 DEF Window

LEMMA WindowCausal ==
    ASSUME NEW S, NEW s \in Seq(S), NEW p \in S,
           NEW i \in 1..Len(s), NEW n \in Nat \ {0}, n <= i
    PROVE  Window(Append(s, p), i, n) = Window(s, i, n)
  <1>1. /\ Append(s, p) \in Seq(S)
        /\ Len(Append(s, p)) = Len(s) + 1
        /\ \A j \in 1..Len(s) : Append(s, p)[j] = s[j]
    OBVIOUS
  <1>2. Len(s) <= Len(s) + 1 OBVIOUS
  <1> QED BY <1>1, <1>2, SameWindow

LEMMA ChangeCausal ==
    ASSUME NEW S, NEW s \in Seq(S), NEW p \in S, NEW i \in 1..Len(s)
    PROVE  Change(Append(s, p), i) = Change(s, i)
  <1>1. Append(s, p)[i] = s[i] OBVIOUS
  <1>2. CASE i = 1 BY <1>2 DEF Change
  <1>3. CASE i # 1
    <2>1. i - 1 \in 1..Len(s) BY <1>3
    <2>2. Append(s, p)[i - 1] = s[i - 1] BY <2>1
    <2> QED BY <1>1, <1>3, <2>2 DEF Change
  <1> QED BY <1>2, <1>3

LEMMA ChangeType ==
    ASSUME NEW s \in Seq(Prices), NEW i \in 1..Len(s)
    PROVE  Change(s, i) \in Int
  <1>1. CASE i = 1 BY <1>1 DEF Change
  <1>2. CASE i # 1
    <2>1. i - 1 \in 1..Len(s) BY <1>2
    <2>2. s[i] \in Prices /\ s[i - 1] \in Prices BY <2>1
    <2>3. s[i] \in Nat /\ s[i - 1] \in Nat \ {0} BY <2>2, BacktestAssumption
    <2>4. Scale * (s[i] - s[i - 1]) \in Int BY <2>3, HypothesesAssumption
    <2>5. \A m \in Int : m \div s[i - 1] \in Int BY <2>3
    <2> QED BY <1>2, <2>4, <2>5 DEF Change
  <1> QED BY <1>1, <1>2

(* The returns are extended like the prices.                               *)
LEMMA ChangesCausal ==
    ASSUME NEW s \in Seq(Prices), NEW p \in Prices,
           NEW i \in 1..Len(s), NEW n \in Nat \ {0}, n <= i
    PROVE  Window(Changes(Append(s, p)), i, n) = Window(Changes(s), i, n)
  <1> DEFINE c == Changes(s)
             d == Changes(Append(s, p))
  <1>1. Append(s, p) \in Seq(Prices) /\ Len(Append(s, p)) = Len(s) + 1 OBVIOUS
  <1>2. /\ c \in Seq(Int) /\ Len(c) = Len(s)
        /\ d \in Seq(Int) /\ Len(d) = Len(s) + 1
    <2>1. \A j \in 1..Len(s) : Change(s, j) \in Int BY ChangeType
    <2>2. \A j \in 1..Len(Append(s, p)) : Change(Append(s, p), j) \in Int
      BY <1>1, ChangeType
    <2>3. Len(s) \in Nat /\ Len(s) + 1 \in Nat OBVIOUS
    <2> QED BY <1>1, <2>1, <2>2, <2>3 DEF Changes
  <1>3. \A j \in 1..Len(s) : d[j] = c[j]
    BY <1>1, ChangeCausal DEF Changes
  <1> HIDE DEF c, d
  <1>4. i \in 1..Len(c) /\ Len(c) <= Len(d) BY <1>2
  <1>5. \A j \in 1..Len(c) : d[j] = c[j] BY <1>2, <1>3
  <1>6. Window(d, i, n) = Window(c, i, n)
    BY <1>2, <1>4, <1>5, SameWindow
  <1> QED BY <1>6 DEF c, d

LEMMA BreaksCausal ==
    ASSUME NEW s \in Seq(Prices), NEW p \in Prices,
           NEW n \in Nat \ {0}, NEW i \in (n + 1)..Len(s), NEW side
    PROVE  Breaks(Append(s, p), i, n, side) <=> Breaks(s, i, n, side)
  <1>1. i \in 1..Len(s) /\ i - 1 \in 1..Len(s) /\ n <= i - 1 OBVIOUS
  <1>2. Window(Append(s, p), i - 1, n) = Window(s, i - 1, n)
    BY <1>1, WindowCausal
  <1>3. Append(s, p)[i] = s[i] BY <1>1
  <1> QED BY <1>2, <1>3 DEF Breaks

LEMMA BreakoutCausal ==
    ASSUME NEW s \in Seq(Prices), NEW p \in Prices,
           NEW n \in Nat \ {0}, NEW i \in 1..Len(s)
    PROVE  Breakout(Append(s, p), i, n) = Breakout(s, i, n)
  <1>1. \A j \in (n + 1)..i : /\ Breaks(Append(s, p), j, n, 1) <=> Breaks(s, j, n, 1)
                              /\ Breaks(Append(s, p), j, n, -1) <=> Breaks(s, j, n, -1)
    BY BreaksCausal
  <1>2. \A j \in (n + 1)..i : \A k \in j..i : k \in (n + 1)..i OBVIOUS
  <1> QED BY <1>1, <1>2 DEF Breakout

(* What a signal says of a bar depends on the prices up to this bar only.  *)
THEOREM SignalsAreCausal ==
    ASSUME NEW h \in Hypothesis, NEW s \in Seq(Prices), NEW p \in Prices,
           NEW i \in 1..Len(s)
    PROVE  Signal(h, Append(s, p), i) = Signal(h, s, i)
  <1>1. CASE h \in [family : {"momentum"}, fast : Lookbacks, slow : Lookbacks]
    <2>1. h.family = "momentum" /\ h.fast \in Nat \ {0} /\ h.slow \in Nat \ {0}
      BY <1>1, HypothesesAssumption
    <2>2. CASE i <= h.slow BY <2>1, <2>2 DEF Signal, SmaCrossover
    <2>3. CASE i > h.slow
      <3>1. Window(Append(s, p), i, h.slow) = Window(s, i, h.slow)
        BY <2>1, <2>3, WindowCausal
      <3>2. i >= h.fast => Window(Append(s, p), i, h.fast) = Window(s, i, h.fast)
        BY <2>1, WindowCausal
      <3>3. SmaCrossover(Append(s, p), i, h.fast, h.slow) = SmaCrossover(s, i, h.fast, h.slow)
        BY <3>1, <3>2 DEF SmaCrossover
      <3> QED BY <2>1, <3>3 DEF Signal
    <2> QED BY <2>1, <2>2, <2>3
  <1>2. CASE h \in [family : {"mean_reversion", "breakout", "volatility"},
                    lookback : Lookbacks]
    <2>1. h.lookback \in Nat \ {0} BY <1>2, HypothesesAssumption
    <2>2. CASE h.family = "mean_reversion"
      <3>1. i > h.lookback => Window(Append(s, p), i, h.lookback) = Window(s, i, h.lookback)
        BY <2>1, WindowCausal
      <3>2. MeanReversion(Append(s, p), i, h.lookback) = MeanReversion(s, i, h.lookback)
        BY <2>1, <3>1 DEF MeanReversion
      <3> QED BY <2>2, <3>2 DEF Signal
    <2>3. CASE h.family = "breakout"
      <3>1. Breakout(Append(s, p), i, h.lookback) = Breakout(s, i, h.lookback)
        BY <2>1, BreakoutCausal
      <3> QED BY <2>3, <3>1 DEF Signal
    <2>4. CASE h.family = "volatility"
      <3>1. i > h.lookback => Window(Changes(Append(s, p)), i, h.lookback)
                                = Window(Changes(s), i, h.lookback)
        BY <2>1, ChangesCausal
      <3>2. VolatilityFilter(Append(s, p), i, h.lookback) = VolatilityFilter(s, i, h.lookback)
        BY <2>1, <3>1 DEF VolatilityFilter
      <3> QED BY <2>4, <3>2 DEF Signal
    <2>5. h.family \in {"mean_reversion", "breakout", "volatility"} BY <1>2
    <2> QED BY <2>2, <2>3, <2>4, <2>5
  <1> QED BY <1>1, <1>2 DEF Hypothesis

LEMMA SignalType ==
    ASSUME NEW h \in Hypothesis, NEW s, NEW i
    PROVE  Signal(h, s, i) \in {-1, 0, 1}
  <1>1. \A b : Sign(b) \in {0, 1} BY DEF Sign
  <1>2. \A w, t : ZScore(w, t) \in {-1, 0, 1} BY <1>1 DEF ZScore
  <1>3. \A n : VolatilityFilter(s, i, n) \in {-1, 0, 1} BY <1>2 DEF VolatilityFilter
  <1>4. \A n : MeanReversion(s, i, n) \in {-1, 0, 1}
    <2>1. \A z \in {-1, 0, 1} : -z \in {-1, 0, 1} OBVIOUS
    <2> QED BY <1>2, <2>1 DEF MeanReversion
  <1>5. \A n : Breakout(s, i, n) \in {-1, 0, 1} BY DEF Breakout
  <1>6. \A m, n : SmaCrossover(s, i, m, n) \in {-1, 0, 1} BY DEF SmaCrossover
  <1>7. h.family \in {"momentum", "mean_reversion", "breakout", "volatility"}
    BY DEF Hypothesis
  <1> QED BY <1>3, <1>4, <1>5, <1>6, <1>7 DEF Signal

-----------------------------------------------------------------------------
(* The account of a backtest, and what a new bar does to it.               *)
LastPrice == IF prices = <<>> THEN 0 ELSE prices[Len(prices)]
accountVars == <<LastPrice, Held(Len(prices) + 1), Held(Len(prices)), fee, Returns>>

AccountInv == PricesType /\ asked \in Hypothesis \cup {NoHypothesis} /\ fee \in Nat

LEMMA AccountInvariant == Spec => []AccountInv
  <1>1. Fees \subseteq Nat BY BacktestAssumption
  <1>2. BacktestInv => AccountInv
    BY <1>1 DEF BacktestInv, InputsType, AccountInv
  <1> QED BY BacktestInvariance, <1>2, PTL

LEMMA HeldType ==
    ASSUME AccountInv, asked # NoHypothesis, NEW i
    PROVE  Held(i) \in {-1, 0, 1}
  BY SignalType DEF Held, AccountInv

(* The position of a bar was known before its price.                       *)
LEMMA HeldCausal ==
    ASSUME AccountInv, NEW p \in Prices, Load(p), NEW i \in 0..(Len(prices) + 1)
    PROVE  Held(i)' = Held(i)
  <1>1. /\ prices' = Append(prices, p) /\ asked' = asked
        /\ asked \in Hypothesis /\ prices \in Seq(Prices)
    BY DEF Load, Waiting, series, AccountInv, PricesType
  <1>2. CASE i <= 1 BY <1>2 DEF Held
  <1>3. CASE i > 1
    <2>1. i - 1 \in 1..Len(prices) BY <1>1, <1>3
    <2>2. Signal(asked, Append(prices, p), i - 1) = Signal(asked, prices, i - 1)
      BY <1>1, <2>1, SignalsAreCausal
    <2> QED BY <1>1, <1>3, <2>2 DEF Held
  <1>4. i \in Int BY <1>1
  <1> QED BY <1>2, <1>3, <1>4

LEMMA AppendIs ==
    ASSUME NEW s \in Seq(Int), NEW x \in Int, NEW t \in Seq(Int),
           Len(t) = Len(s) + 1,
           \A i \in 1..Len(s) : t[i] = s[i],
           t[Len(s) + 1] = x
    PROVE  t = Append(s, x)
  <1>1. Append(s, x) \in Seq(Int) /\ Len(Append(s, x)) = Len(s) + 1 OBVIOUS
  <1>2. \A i \in 1..(Len(s) + 1) : t[i] = Append(s, x)[i] OBVIOUS
  <1> QED BY <1>1, <1>2

(* The returns so far stay, and the new one is what a trader gains.        *)
LEMMA ReturnsGrow ==
    ASSUME AccountInv, NEW p \in Prices, Load(p)
    PROVE  Returns' = Append(Returns, Account!Gain(p) - fee * Account!Turnover)
  <1>. PICK n : n = Len(prices) OBVIOUS
  <1> DEFINE held == Held(n + 1)
             before == Held(n)
             turned == IF held >= before THEN held - before ELSE before - held
             gain == IF n = 0 THEN 0 ELSE held * ((Scale * (p - prices[n])) \div prices[n])
             return == gain - fee * turned
  <1>1. /\ prices' = Append(prices, p) /\ fee' = fee
        /\ prices \in Seq(Prices) /\ n \in Nat /\ n = Len(prices)
        /\ fee \in Nat
        /\ asked # NoHypothesis
    BY DEF Load, Waiting, series, AccountInv, PricesType
  <1>2. /\ Append(prices, p) \in Seq(Prices)
        /\ Len(Append(prices, p)) = n + 1
        /\ Append(prices, p)[n + 1] = p
    BY <1>1
  <1>3. \A i \in 0..(n + 1) : Held(i)' = Held(i) /\ Held(i) \in {-1, 0, 1}
    BY <1>1, HeldCausal, HeldType
  <1>4. \A i \in 1..(n + 1) : Turned(i)' = Turned(i)
    <2> SUFFICES ASSUME NEW i \in 1..(n + 1) PROVE Turned(i)' = Turned(i) OBVIOUS
    <2>1. i \in 0..(n + 1) /\ i - 1 \in 0..(n + 1) BY <1>1
    <2>2. Held(i)' = Held(i) /\ Held(i - 1)' = Held(i - 1) BY <1>3, <2>1
    <2> QED BY <2>2 DEF Turned
  <1>5. \A i \in 1..n : Returns'[i] = Returns[i]
    <2> SUFFICES ASSUME NEW i \in 1..n PROVE Returns'[i] = Returns[i] OBVIOUS
    <2>1. Change(Append(prices, p), i) = Change(prices, i) BY <1>1, ChangeCausal
    <2>2. Held(i)' = Held(i) /\ Turned(i)' = Turned(i) BY <1>1, <1>3, <1>4
    <2>3. i \in 1..(n + 1) BY <1>1
    <2> QED BY <1>1, <1>2, <2>1, <2>2, <2>3 DEF Returns, Bars
  <1>6. Returns'[n + 1] = return
    <2>1. n + 1 \in 1..(n + 1) /\ n \in 0..(n + 1) /\ n + 1 \in 0..(n + 1) BY <1>1
    <2>2. Returns'[n + 1] = Held(n + 1)' * Change(Append(prices, p), n + 1)
                              - fee * Turned(n + 1)'
      BY <1>1, <1>2, <2>1 DEF Returns, Bars
    <2>3. Held(n + 1)' = held /\ Turned(n + 1)' = turned
      <3>1. Turned(n + 1) = turned
        <4>1. (n + 1) - 1 = n BY <1>1
        <4> QED BY <4>1 DEF Turned
      <3> QED BY <1>3, <1>4, <2>1, <3>1
    <2>4. held * Change(Append(prices, p), n + 1) = gain
      <3>1. CASE n = 0
        <4>1. Change(Append(prices, p), n + 1) = 0 BY <3>1 DEF Change
        <4>2. held \in Int BY <1>3, <2>1
        <4> QED BY <3>1, <4>1, <4>2
      <3>2. CASE n # 0
        <4>1. Append(prices, p)[n] = prices[n] BY <1>1, <3>2
        <4>2. n + 1 # 1 /\ (n + 1) - 1 = n BY <1>1, <3>2
        <4>3. Change(Append(prices, p), n + 1) = (Scale * (p - prices[n])) \div prices[n]
          BY <1>2, <4>1, <4>2 DEF Change
        <4> QED BY <3>2, <4>3
      <3> QED BY <3>1, <3>2
    <2> HIDE DEF held, turned, gain
    <2> QED BY <2>2, <2>3, <2>4
  <1>7. \A i \in 1..n : Returns[i] \in Int
    <2> SUFFICES ASSUME NEW i \in 1..n PROVE Returns[i] \in Int OBVIOUS
    <2>1. Change(prices, i) \in Int BY <1>1, ChangeType
    <2>2. Held(i) \in Int /\ Held(i - 1) \in Int
      BY <1>1, <1>3
    <2>3. Turned(i) \in Int BY <2>2 DEF Turned
    <2>4. Held(i) * Change(prices, i) \in Int /\ fee * Turned(i) \in Int
      BY <1>1, <2>1, <2>2, <2>3
    <2>5. Returns[i] = Held(i) * Change(prices, i) - fee * Turned(i)
      BY DEF Returns, Bars
    <2> QED BY <2>4, <2>5
  <1>8. return \in Int
    <2>1. held \in Int /\ before \in Int BY <1>1, <1>3
    <2>2. turned \in Int BY <2>1
    <2>3. fee * turned \in Int BY <1>1, <2>2
    <2>4. gain \in Int
      <3>1. CASE n = 0 BY <3>1
      <3>2. CASE n # 0
        <4>1. prices[n] \in Prices /\ p \in Prices BY <1>1, <3>2
        <4>2. prices[n] \in Nat \ {0} /\ p \in Nat BY <4>1, BacktestAssumption
        <4>3. Scale * (p - prices[n]) \in Int BY <4>2, HypothesesAssumption
        <4>4. \A m \in Int : m \div prices[n] \in Int BY <4>2
        <4>5. (Scale * (p - prices[n])) \div prices[n] \in Int BY <4>3, <4>4
        <4> QED BY <2>1, <3>2, <4>5
      <3> QED BY <3>1, <3>2
    <2> HIDE DEF gain, turned
    <2> QED BY <2>3, <2>4
  <1>9. Account!Gain(p) - fee * Account!Turnover = return
    <2>1. Returns = <<>> <=> n = 0
      BY <1>1 DEF Returns, Bars
    <2>2. prices = <<>> <=> n = 0 BY <1>1
    <2> QED BY <2>1, <2>2 DEF Account!Gain, Account!Turnover
  <1> HIDE DEF return
  <1>10. Returns' = Append(Returns, return)
    <2>1. Returns \in Seq(Int) /\ Len(Returns) = n
      BY <1>1, <1>7 DEF Returns, Bars
    <2>2. \A i \in 1..(n + 1) : Returns'[i] \in Int
      BY <1>1, <1>5, <1>6, <1>7, <1>8
    <2>3. Returns' \in Seq(Int) /\ Len(Returns') = n + 1
      <3>1. Returns' = [i \in 1..(n + 1) |-> Returns'[i]]
        BY <1>1, <1>2 DEF Returns, Bars
      <3>2. n + 1 \in Nat BY <1>1
      <3> QED BY <2>2, <3>1, <3>2
    <2> QED BY <1>5, <1>6, <1>8, <2>1, <2>3, AppendIs
  <1> QED BY <1>9, <1>10

LEMMA InitAccount == ASSUME Init PROVE Account!Init
  <1>1. prices = <<>> /\ Len(prices) = 0 BY DEF Init
  <1>2. Held(Len(prices)) = 0 /\ Held(Len(prices) + 1) = 0
    <2>1. Len(prices) <= 1 /\ Len(prices) + 1 <= 1 BY <1>1
    <2> QED BY <2>1 DEF Held
  <1>3. Returns = <<>> BY <1>1 DEF Returns, Bars
  <1>4. fee \in Nat
    <2>1. Fees \subseteq Nat BY BacktestAssumption
    <2>2. fee \in Fees BY BacktestAssumption DEF Init
    <2> QED BY <2>1, <2>2
  <1> QED BY <1>1, <1>2, <1>3, <1>4 DEF Account!Init

LEMMA StepAccount ==
    ASSUME AccountInv, [Next]_vars
    PROVE  Account!Next \/ accountVars' = accountVars
  <1>1. CASE \E p \in Prices : Load(p)
    <2>1. PICK p \in Prices : Load(p) BY <1>1
    <2>2. /\ prices' = Append(prices, p) /\ fee' = fee
          /\ prices \in Seq(Prices) /\ Len(prices) \in Nat
          /\ asked # NoHypothesis /\ asked' = asked
          /\ asked \in Hypothesis
      BY <2>1 DEF Load, Waiting, series, AccountInv, PricesType
    <2>3. /\ Len(prices') = Len(prices) + 1
          /\ prices' # <<>>
          /\ prices'[Len(prices')] = p
      BY <2>2
    <2>4. Held(Len(prices))' = Held(Len(prices) + 1)
      <3>1. PICK n \in Nat : n = Len(prices) BY <2>2
      <3>2. n + 1 \in 0..(Len(prices) + 1) BY <3>1
      <3>3. Held(n + 1)' = Held(n + 1) BY <2>1, <3>2, HeldCausal
      <3>4. Held(Len(prices))' = Held(n + 1)' BY <2>3, <3>1 DEF Held
      <3> QED BY <3>1, <3>3, <3>4
    <2>5. Held(Len(prices) + 1)' \in {-1, 0, 1}
      BY <2>2, SignalType DEF Held
    <2>6. Returns' = Append(Returns, Account!Gain(p) - fee * Account!Turnover)
      BY <2>1, ReturnsGrow
    <2>7. Account!Bar(p)
      BY <2>2, <2>3, <2>4, <2>5, <2>6 DEF Account!Bar, Account!Positions
    <2> QED BY <2>7 DEF Account!Next
  <1>2. CASE UNCHANGED series
    BY <1>2 DEF series, accountVars, LastPrice, Held, Returns, Bars, Turned
  <1>3. BacktestOne \/ Fold \/ Score \/ Scored \/ Execute \/ Research => UNCHANGED series
    BY DEF BacktestOne, Fold, Score, Scored, Execute, Research
  <1>4. UNCHANGED vars => UNCHANGED series BY DEF vars
  <1> QED BY <1>1, <1>2, <1>3, <1>4 DEF Next

(* No look-ahead: every backtest is the account of a trader who decides on *)
(* a bar before anybody knows its price.                                   *)
THEOREM BacktestImplementsTrader == Spec => ImplementsTrader
  <1>1. Init => Account!Init BY InitAccount
  <1>2. AccountInv /\ [Next]_vars => Account!Next \/ accountVars' = accountVars
    BY StepAccount
  <1>3. AccountInv /\ [Next]_vars => [Account!Next]_accountVars
    BY <1>2
  <1> QED BY AccountInvariant, <1>1, <1>3, PTL
          DEF Spec, ImplementsTrader, Account!Spec, accountVars, LastPrice
=============================================================================
