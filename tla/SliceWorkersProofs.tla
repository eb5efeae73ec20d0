------------------------- MODULE SliceWorkersProofs -------------------------
(***************************************************************************)
(* Proofs about SliceWorkers, for any panel height, any bands, any width    *)
(* of the generation counter that can tell two generations apart, and any   *)
(* number of frames.                                                        *)
(***************************************************************************)
EXTENDS SliceWorkers, FunctionTheorems, FiniteSetTheorems, TLAPS

-----------------------------------------------------------------------------
(***************************************************************************)
(* The row arithmetic of renderSlice.                                      *)
(***************************************************************************)

(* Multiplying a height by a worker number and dividing by the number of    *)
(* workers, as the code does, with every product spelt out.                 *)
LEMMA SliceTopValues ==
    ASSUME NEW j \in Jobs, NEW w \in 0 .. 4, NEW total \in 2 .. 4
    PROVE  /\ SliceTop(j, w, total) \in Int
           /\ w = 0 => SliceTop(j, w, total) = j.py0 + 0 \div total
           /\ w = 1 => SliceTop(j, w, total) = j.py0 + (j.py1 - j.py0) \div total
           /\ w = 2 => SliceTop(j, w, total)
                         = j.py0 + (2 * (j.py1 - j.py0)) \div total
           /\ w = 3 => SliceTop(j, w, total)
                         = j.py0 + (3 * (j.py1 - j.py0)) \div total
  <1>1. j.py0 \in Int /\ j.py1 \in Int
    BY SizesAssumption DEF Jobs
  <1>. DEFINE d == j.py1 - j.py0
  <1>2. d \in Int /\ d * 0 = 0 /\ d * 1 = d /\ d * 2 = 2 * d /\ d * 3 = 3 * d
        /\ d * w \in Int
    BY <1>1
  <1>. HIDE DEF d
  <1>3. (d * w) \div total \in Int
    BY <1>2
  <1>4. SliceTop(j, w, total) = j.py0 + (d * w) \div total
    BY DEF SliceTop, d
  <1>. QED  BY <1>1, <1>2, <1>3, <1>4 DEF d

(* Every row of the band belongs to the slice of one of the workers.        *)
LEMMA SlicesCover ==
    ASSUME NEW j \in Jobs, NEW y \in j.py0 .. j.py1 - 1
    PROVE  \E w \in 0 .. Workers - 1 : y \in SliceRows(j, w, Workers)
  <1>1. Workers \in 2 .. 4
    BY WorkersAssumption
  <1>2. /\ j.py0 \in 0 .. Height /\ j.py1 \in 0 .. Height /\ Height \in Nat
        /\ y \in Rows /\ y \in Int
    BY SizesAssumption DEF Jobs, Rows
  <1>3. CASE Workers = 2
    <2>1. SliceTop(j, 0, 2) <= y
      BY <1>2, SliceTopValues
    <2>. QED  BY <1>2, <1>3, <2>1, SliceTopValues DEF SliceRows
  <1>4. CASE Workers = 3
    <2>1. SliceTop(j, 0, 3) <= y
      BY <1>2, SliceTopValues
    <2>. QED  BY <1>2, <1>4, <2>1, SliceTopValues DEF SliceRows
  <1>5. CASE Workers = 4
    <2>1. SliceTop(j, 0, 4) <= y
      BY <1>2, SliceTopValues
    <2>. QED  BY <1>2, <1>5, <2>1, SliceTopValues DEF SliceRows
  <1>. QED  BY <1>1, <1>3, <1>4, <1>5

(* The slices of two different workers share no row.                       *)
LEMMA SlicesDisjoint ==
    ASSUME NEW j \in Jobs,
           NEW v \in 0 .. Workers - 1, NEW w \in 0 .. Workers - 1, v < w
    PROVE  SliceRows(j, v, Workers) \cap SliceRows(j, w, Workers) = {}
  <1>1. Workers \in 2 .. 4
    BY WorkersAssumption
  <1>2. j.py0 \in Int /\ j.py1 \in Int /\ j.py1 - j.py0 \in Nat
    BY SizesAssumption DEF Jobs
  <1>3. /\ SliceTop(j, 1, Workers) <= SliceTop(j, 2, Workers)
        /\ SliceTop(j, 2, Workers) <= SliceTop(j, 3, Workers)
        /\ SliceTop(j, 1, Workers) <= SliceTop(j, 3, Workers)
    <2>1. CASE Workers = 2
      BY <1>2, <2>1, SliceTopValues
    <2>2. CASE Workers = 3
      BY <1>2, <2>2, SliceTopValues
    <2>3. CASE Workers = 4
      BY <1>2, <2>3, SliceTopValues
    <2>. QED  BY <1>1, <2>1, <2>2, <2>3
  <1>6. SliceTop(j, v + 1, Workers) <= SliceTop(j, w, Workers)
    <2>1. SliceTop(j, w, Workers) \in Int
      BY <1>1, SliceTopValues
    <2>2. v + 1 \in 1 .. 3 /\ w \in 1 .. 3 /\ v + 1 <= w
      BY <1>1
    <2>. QED  BY <1>3, <2>1, <2>2
  <1>7. v + 1 # Workers
    BY <1>1
  <1>5. /\ SliceTop(j, v + 1, Workers) \in Int
        /\ SliceTop(j, w, Workers) \in Int
    BY <1>1, SliceTopValues
  <1>. QED  BY <1>7, <1>5, <1>6, SizesAssumption DEF SliceRows, Rows

(* Drawn alone, the band is drawn whole.                                   *)
LEMMA AloneCovers ==
    ASSUME NEW j \in Jobs, NEW y \in j.py0 .. j.py1 - 1
    PROVE  y \in SliceRows(j, 0, 1)
  BY SizesAssumption DEF SliceRows, SliceTop, Jobs, Rows

-----------------------------------------------------------------------------
(***************************************************************************)
(* Counting helpers.                                                       *)
(***************************************************************************)

LEMMA HelperSetsFinite ==
    ASSUME NEW S \in SUBSET Helpers
    PROVE  /\ IsFiniteSet(S)
           /\ Cardinality(S) \in 0 .. Workers - 1
           /\ Cardinality(S) >= Workers - 1 => S = Helpers
  <1>1. /\ IsFiniteSet(S) /\ Cardinality(S) <= Workers - 1
        /\ Cardinality(S) = Workers - 1 => S = Helpers
    BY WorkersAssumption, FS_Subset
  <1>2. Cardinality(S) \in Nat
    BY <1>1, FS_CardinalityType
  <1>. QED  BY <1>1, <1>2, WorkersAssumption

(* When every helper has an id, every id but 0 belongs to a helper.        *)
LEMMA WidsCover ==
    ASSUME TypeOK, WidsDistinct, Started = Helpers,
           NEW w \in 1 .. Workers - 1
    PROVE  \E h \in Helpers : wid[h] = w
  <1>1. wid \in [Helpers -> 1 .. Workers - 1]
    BY WorkersAssumption DEF TypeOK, WidsDistinct, Started
  <1>2. wid \in Injection(Helpers, 1 .. Workers - 1)
    BY <1>1 DEF WidsDistinct, Injection, IsInjective
  <1>3. /\ IsFiniteSet(1 .. Workers - 1)
        /\ Cardinality(1 .. Workers - 1) = Workers - 1
    BY FS_Interval, WorkersAssumption
  <1>4. wid \in Surjection(Helpers, 1 .. Workers - 1)
    BY <1>2, <1>3, FS_Injection, WorkersAssumption
  <1>. QED  BY <1>4 DEF Surjection

-----------------------------------------------------------------------------
(***************************************************************************)
(* Inductiveness.                                                          *)
(***************************************************************************)

(* A row drawn by renderSlice holds the job's frame, and a row that held it *)
(* keeps it: all workers of a generation draw the same frame.               *)
LEMMA RenderKeeps ==
    ASSUME TypeOK, NEW w \in 0 .. Workers, NEW total \in 1 .. 4,
           renderSlice(w, total), UNCHANGED job
    PROVE  /\ panel' \in [Rows -> Frames]
           /\ \A y \in SliceRows(job, w, total) : panel'[y] = job.frame
           /\ \A y \in Rows : panel[y] = job.frame => panel'[y] = job.frame
           /\ total = Workers => DrawnBy(w)'
           /\ \A v \in 0 .. Workers : DrawnBy(v) => DrawnBy(v)'
  <1>1. SliceRows(job, w, total) \subseteq Rows
    BY DEF SliceRows
  <1>2. job.frame \in Frames
    BY DEF TypeOK, Jobs
  <1>3. /\ panel' \in [Rows -> Frames]
        /\ \A y \in SliceRows(job, w, total) : panel'[y] = job.frame
        /\ \A y \in Rows : panel[y] = job.frame => panel'[y] = job.frame
    BY <1>1, <1>2 DEF TypeOK, renderSlice
  <1>4. total = Workers => DrawnBy(w)'
    BY <1>3 DEF DrawnBy
  <1>5. \A v \in 0 .. Workers : DrawnBy(v) => DrawnBy(v)'
    BY <1>3 DEF DrawnBy, SliceRows
  <1>. QED  BY <1>3, <1>4, <1>5

LEMMA InitInv == Init => Inv
  <1>. SUFFICES ASSUME Init PROVE Inv
    OBVIOUS
  <1>1. TypeOK
    <2>1. /\ 0 \in 0 .. GenMod - 1 /\ 0 \in 0 .. Workers - 1
          /\ 1 \in 1 .. Workers /\ 0 \in 0 .. MaxFrame /\ 0 \in 0 .. Height
      BY WorkersAssumption, SizesAssumption
    <2>2. job \in Jobs /\ panel \in [Rows -> Frames]
      BY <2>1 DEF Init, Jobs, Frames
    <2>3. /\ hpc \in [Helpers -> HelperPCs] /\ ppc \in PresenterPCs
          /\ seen \in [Helpers -> 0 .. GenMod - 1]
          /\ wid \in [Helpers -> 0 .. Workers - 1]
      BY <2>1 DEF Init, HelperPCs, PresenterPCs
    <2>. QED  BY <2>1, <2>2, <2>3 DEF Init, TypeOK
  <1>2. Started = {} /\ Finished = Helpers
    BY DEF Init, Started, Finished
  <1>3. WidsDistinct
    BY <1>2, FS_EmptySet DEF Init, WidsDistinct
  <1>4. CountIsFinished
    BY <1>2 DEF Init, CountIsFinished, Active
  <1>5. SlicesDrawn
    BY DEF Init, SlicesDrawn, Active
  <1>6. LayerComplete
    BY DEF Init, LayerComplete
  <1>. QED  BY <1>1, <1>3, <1>4, <1>5, <1>6 DEF Inv

(* The steps of a helper.                                                  *)
LEMMA HelperStep ==
    ASSUME Inv, NEW h \in Helpers, Helper(h)
    PROVE  Inv'
  <1>. USE DEF Inv
  <1>0. WorkersAssumption /\ SizesAssumption
    BY WorkersAssumption, SizesAssumption
  <1>1. CASE StartHelper(h)
    <2>1. Started' = Started \cup {h} /\ h \notin Started
      BY <1>1 DEF StartHelper, Started, TypeOK
    <2>2. Finished' = Finished
      BY <1>1 DEF StartHelper, Finished, TypeOK
    <2>3. /\ Cardinality(Started') = Cardinality(Started) + 1
          /\ Cardinality(Started') \in 0 .. Workers - 1
      <3>1. Started \in SUBSET Helpers /\ Started' \in SUBSET Helpers
        BY DEF Started
      <3>. QED  BY <2>1, <3>1, HelperSetsFinite, FS_AddElement
    <2>4. nextWid \in 1 .. Workers - 1
      BY <1>0, <2>3 DEF TypeOK, WidsDistinct
    <2>5. TypeOK'
      BY <1>0, <1>1, <2>4 DEF StartHelper, TypeOK, HelperPCs
    <2>6. WidsDistinct'
      <3>1. nextWid' = Cardinality(Started') + 1
        BY <1>1, <2>3, <2>4 DEF StartHelper, WidsDistinct
      <3>2. \A g \in Helpers : wid'[g] = IF g = h THEN nextWid ELSE wid[g]
        BY <1>1 DEF StartHelper, TypeOK
      <3>3. \A g \in Helpers : /\ wid'[g] < nextWid'
                               /\ hpc'[g] # "start" => wid'[g] > 0
        BY <1>1, <2>4, <3>2 DEF StartHelper, WidsDistinct, TypeOK
      <3>4. \A f, g \in Started' : wid'[f] = wid'[g] => f = g
        BY <2>1, <2>4, <3>2 DEF WidsDistinct, Started, TypeOK
      <3>. QED  BY <3>1, <3>3, <3>4 DEF WidsDistinct
    <2>7. ~(ppc \in Active /\ seen[h] = gen)
      BY <1>1, <2>1 DEF StartHelper, CountIsFinished, Finished, Started
    <2>8. CountIsFinished'
      BY <1>1, <2>1, <2>2 DEF StartHelper, CountIsFinished, TypeOK
    <2>9. SlicesDrawn'
      BY <1>1, <2>7 DEF StartHelper, SlicesDrawn, DrawnBy, TypeOK
    <2>10. LayerComplete'
      BY <1>1 DEF StartHelper, LayerComplete
    <2>. QED  BY <2>5, <2>6, <2>8, <2>9, <2>10
  <1>2. CASE AssertWaitGen(h)
    <2>1. Started' = Started /\ Finished' = Finished
      BY <1>2 DEF AssertWaitGen, Started, Finished, TypeOK
    <2>2. TypeOK'
      BY <1>2 DEF AssertWaitGen, TypeOK, HelperPCs
    <2>3. WidsDistinct'
      BY <1>2, <2>1 DEF AssertWaitGen, WidsDistinct, TypeOK
    <2>4. CountIsFinished'
      BY <1>2, <2>1 DEF AssertWaitGen, CountIsFinished, TypeOK
    <2>5. SlicesDrawn'
      BY <1>2 DEF AssertWaitGen, SlicesDrawn, DrawnBy, TypeOK
    <2>6. LayerComplete'
      BY <1>2 DEF AssertWaitGen, LayerComplete
    <2>. QED  BY <2>2, <2>3, <2>4, <2>5, <2>6
  <1>3. CASE LoadGen(h)
    <2>1. Started' = Started
      BY <1>3 DEF LoadGen, Started, TypeOK
    <2>2. Finished' = Finished
      BY <1>3 DEF LoadGen, Finished, TypeOK
    <2>3. TypeOK'
      BY <1>3 DEF LoadGen, TypeOK, HelperPCs
    <2>4. WidsDistinct'
      BY <1>3, <2>1 DEF LoadGen, WidsDistinct, TypeOK
    <2>5. CountIsFinished'
      BY <1>3, <2>1, <2>2 DEF LoadGen, CountIsFinished, TypeOK
    <2>6. SlicesDrawn'
      BY <1>3 DEF LoadGen, SlicesDrawn, DrawnBy, TypeOK
    <2>7. LayerComplete'
      BY <1>3 DEF LoadGen, LayerComplete
    <2>. QED  BY <2>3, <2>4, <2>5, <2>6, <2>7
  <1>4. CASE HelperUnblocked(h)
    <2>1. Started' = Started /\ Finished' = Finished
      BY <1>4 DEF HelperUnblocked, Started, Finished, TypeOK
    <2>2. TypeOK'
      BY <1>4 DEF HelperUnblocked, TypeOK, HelperPCs
    <2>3. WidsDistinct'
      BY <1>4, <2>1 DEF HelperUnblocked, WidsDistinct, TypeOK
    <2>4. CountIsFinished'
      BY <1>4, <2>1 DEF HelperUnblocked, CountIsFinished, TypeOK
    <2>5. SlicesDrawn'
      BY <1>4 DEF HelperUnblocked, SlicesDrawn, DrawnBy, TypeOK
    <2>6. LayerComplete'
      BY <1>4 DEF HelperUnblocked, LayerComplete
    <2>. QED  BY <2>2, <2>3, <2>4, <2>5, <2>6
  <1>5. CASE HelperRender(h)
    <2>0. wid[h] \in 0 .. Workers /\ Workers \in 1 .. 4
      BY <1>0, WorkersAssumption DEF TypeOK
    <2>1. /\ panel' \in [Rows -> Frames]
          /\ DrawnBy(wid[h])'
          /\ \A y \in Rows : panel[y] = job.frame => panel'[y] = job.frame
          /\ \A v \in 0 .. Workers : DrawnBy(v) => DrawnBy(v)'
      BY <1>5, <2>0, RenderKeeps DEF HelperRender, DrawnBy
    <2>2. Started' = Started /\ Finished' = Finished
      BY <1>5 DEF HelperRender, Started, Finished, TypeOK
    <2>3. TypeOK'
      BY <1>5, <2>1 DEF HelperRender, TypeOK, HelperPCs
    <2>4. WidsDistinct'
      BY <1>5, <2>2 DEF HelperRender, WidsDistinct, TypeOK
    <2>5. CountIsFinished'
      BY <1>5, <2>2 DEF HelperRender, CountIsFinished, TypeOK
    <2>6. SlicesDrawn'
      <3>1. \A g \in Helpers : wid[g] \in 0 .. Workers
        BY WorkersAssumption DEF TypeOK
      <3>2. UNCHANGED <<ppc, seen, gen, wid, job>>
        BY <1>5 DEF HelperRender
      <3>3. \A g \in Helpers : g # h => hpc'[g] = hpc[g]
        BY <1>5 DEF HelperRender, TypeOK
      <3>4. ASSUME NEW g \in Helpers, ppc \in Active, seen[g] = gen,
                   hpc'[g] # "render"
            PROVE  DrawnBy(wid[g])'
        <4>1. CASE g = h
          BY <2>1, <4>1
        <4>2. CASE g # h
          <5>1. DrawnBy(wid[g])
            BY <3>3, <3>4, <4>2 DEF SlicesDrawn
          <5>. QED  BY <2>1, <3>1, <3>2, <5>1 DEF DrawnBy, SliceRows
        <4>. QED  BY <4>1, <4>2
      <3>5. ppc \in {"check", "assertDone", "recheck", "block"} => DrawnBy(0)'
        BY <2>0, <2>1 DEF SlicesDrawn
      <3>. QED  BY <3>2, <3>4, <3>5 DEF SlicesDrawn, DrawnBy
    <2>7. LayerComplete'
      <3>1. ppc' # "drawn"
        BY <1>5 DEF HelperRender, CountIsFinished, Finished, Active
      <3>. QED  BY <3>1 DEF LayerComplete
    <2>. QED  BY <2>3, <2>4, <2>5, <2>6, <2>7
  <1>6. CASE CountDone(h)
    <2>1. ppc \in Active /\ seen[h] = gen /\ h \notin Finished
      BY <1>6 DEF CountDone, CountIsFinished, Finished
    <2>2. Finished' = Finished \cup {h}
      BY <1>6, <2>1 DEF CountDone, Finished, TypeOK
    <2>3. Started' = Started /\ h \in Started
      BY <1>6 DEF CountDone, Started, TypeOK
    <2>4. /\ Cardinality(Finished') = Cardinality(Finished) + 1
          /\ Cardinality(Finished') \in 0 .. Workers - 1
      <3>1. Finished \in SUBSET Helpers /\ Finished' \in SUBSET Helpers
        BY DEF Finished
      <3>. QED  BY <2>1, <2>2, <3>1, HelperSetsFinite, FS_AddElement
    <2>5. done' = Cardinality(Finished')
      BY <1>6, <2>1, <2>4 DEF CountDone, CountIsFinished
    <2>6. TypeOK'
      BY <1>6, <2>4, <2>5 DEF CountDone, TypeOK, HelperPCs
    <2>7. WidsDistinct'
      BY <1>6, <2>3 DEF CountDone, WidsDistinct, TypeOK
    <2>8. CountIsFinished'
      BY <1>6, <2>1, <2>2, <2>3, <2>5 DEF CountDone, CountIsFinished, TypeOK, Active
    <2>9. SlicesDrawn'
      BY <1>6 DEF CountDone, SlicesDrawn, DrawnBy, TypeOK
    <2>10. LayerComplete'
      BY <1>6 DEF CountDone, LayerComplete
    <2>. QED  BY <2>6, <2>7, <2>8, <2>9, <2>10
  <1>7. CASE WakePresenter(h)
    <2>1. Started' = Started /\ Finished' = Finished
      BY <1>7 DEF WakePresenter, Started, Finished, TypeOK
    <2>2. TypeOK'
      BY <1>7 DEF WakePresenter, TypeOK, HelperPCs
    <2>3. WidsDistinct'
      BY <1>7, <2>1 DEF WakePresenter, WidsDistinct, TypeOK
    <2>4. CountIsFinished'
      BY <1>7, <2>1 DEF WakePresenter, CountIsFinished, TypeOK
    <2>5. SlicesDrawn'
      BY <1>7 DEF WakePresenter, SlicesDrawn, DrawnBy, TypeOK
    <2>6. LayerComplete'
      BY <1>7 DEF WakePresenter, LayerComplete
    <2>. QED  BY <2>2, <2>3, <2>4, <2>5, <2>6
  <1>. QED  BY <1>1, <1>2, <1>3, <1>4, <1>5, <1>6, <1>7 DEF Helper

(* With every helper finished and slice 0 drawn, the whole band is drawn.   *)
LEMMA AllFinishedCompletes ==
    ASSUME Inv, ppc \in {"check", "recheck"}, done >= Workers - 1
    PROVE  /\ Finished = Helpers
           /\ \A y \in job.py0 .. job.py1 - 1 : panel[y] = job.frame
  <1>. USE DEF Inv
  <1>1. Finished = Helpers /\ Started = Helpers
    <2>1. Finished \in SUBSET Helpers /\ Started \in SUBSET Helpers
      BY DEF Finished, Started
    <2>2. done = Cardinality(Finished) /\ Finished \subseteq Started
      BY DEF CountIsFinished, Active
    <2>. QED  BY <2>1, <2>2, HelperSetsFinite
  <1>2. ASSUME NEW w \in 0 .. Workers - 1
        PROVE  DrawnBy(w)
    <2>1. CASE w = 0
      BY <2>1 DEF SlicesDrawn
    <2>2. CASE w # 0
      <3>1. w \in 1 .. Workers - 1
        BY <2>2, WorkersAssumption
      <3>2. PICK h \in Helpers : wid[h] = w
        BY <1>1, <3>1, WidsCover
      <3>3. seen[h] = gen /\ hpc[h] # "render" /\ ppc \in Active
        BY <1>1 DEF Finished, Active
      <3>. QED  BY <3>2, <3>3 DEF SlicesDrawn
    <2>. QED  BY <2>1, <2>2
  <1>3. job \in Jobs
    BY DEF TypeOK
  <1>. QED  BY <1>1, <1>2, <1>3, SlicesCover DEF DrawnBy

(* The steps of the presenter.                                             *)
LEMMA PresenterStep ==
    ASSUME Inv, Present \/ \E b \in Bands : FillJob(b)
    PROVE  Inv'
  <1>. USE DEF Inv
  <1>1. CASE \E b \in Bands : FillJob(b)
    <2>0. PICK b \in Bands : FillJob(b)
      BY <1>1
    <2>1. Started' = Started /\ Finished' = Finished
      BY <2>0 DEF FillJob, Started, Finished
    <2>2. TypeOK'
      <3>1. b[1] \in 0 .. Height /\ b[2] \in 0 .. Height /\ b[1] <= b[2]
        BY SizesAssumption
      <3>2. job.frame + 1 \in Frames
        BY <2>0, SizesAssumption DEF FillJob, TypeOK, Jobs, Frames
      <3>3. job' \in Jobs
        BY <2>0, <3>1, <3>2 DEF FillJob, Jobs
      <3>. QED  BY <2>0, <3>3 DEF FillJob, TypeOK, PresenterPCs
    <2>3. WidsDistinct'
      BY <2>0, <2>1 DEF FillJob, WidsDistinct
    <2>4. CountIsFinished'
      BY <2>0, <2>1 DEF FillJob, CountIsFinished, Active
    <2>5. SlicesDrawn'
      BY <2>0 DEF FillJob, SlicesDrawn, Active
    <2>6. LayerComplete'
      BY <2>0 DEF FillJob, LayerComplete
    <2>. QED  BY <2>2, <2>3, <2>4, <2>5, <2>6
  <1>2. CASE RenderAlone
    <2>0. job \in Jobs
      BY DEF TypeOK
    <2>1. /\ panel' \in [Rows -> Frames]
          /\ \A y \in SliceRows(job, 0, 1) : panel'[y] = job.frame
      BY <1>2, RenderKeeps, WorkersAssumption DEF RenderAlone
    <2>2. Started' = Started /\ Finished' = Finished
      BY <1>2 DEF RenderAlone, Started, Finished
    <2>3. TypeOK'
      BY <1>2, <2>1 DEF RenderAlone, TypeOK, PresenterPCs
    <2>4. WidsDistinct'
      BY <1>2, <2>2 DEF RenderAlone, WidsDistinct
    <2>5. CountIsFinished'
      BY <1>2, <2>2 DEF RenderAlone, CountIsFinished, Active
    <2>6. SlicesDrawn'
      BY <1>2 DEF RenderAlone, SlicesDrawn, Active
    <2>7. LayerComplete'
      BY <1>2, <2>0, <2>1, AloneCovers DEF RenderAlone, LayerComplete
    <2>. QED  BY <2>3, <2>4, <2>5, <2>6, <2>7
  <1>3. CASE ResetDone
    <2>1. Started' = Started /\ Finished' = Finished
      BY <1>3 DEF ResetDone, Started, Finished
    <2>2. TypeOK'
      BY <1>3, WorkersAssumption DEF ResetDone, TypeOK, PresenterPCs
    <2>3. WidsDistinct'
      BY <1>3, <2>1 DEF ResetDone, WidsDistinct
    <2>4. CountIsFinished'
      BY <1>3, <2>1 DEF ResetDone, CountIsFinished, Active
    <2>5. SlicesDrawn'
      BY <1>3 DEF ResetDone, SlicesDrawn, Active
    <2>6. LayerComplete'
      BY <1>3 DEF ResetDone, LayerComplete
    <2>. QED  BY <2>2, <2>3, <2>4, <2>5, <2>6
  <1>4. CASE BumpGen
    <2>1. gen' \in 0 .. GenMod - 1 /\ gen' # gen
      BY <1>4, SizesAssumption DEF BumpGen, TypeOK
    <2>2. \A h \in Helpers : seen[h] = gen /\ hpc[h] \notin {"render", "count"}
      BY <1>4 DEF BumpGen, CountIsFinished, Active, Finished
    <2>3. Started' = Started /\ Finished' = {}
      BY <1>4, <2>1, <2>2 DEF BumpGen, Started, Finished
    <2>4. TypeOK'
      BY <1>4, <2>1 DEF BumpGen, TypeOK, PresenterPCs
    <2>5. WidsDistinct'
      BY <1>4, <2>3 DEF BumpGen, WidsDistinct
    <2>6. CountIsFinished'
      BY <1>4, <2>2, <2>3, FS_EmptySet DEF BumpGen, CountIsFinished, Active
    <2>7. SlicesDrawn'
      BY <1>4, <2>1, <2>2 DEF BumpGen, SlicesDrawn
    <2>8. LayerComplete'
      BY <1>4 DEF BumpGen, LayerComplete
    <2>. QED  BY <2>4, <2>5, <2>6, <2>7, <2>8
  <1>5. CASE WakeHelpers
    <2>1. Started' = Started /\ Finished' = Finished
      BY <1>5 DEF WakeHelpers, Started, Finished
    <2>2. TypeOK'
      BY <1>5 DEF WakeHelpers, TypeOK, PresenterPCs
    <2>3. WidsDistinct'
      BY <1>5, <2>1 DEF WakeHelpers, WidsDistinct
    <2>4. CountIsFinished'
      BY <1>5, <2>1 DEF WakeHelpers, CountIsFinished, Active
    <2>5. SlicesDrawn'
      BY <1>5 DEF WakeHelpers, SlicesDrawn, DrawnBy, Active
    <2>6. LayerComplete'
      BY <1>5 DEF WakeHelpers, LayerComplete
    <2>. QED  BY <2>2, <2>3, <2>4, <2>5, <2>6
  <1>6. CASE RenderSliceZero
    <2>0. Workers \in 1 .. 4 /\ 0 \in 0 .. Workers
      BY WorkersAssumption
    <2>1. /\ panel' \in [Rows -> Frames]
          /\ DrawnBy(0)'
          /\ \A y \in Rows : panel[y] = job.frame => panel'[y] = job.frame
      BY <1>6, <2>0, RenderKeeps DEF RenderSliceZero
    <2>2. Started' = Started /\ Finished' = Finished
      BY <1>6 DEF RenderSliceZero, Started, Finished
    <2>3. TypeOK'
      BY <1>6, <2>1 DEF RenderSliceZero, TypeOK, PresenterPCs
    <2>4. WidsDistinct'
      BY <1>6, <2>2 DEF RenderSliceZero, WidsDistinct
    <2>5. CountIsFinished'
      BY <1>6, <2>2 DEF RenderSliceZero, CountIsFinished, Active
    <2>6. SlicesDrawn'
      <3>1. UNCHANGED <<seen, gen, wid, job, hpc>> /\ ppc = "slice0"
        BY <1>6 DEF RenderSliceZero
      <3>2. ASSUME NEW g \in Helpers, seen[g] = gen, hpc[g] # "render"
            PROVE  DrawnBy(wid[g])'
        <4>1. DrawnBy(wid[g])
          BY <3>1, <3>2 DEF SlicesDrawn, Active
        <4>. QED  BY <2>1, <3>1, <4>1 DEF DrawnBy, SliceRows
      <3>. QED  BY <2>1, <3>1, <3>2 DEF SlicesDrawn
    <2>7. LayerComplete'
      BY <1>6 DEF RenderSliceZero, LayerComplete
    <2>. QED  BY <2>3, <2>4, <2>5, <2>6, <2>7
  <1>7. CASE CheckDone
    <2>1. Started' = Started /\ Finished' = Finished
      BY <1>7 DEF CheckDone, Started, Finished
    <2>2. ppc = "check" /\ UNCHANGED <<done, panel, job>>
      BY <1>7 DEF CheckDone
    <2>3. done >= Workers - 1 =>
            /\ Finished = Helpers
            /\ \A y \in job.py0 .. job.py1 - 1 : panel[y] = job.frame
      BY <2>2, AllFinishedCompletes
    <2>4. TypeOK'
      BY <1>7 DEF CheckDone, TypeOK, PresenterPCs
    <2>5. WidsDistinct'
      BY <1>7, <2>1 DEF CheckDone, WidsDistinct
    <2>6. CountIsFinished'
      BY <1>7, <2>1, <2>3 DEF CheckDone, CountIsFinished, Active
    <2>7. SlicesDrawn'
      BY <1>7 DEF CheckDone, SlicesDrawn, DrawnBy, Active
    <2>8. LayerComplete'
      BY <1>7, <2>3 DEF CheckDone, LayerComplete
    <2>. QED  BY <2>4, <2>5, <2>6, <2>7, <2>8
  <1>8. CASE RecheckDone
    <2>1. Started' = Started /\ Finished' = Finished
      BY <1>8 DEF RecheckDone, Started, Finished
    <2>2. ppc = "recheck" /\ UNCHANGED <<done, panel, job>>
      BY <1>8 DEF RecheckDone
    <2>3. done >= Workers - 1 =>
            /\ Finished = Helpers
            /\ \A y \in job.py0 .. job.py1 - 1 : panel[y] = job.frame
      BY <2>2, AllFinishedCompletes
    <2>4. TypeOK'
      BY <1>8 DEF RecheckDone, TypeOK, PresenterPCs
    <2>5. WidsDistinct'
      BY <1>8, <2>1 DEF RecheckDone, WidsDistinct
    <2>6. CountIsFinished'
      BY <1>8, <2>1, <2>3 DEF RecheckDone, CountIsFinished, Active
    <2>7. SlicesDrawn'
      BY <1>8 DEF RecheckDone, SlicesDrawn, DrawnBy, Active
    <2>8. LayerComplete'
      BY <1>8, <2>3 DEF RecheckDone, LayerComplete
    <2>. QED  BY <2>4, <2>5, <2>6, <2>7, <2>8
  <1>9. CASE PresenterUnblocked
    <2>1. Started' = Started /\ Finished' = Finished
      BY <1>9 DEF PresenterUnblocked, Started, Finished
    <2>2. TypeOK'
      BY <1>9 DEF PresenterUnblocked, TypeOK, PresenterPCs
    <2>3. WidsDistinct'
      BY <1>9, <2>1 DEF PresenterUnblocked, WidsDistinct
    <2>4. CountIsFinished'
      BY <1>9, <2>1 DEF PresenterUnblocked, CountIsFinished, Active
    <2>5. SlicesDrawn'
      BY <1>9 DEF PresenterUnblocked, SlicesDrawn, DrawnBy, Active
    <2>6. LayerComplete'
      BY <1>9 DEF PresenterUnblocked, LayerComplete
    <2>. QED  BY <2>2, <2>3, <2>4, <2>5, <2>6
  <1>10. CASE ReleaseSurface
    <2>1. Started' = Started /\ Finished' = Finished
      BY <1>10 DEF ReleaseSurface, Started, Finished
    <2>2. TypeOK'
      BY <1>10 DEF ReleaseSurface, TypeOK, PresenterPCs
    <2>3. WidsDistinct'
      BY <1>10, <2>1 DEF ReleaseSurface, WidsDistinct
    <2>4. CountIsFinished'
      BY <1>10, <2>1 DEF ReleaseSurface, CountIsFinished, Active
    <2>5. SlicesDrawn'
      BY <1>10 DEF ReleaseSurface, SlicesDrawn, DrawnBy, Active
    <2>6. LayerComplete'
      BY <1>10 DEF ReleaseSurface, LayerComplete
    <2>. QED  BY <2>2, <2>3, <2>4, <2>5, <2>6
  <1>11. CASE AssertWaitDone
    <2>1. Started' = Started /\ Finished' = Finished
      BY <1>11 DEF AssertWaitDone, Started, Finished
    <2>2. TypeOK'
      BY <1>11 DEF AssertWaitDone, TypeOK, PresenterPCs
    <2>3. WidsDistinct'
      BY <1>11, <2>1 DEF AssertWaitDone, WidsDistinct
    <2>4. CountIsFinished'
      BY <1>11, <2>1 DEF AssertWaitDone, CountIsFinished, Active
    <2>5. SlicesDrawn'
      BY <1>11 DEF AssertWaitDone, SlicesDrawn, DrawnBy, Active
    <2>6. LayerComplete'
      BY <1>11 DEF AssertWaitDone, LayerComplete
    <2>. QED  BY <2>2, <2>3, <2>4, <2>5, <2>6
  <1>. QED  BY <1>1, <1>2, <1>3, <1>4, <1>5, <1>6, <1>7, <1>8, <1>9, <1>10,
           <1>11 DEF Present

LEMMA NextInv == Inv /\ [Next]_vars => Inv'
  <1>. SUFFICES ASSUME Inv, [Next]_vars PROVE Inv'
    OBVIOUS
  <1>1. CASE Next
    BY <1>1, HelperStep, PresenterStep DEF Next
  <1>2. CASE UNCHANGED vars
    BY <1>2 DEF vars, Inv, TypeOK, WidsDistinct, CountIsFinished, SlicesDrawn,
                LayerComplete, Started, Finished, DrawnBy
  <1>. QED  BY <1>1, <1>2

-----------------------------------------------------------------------------
(***************************************************************************)
(* The theorems.                                                           *)
(***************************************************************************)

(* The inductive invariant holds throughout: helperMain and present() keep  *)
(* done_count, the generations seen and the rows drawn in step.             *)
THEOREM SliceInvariant == Spec => []Inv
  <1>. QED  BY InitInv, NextInv, PTL DEF Spec

(* The type invariant: done_count stays below the number of workers and     *)
(* every worker's id in range, so the slices are those of the band.         *)
THEOREM SliceTypes == Spec => []TypeOK
  <1>1. Inv => TypeOK
    BY DEF Inv
  <1>. QED  BY <1>1, SliceInvariant, PTL

(* present() leaves its wait loop only with the whole band drawn.          *)
THEOREM LayersAreComplete == Spec => []LayerComplete
  <1>1. Inv => LayerComplete
    BY DEF Inv
  <1>. QED  BY <1>1, SliceInvariant, PTL

(* No helper reads fJob or the source pixels outside a job.                *)
THEOREM JobIsStable == Spec => []JobStable
  <1>1. Inv => JobStable
    BY DEF Inv, JobStable, CountIsFinished, Finished, Active, TypeOK, PresenterPCs
  <1>. QED  BY <1>1, SliceInvariant, PTL

(* Two helpers that render at the same time have disjoint slices.          *)
THEOREM NoRowIsShared == Spec => []NoSharedRow
  <1>1. Inv => NoSharedRow
    <2>. SUFFICES ASSUME Inv, NEW g \in Helpers, NEW h \in Helpers, g # h,
                         hpc[g] = "render", hpc[h] = "render"
                  PROVE  SliceRows(job, wid[g], Workers)
                           \cap SliceRows(job, wid[h], Workers) = {}
      BY DEF NoSharedRow
    <2>. USE DEF Inv
    <2>1. wid[g] # wid[h]
      BY DEF WidsDistinct, Started
    <2>2. /\ wid[g] \in 0 .. Workers - 1 /\ wid[h] \in 0 .. Workers - 1
          /\ job \in Jobs
      BY DEF TypeOK
    <2>3. wid[g] < wid[h] \/ wid[h] < wid[g]
      BY <2>1, <2>2, WorkersAssumption
    <2>. QED  BY <2>2, <2>3, SlicesDisjoint
  <1>. QED  BY <1>1, SliceInvariant, PTL
=============================================================================
