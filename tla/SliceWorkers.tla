---------------------------- MODULE SliceWorkers ----------------------------
(***************************************************************************)
(* How AppleCLCD draws one layer of a frame with several threads            *)
(* (iokit/Kernel/arm/XZSFramebuffer.cpp).  The presenter thread fills fJob, *)
(* bumps fJob.gen, draws slice 0 itself and waits until the helper threads  *)
(* have counted themselves in fJob.done_count.  There is no lock: the two   *)
(* sides meet only through two atomic words and the kernel's               *)
(* assert_wait / thread_block / thread_wakeup.  Every access to a shared    *)
(* word is a step of its own here.                                          *)
(*                                                                         *)
(* The panel is a function from rows to the frame last drawn in the row; a  *)
(* frame number stands for the pixels of the surface being presented.       *)
(***************************************************************************)
EXTENDS Integers, FiniteSets

CONSTANTS
    Helpers,    \* the helper threads, XZS_FB_WORKER_THREADS - 1 of them
    Workers,    \* XZS_FB_WORKER_THREADS
    Height,     \* fHeight: rows of the panel
    Bands,      \* the clipped bands <<py0, py1>> that present() may compute
    ParallelMin,\* rows from which the helpers are used (120 in the code)
    GenMod,     \* fJob.gen counts modulo this (2^32 in the code)
    MaxFrame    \* bound: layers drawn in a behaviour

(* The code fixes four workers; the row arithmetic is proved up to that.   *)
ASSUME WorkersAssumption ==
    /\ Workers \in 2..4
    /\ IsFiniteSet(Helpers)
    /\ Cardinality(Helpers) = Workers - 1

ASSUME SizesAssumption ==
    /\ Height \in Nat \ {0}
    /\ Bands \subseteq {b \in (0 .. Height) \X (0 .. Height) : b[1] < b[2]}
    /\ ParallelMin \in Nat
    /\ GenMod \in Nat \ {0, 1}
    /\ MaxFrame \in Nat

VARIABLES
    gen,        \* fJob.gen
    done,       \* fJob.done_count
    job,        \* the other fields of fJob: the frame and its rows py0..py1-1
    held,       \* the presenter's reference on the source surface
    waitGen,    \* helpers on the wait queue of &fJob.gen
    waitDone,   \* whether the presenter is on the wait queue of &fJob.done_count
    nextWid,    \* fNextWorkerID
    ppc,        \* where the presenter is in present()
    hpc,        \* where each helper is in helperMain()
    seen,       \* each helper's seen_gen
    wid,        \* each helper's worker id (0 until it has one)
    panel       \* row -> frame drawn there

vars == <<gen, done, job, held, waitGen, waitDone, nextWid, ppc, hpc, seen,
          wid, panel>>

Rows == 0 .. Height - 1
Frames == 0 .. MaxFrame

(* fJob as the presenter leaves it: a band of rows clipped to the panel.   *)
Jobs == {j \in [frame : Frames, py0 : 0 .. Height, py1 : 0 .. Height] :
            j.py0 <= j.py1}

(***************************************************************************)
(* renderSlice(worker_id, total_workers): rows y0 .. y1 - 1.               *)
(***************************************************************************)
SliceTop(j, w, total) == j.py0 + ((j.py1 - j.py0) * w) \div total

(* Mutant: a slice starts a row late.                                      *)
SliceRowsLate(j, w, total) ==
    LET y1 == IF w + 1 = total THEN j.py1 ELSE SliceTop(j, w + 1, total)
    IN  {y \in Rows : SliceTop(j, w, total) < y /\ y < y1}

SliceRows(j, w, total) ==
    LET y0 == SliceTop(j, w, total)
        y1 == IF w + 1 = total THEN j.py1 ELSE SliceTop(j, w + 1, total)
    IN  {y \in Rows : y0 <= y /\ y < y1}

renderSlice(w, total) ==
    panel' = [y \in Rows |-> IF y \in SliceRows(job, w, total)
                             THEN job.frame ELSE panel[y]]

-----------------------------------------------------------------------------
Init ==
    /\ gen = 0 /\ done = 0
    /\ job = [frame |-> 0, py0 |-> 0, py1 |-> 0]
    /\ held = FALSE
    /\ waitGen = {} /\ waitDone = FALSE
    /\ nextWid = 1
    /\ ppc = "idle"
    /\ hpc = [h \in Helpers |-> "start"]
    /\ seen = [h \in Helpers |-> 0]
    /\ wid = [h \in Helpers |-> 0]
    /\ panel = [y \in Rows |-> 0]

(* Mutant: fNextWorkerID is read and not incremented.                      *)
StartHelperSameId(h) ==
    /\ hpc[h] = "start"
    /\ wid' = [wid EXCEPT ![h] = nextWid]
    /\ hpc' = [hpc EXCEPT ![h] = "assert"]
    /\ UNCHANGED <<gen, done, job, held, waitGen, waitDone, nextWid, ppc, seen,
                   panel>>

(***************************************************************************)
(* helperMain                                                              *)
(***************************************************************************)
StartHelper(h) ==
    /\ hpc[h] = "start"
    /\ wid' = [wid EXCEPT ![h] = nextWid]
    /\ nextWid' = nextWid + 1
    /\ hpc' = [hpc EXCEPT ![h] = "assert"]
    /\ UNCHANGED <<gen, done, job, held, waitGen, waitDone, ppc, seen, panel>>

AssertWaitGen(h) ==
    /\ hpc[h] = "assert"
    /\ waitGen' = waitGen \cup {h}
    /\ hpc' = [hpc EXCEPT ![h] = "load"]
    /\ UNCHANGED <<gen, done, job, held, waitDone, nextWid, ppc, seen, wid,
                   panel>>

(* Mutant: seen_gen is not updated, so a job is taken twice.                *)
LoadGenUnseen(h) ==
    /\ hpc[h] = "load"
    /\ IF gen = seen[h]
       THEN hpc' = [hpc EXCEPT ![h] = "block"] /\ UNCHANGED waitGen
       ELSE hpc' = [hpc EXCEPT ![h] = "render"] /\ waitGen' = waitGen \ {h}
    /\ UNCHANGED <<gen, done, job, held, waitDone, nextWid, ppc, seen, wid, panel>>

(* cur_gen is loaded with acquire; equal to seen_gen means nothing new.    *)
LoadGen(h) ==
    /\ hpc[h] = "load"
    /\ \/ /\ gen = seen[h]
          /\ hpc' = [hpc EXCEPT ![h] = "block"]
          /\ UNCHANGED <<waitGen, seen>>
       \/ /\ gen # seen[h]
          /\ waitGen' = waitGen \ {h}
          /\ seen' = [seen EXCEPT ![h] = gen]
          /\ hpc' = [hpc EXCEPT ![h] = "render"]
    /\ UNCHANGED <<gen, done, job, held, waitDone, nextWid, ppc, wid, panel>>

(* thread_block returns once the thread is off the wait queue.             *)
HelperUnblocked(h) ==
    /\ hpc[h] = "block"
    /\ h \notin waitGen
    /\ hpc' = [hpc EXCEPT ![h] = "assert"]
    /\ UNCHANGED <<gen, done, job, held, waitGen, waitDone, nextWid, ppc, seen,
                   wid, panel>>

HelperRender(h) ==
    /\ hpc[h] = "render"
    /\ renderSlice(wid[h], Workers)
    /\ hpc' = [hpc EXCEPT ![h] = "count"]
    /\ UNCHANGED <<gen, done, job, held, waitGen, waitDone, nextWid, ppc, seen,
                   wid>>

CountDone(h) ==
    /\ hpc[h] = "count"
    /\ done' = done + 1
    /\ hpc' = [hpc EXCEPT ![h] = "wake"]
    /\ UNCHANGED <<gen, job, held, waitGen, waitDone, nextWid, ppc, seen, wid,
                   panel>>

WakePresenter(h) ==
    /\ hpc[h] = "wake"
    /\ waitDone' = FALSE
    /\ hpc' = [hpc EXCEPT ![h] = "assert"]
    /\ UNCHANGED <<gen, done, job, held, waitGen, nextWid, ppc, seen, wid,
                   panel>>

(***************************************************************************)
(* present(): one layer, from filling fJob to releasing the surface.       *)
(***************************************************************************)
FillJob(b) ==
    /\ ppc = "idle"
    /\ job.frame < MaxFrame
    /\ job' = [frame |-> job.frame + 1, py0 |-> b[1], py1 |-> b[2]]
    /\ held' = TRUE
    /\ ppc' = IF b[2] - b[1] >= ParallelMin THEN "reset" ELSE "alone"
    /\ UNCHANGED <<gen, done, waitGen, waitDone, nextWid, hpc, seen, wid, panel>>

RenderAlone ==
    /\ ppc = "alone"
    /\ renderSlice(0, 1)
    /\ ppc' = "drawn"
    /\ UNCHANGED <<gen, done, job, held, waitGen, waitDone, nextWid, hpc, seen,
                   wid>>

(* Mutant: done_count keeps the count of the layer before.                  *)
ResetDoneMissing ==
    /\ ppc = "reset"
    /\ ppc' = "bump"
    /\ UNCHANGED <<gen, done, job, held, waitGen, waitDone, nextWid, hpc, seen,
                   wid, panel>>

ResetDone ==
    /\ ppc = "reset"
    /\ done' = 0
    /\ ppc' = "bump"
    /\ UNCHANGED <<gen, job, held, waitGen, waitDone, nextWid, hpc, seen, wid,
                   panel>>

BumpGen ==
    /\ ppc = "bump"
    /\ gen' = (gen + 1) % GenMod
    /\ ppc' = "wakeAll"
    /\ UNCHANGED <<done, job, held, waitGen, waitDone, nextWid, hpc, seen, wid,
                   panel>>

WakeHelpers ==
    /\ ppc = "wakeAll"
    /\ waitGen' = {}
    /\ ppc' = "slice0"
    /\ UNCHANGED <<gen, done, job, held, waitDone, nextWid, hpc, seen, wid,
                   panel>>

RenderSliceZero ==
    /\ ppc = "slice0"
    /\ renderSlice(0, Workers)
    /\ ppc' = "check"
    /\ UNCHANGED <<gen, done, job, held, waitGen, waitDone, nextWid, hpc, seen,
                   wid>>

(* Mutant: one helper too few is waited for.                               *)
CheckDoneEarly ==
    /\ ppc = "check"
    /\ ppc' = IF done >= Workers - 2 THEN "drawn" ELSE "assertDone"
    /\ UNCHANGED <<gen, done, job, held, waitGen, waitDone, nextWid, hpc, seen,
                   wid, panel>>

CheckDone ==
    /\ ppc = "check"
    /\ ppc' = IF done >= Workers - 1 THEN "drawn" ELSE "assertDone"
    /\ UNCHANGED <<gen, done, job, held, waitGen, waitDone, nextWid, hpc, seen,
                   wid, panel>>

AssertWaitDone ==
    /\ ppc = "assertDone"
    /\ waitDone' = TRUE
    /\ ppc' = "recheck"
    /\ UNCHANGED <<gen, done, job, held, waitGen, nextWid, hpc, seen, wid, panel>>

(* Mutant: done_count is not read again after assert_wait.                  *)
RecheckDoneMissing ==
    /\ ppc = "recheck"
    /\ ppc' = "block"
    /\ UNCHANGED <<gen, done, job, held, waitGen, waitDone, nextWid, hpc, seen,
                   wid, panel>>

RecheckDone ==
    /\ ppc = "recheck"
    /\ \/ /\ done >= Workers - 1
          /\ waitDone' = FALSE
          /\ ppc' = "drawn"
       \/ /\ done < Workers - 1
          /\ ppc' = "block"
          /\ UNCHANGED waitDone
    /\ UNCHANGED <<gen, done, job, held, waitGen, nextWid, hpc, seen, wid, panel>>

PresenterUnblocked ==
    /\ ppc = "block"
    /\ ~waitDone
    /\ ppc' = "check"
    /\ UNCHANGED <<gen, done, job, held, waitGen, waitDone, nextWid, hpc, seen,
                   wid, panel>>

ReleaseSurface ==
    /\ ppc = "drawn"
    /\ held' = FALSE
    /\ ppc' = "idle"
    /\ UNCHANGED <<gen, done, job, waitGen, waitDone, nextWid, hpc, seen, wid,
                   panel>>

-----------------------------------------------------------------------------
Helper(h) ==
    \/ StartHelper(h) \/ AssertWaitGen(h) \/ LoadGen(h) \/ HelperUnblocked(h)
    \/ HelperRender(h) \/ CountDone(h) \/ WakePresenter(h)

(* The step of present() after fJob is filled: the thread keeps running.   *)
Present ==
    \/ RenderAlone \/ ResetDone \/ BumpGen \/ WakeHelpers \/ RenderSliceZero
    \/ CheckDone \/ AssertWaitDone \/ RecheckDone \/ PresenterUnblocked
    \/ ReleaseSurface

Next ==
    \/ \E b \in Bands : FillJob(b)
    \/ Present
    \/ \E h \in Helpers : Helper(h)

Spec == Init /\ [][Next]_vars

(* Runnable kernel threads are eventually scheduled; a new frame need not   *)
(* ever come, so FillJob has no fairness.                                   *)
FairSpec ==
    Spec /\ WF_vars(Present) /\ \A h \in Helpers : WF_vars(Helper(h))

-----------------------------------------------------------------------------
PresenterPCs == {"idle", "alone", "reset", "bump", "wakeAll", "slice0",
                 "check", "assertDone", "recheck", "block", "drawn"}
HelperPCs == {"start", "assert", "load", "block", "render", "count", "wake"}

(* Type invariant.                                                         *)
TypeOK ==
    /\ gen \in 0 .. GenMod - 1
    /\ done \in 0 .. Workers - 1
    /\ job \in Jobs
    /\ held \in BOOLEAN
    /\ waitGen \subseteq Helpers
    /\ waitDone \in BOOLEAN
    /\ nextWid \in 1 .. Workers
    /\ ppc \in PresenterPCs
    /\ hpc \in [Helpers -> HelperPCs]
    /\ seen \in [Helpers -> 0 .. GenMod - 1]
    /\ wid \in [Helpers -> 0 .. Workers - 1]
    /\ panel \in [Rows -> Frames]

(***************************************************************************)
(* When present() leaves its wait loop, every row of the layer's band holds *)
(* the new frame: no helper was skipped by a stale gen, an early            *)
(* done_count or a slice boundary (XZSFramebuffer.cpp 797-812).            *)
(***************************************************************************)
LayerComplete ==
    ppc = "drawn" => \A y \in job.py0 .. job.py1 - 1 : panel[y] = job.frame

(***************************************************************************)
(* A helper that is about to read fJob's fields and the source pixels does  *)
(* so only between the bump of gen and the release of the surface: fJob is  *)
(* not being rewritten and the surface cannot be freed under it.            *)
(***************************************************************************)
JobStable ==
    \A h \in Helpers :
        hpc[h] = "render" =>
            /\ held
            /\ ppc \in {"wakeAll", "slice0", "check", "assertDone", "recheck",
                        "block"}

(* Two workers never draw in the same row at once: their blend rows and     *)
(* their panel stores do not overlap (fBlendRow is indexed by worker_id).   *)
NoSharedRow ==
    \A g, h \in Helpers :
        (g # h /\ hpc[g] = "render" /\ hpc[h] = "render") =>
            SliceRows(job, wid[g], Workers) \cap SliceRows(job, wid[h], Workers)
                = {}

(***************************************************************************)
(* The inductive invariant behind them.  A helper has finished a generation *)
(* when it has seen it and is past counting itself; done_count is the       *)
(* number of such helpers while a job is out, and no helper is behind when  *)
(* none is.                                                                 *)
(***************************************************************************)
Active == {"wakeAll", "slice0", "check", "assertDone", "recheck", "block"}

Finished == {h \in Helpers : seen[h] = gen /\ hpc[h] \notin {"render", "count"}}
Started == {h \in Helpers : hpc[h] # "start"}

DrawnBy(w) == \A y \in SliceRows(job, w, Workers) : panel[y] = job.frame

(* Worker ids are handed out once each.                                    *)
WidsDistinct ==
    /\ nextWid = Cardinality(Started) + 1
    /\ \A h \in Helpers : /\ wid[h] < nextWid
                          /\ hpc[h] # "start" => wid[h] > 0
    /\ \A g, h \in Started : wid[g] = wid[h] => g = h

(* Between jobs every helper has finished; during one, done_count counts    *)
(* exactly those that have.                                                 *)
CountIsFinished ==
    /\ ppc \notin Active => Finished = Helpers
    /\ ppc \in Active => done = Cardinality(Finished) /\ Finished \subseteq Started
    /\ ppc = "bump" => done = 0
    /\ \A h \in Helpers : hpc[h] \in {"render", "count"} => seen[h] = gen
    /\ ppc # "idle" => held

(* What has been counted has been drawn.                                   *)
SlicesDrawn ==
    /\ \A h \in Helpers :
           (ppc \in Active /\ seen[h] = gen /\ hpc[h] # "render") => DrawnBy(wid[h])
    /\ ppc \in {"check", "assertDone", "recheck", "block"} => DrawnBy(0)

Inv == TypeOK /\ WidsDistinct /\ CountIsFinished /\ SlicesDrawn /\ LayerComplete

(* present() always comes back: no wakeup is lost in either direction.      *)
PresentReturns == (ppc # "idle") ~> (ppc = "idle")
=============================================================================
