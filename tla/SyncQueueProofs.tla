--------------------------- MODULE SyncQueueProofs ---------------------------
(* Proofs about SyncQueue, for any number of webhooks and restarts. *)
EXTENDS SyncQueue, TLAPS

\* Every variable keeps its type: no step leaves the states the code declares.
THEOREM TypeCorrect == Spec => []TypeOK
<1>1. Init => TypeOK
  <2> SUFFICES ASSUME Init PROVE TypeOK
    OBVIOUS
  <2>1. source \in 0..MaxVersion /\ local \in 0..MaxVersion /\ restarts \in 0..MaxRestarts
    BY BoundsAssumption DEF Init
  <2>2. read \in [Versions -> [main : 0..MaxVersion, follow : 0..MaxVersion]]
    BY BoundsAssumption DEF Init
  <2> QED
    BY <2>1, <2>2, Zenon DEF Init, TypeOK, MainSteps, FollowSteps
<1>2. TypeOK /\ [Next]_vars => TypeOK'
  <2> SUFFICES ASSUME TypeOK, [Next]_vars PROVE TypeOK'
    OBVIOUS
  <2> USE BoundsAssumption DEF TypeOK, MainSteps, FollowSteps, flags, world
  <2>1. CASE Change
    BY <2>1 DEF Change
  <2>2. CASE Restart
    <3>1. inProgress' \in BOOLEAN /\ pending' \in BOOLEAN
      BY <2>2, Zenon DEF Restart
    <3>2. restarts' \in 0..MaxRestarts
      BY <2>2 DEF Restart
    <3>3. /\ mains' \in [Versions -> MainSteps]
          /\ follows' \in [Versions -> FollowSteps]
      BY <2>2 DEF Restart
    <3>4. history' \in {"none", "running", "success", "failed", "interrupted"}
      BY <2>2 DEF Restart
    <3>5. UNCHANGED <<source, local, read, hazards>>
      BY <2>2 DEF Restart
    <3> QED
      BY <3>1, <3>2, <3>3, <3>4, <3>5
  <2>3. ASSUME NEW v \in Versions, Enqueue(v) PROVE TypeOK'
    BY <2>3 DEF Enqueue
  <2>4. ASSUME NEW v \in Versions, Start(v) PROVE TypeOK'
    BY <2>4 DEF Start
  <2>5. ASSUME NEW v \in Versions, Step(v) PROVE TypeOK'
    <3>1. CASE PersistStart(v)
      BY <3>1 DEF PersistStart
    <3>2. CASE ReadMain(v)
      BY <3>2 DEF ReadMain
    <3>3. CASE ApplyMain(v)
      BY <3>3 DEF ApplyMain
    <3>4. CASE FailMain(v)
      BY <3>4 DEF FailMain
    <3>5. CASE Close(v)
      BY <3>5 DEF Close
    <3>6. CASE ReadFollow(v)
      BY <3>6 DEF ReadFollow
    <3>7. CASE ApplyFollow(v)
      BY <3>7 DEF ApplyFollow
    <3>8. CASE FailFollow(v)
      BY <3>8 DEF FailFollow
    <3> QED
      BY <2>5, <3>1, <3>2, <3>3, <3>4, <3>5, <3>6, <3>7, <3>8 DEF Step
  <2>6. CASE UNCHANGED vars
    BY <2>6 DEF vars
  <2> QED
    BY <2>1, <2>2, <2>3, <2>4, <2>5, <2>6 DEF Next
<1> QED
  BY <1>1, <1>2, PTL DEF Spec
-----------------------------------------------------------------------------
\* A step of a sync that runs does not make another one run, and only Close
\* takes the flag down, when the last one is over.
LEMMA StepExclusive ==
  ASSUME TypeOK, MainExclusive, NEW v \in Versions, Step(v)
  PROVE  MainExclusive'
<1> USE DEF TypeOK, MainExclusive, MainRuns, Running, flags, world
<1>1. CASE PersistStart(v) \/ ReadMain(v) \/ ApplyMain(v) \/ FailMain(v)
  BY <1>1 DEF PersistStart, ReadMain, ApplyMain, FailMain
<1>2. CASE Close(v)
  BY <1>2 DEF Close
<1>3. CASE ReadFollow(v) \/ ApplyFollow(v) \/ FailFollow(v)
  BY <1>3 DEF ReadFollow, ApplyFollow, FailFollow
<1> QED
  BY <1>1, <1>2, <1>3 DEF Step

\* executeWithQueue: two main syncs never run side by side and the flag is up
\* while one runs, whatever fails, arrives late or restarts.
THEOREM MainsExclude == Spec => []MainExclusive
<1>1. Init => MainExclusive
  BY DEF Init, MainExclusive, MainRuns, Running
<1>2. TypeOK /\ MainExclusive /\ [Next]_vars => MainExclusive'
  <2> SUFFICES ASSUME TypeOK, MainExclusive, [Next]_vars PROVE MainExclusive'
    OBVIOUS
  <2>1. CASE Change
    BY <2>1 DEF Change, MainExclusive, MainRuns, flags, world
  <2>2. CASE Restart
    <3>1. MainRuns' = {}
      BY <2>2 DEF Restart, MainRuns, Running
    <3> QED
      BY <3>1 DEF MainExclusive
  <2>3. ASSUME NEW v \in Versions, Enqueue(v) PROVE MainExclusive'
    BY <2>3 DEF Enqueue, Asked, TypeOK, MainExclusive, MainRuns, Running
  <2>4. ASSUME NEW v \in Versions, Start(v) PROVE MainExclusive'
    <3>1. MainRuns = {}
      BY <2>4 DEF Start, MainExclusive
    <3>2. MainRuns' = {v}
      BY <2>4, <3>1 DEF Start, TypeOK, MainRuns, Running
    <3> QED
      BY <2>4, <3>2 DEF Start, MainExclusive
  <2>5. ASSUME NEW v \in Versions, Step(v) PROVE MainExclusive'
    BY <2>5, StepExclusive
  <2>6. CASE UNCHANGED vars
    BY <2>6 DEF vars, flags, world, MainExclusive, MainRuns
  <2> QED
    BY <2>1, <2>2, <2>3, <2>4, <2>5, <2>6 DEF Next
<1> QED
  BY <1>1, <1>2, TypeCorrect, PTL DEF Spec
-----------------------------------------------------------------------------
(* Covered and NeverBack, without hazards.  Then a follow-up runs alone, next  *)
(* to nothing but the end of the sync that started it, so that nobody writes   *)
(* what it has read before somebody else wrote something newer.                *)

Active == {"starting", "reading", "applying"}

\* What was read is not older than what was written, nor newer than Square.
Ordered ==
  /\ local <= source
  /\ \A v \in Versions :
       /\ mains[v] # "none" => v <= source
       /\ read[v].main <= source /\ read[v].follow <= source
       /\ mains[v] = "applying" => read[v].main >= v /\ read[v].main >= local
       /\ follows[v] = "applying" => read[v].follow >= local

\* Who runs next to whom.
Alone ==
  /\ inProgress => MainRuns # {}
  /\ \A u, v \in FollowRuns : u = v
  /\ FollowRuns # {} => \A v \in Versions : mains[v] \notin Active

Answered(v) == mains[v] \in {"closing", "done", "queued"}
CoverInv == Ordered /\ Alone /\ \A v \in Versions : Answered(v) => OnItsWay(v)

LEMMA HazardsFixed == [Next]_vars => hazards' = hazards
BY DEF Next, vars, flags, world, Change, Restart, Enqueue, Start, Step, PersistStart, ReadMain,
       ApplyMain, FailMain, Close, ReadFollow, ApplyFollow, FailFollow

\* Of one sync's steps: the order of what is read and written, and who runs.
LEMMA StepOrdered ==
  ASSUME TypeOK, MainExclusive, Ordered, Alone, hazards = {}, NEW v \in Versions, Step(v)
  PROVE  Ordered' /\ Alone' /\ local' >= local /\ source' = source
<1> USE DEF TypeOK, Ordered, flags, world, Versions
<1>0. MainRuns = {v} \/ v \notin MainRuns
  BY DEF MainExclusive
<1>1. CASE PersistStart(v)
  <2>1. MainRuns' = MainRuns /\ FollowRuns' = FollowRuns
    BY <1>1 DEF PersistStart, MainRuns, FollowRuns, Running
  <2> QED
    BY <1>1, <2>1 DEF PersistStart, Alone, Active
<1>2. CASE ReadMain(v)
  <2>1. MainRuns' = MainRuns /\ FollowRuns' = FollowRuns
    BY <1>2 DEF ReadMain, MainRuns, FollowRuns, Running
  <2> QED
    BY <1>2, <2>1 DEF ReadMain, Alone, Active
<1>3. CASE ApplyMain(v)
  <2>1. FollowRuns = {} /\ v \in MainRuns
    BY <1>3 DEF ApplyMain, Alone, Active, MainRuns, Running
  <2>2. FollowRuns' \subseteq {v} /\ MainRuns' = MainRuns
    BY <1>3, <2>1 DEF ApplyMain, FollowRuns, MainRuns, Running
  <2>3. \A u \in Versions \ {v} : mains'[u] = mains[u] /\ mains[u] \notin Active
    BY <1>0, <1>3, <2>1 DEF ApplyMain, MainRuns, Running, Active
  <2>4. Alone'
    BY <1>3, <2>2, <2>3 DEF ApplyMain, Alone, Active
  <2>5. \A u \in Versions : mains'[u] # "applying" /\ follows'[u] # "applying"
    BY <1>3, <2>1, <2>3 DEF ApplyMain, Active, FollowRuns
  <2> QED
    BY <1>3, <2>4, <2>5 DEF ApplyMain
<1>4. CASE Close(v)
  <2>1. FollowRuns' = FollowRuns /\ \A u \in Versions : mains'[u] \in Active => mains[u] \in Active
    BY <1>4 DEF Close, FollowRuns, Active
  <2> QED
    BY <1>4, <2>1 DEF Close, Alone
<1>5. CASE ReadFollow(v)
  <2>1. MainRuns' = MainRuns /\ FollowRuns' = FollowRuns
    BY <1>5 DEF ReadFollow, MainRuns, FollowRuns
  <2> QED
    BY <1>5, <2>1 DEF ReadFollow, Alone
<1>6. CASE ApplyFollow(v)
  <2>1. MainRuns' = MainRuns /\ FollowRuns' \subseteq FollowRuns
    BY <1>6 DEF ApplyFollow, MainRuns, FollowRuns
  <2>2. v \in FollowRuns
    BY <1>6 DEF ApplyFollow, FollowRuns
  <2>3. \A u \in Versions : mains[u] # "applying" /\ (follows[u] = "applying" => u = v)
    BY <2>2 DEF Alone, Active, FollowRuns
  <2>4. Alone'
    BY <1>6, <2>1 DEF ApplyFollow, Alone
  <2> QED
    BY <1>6, <2>3, <2>4 DEF ApplyFollow
<1>7. ~ FailMain(v) /\ ~ FailFollow(v)
  BY DEF FailMain, FailFollow
<1> QED
  BY <1>1, <1>2, <1>3, <1>4, <1>5, <1>6, <1>7 DEF Step

\* What is on its way stays on its way.
LEMMA StepOnItsWay ==
  ASSUME TypeOK, Ordered, hazards = {}, NEW v \in Versions, Step(v),
         NEW w \in Versions, w <= source, OnItsWay(w), local' >= local
  PROVE  OnItsWay(w)'
<1> USE DEF TypeOK, flags, world, Versions
<1>1. CASE local >= w
  BY <1>1 DEF OnItsWay, Step, PersistStart, ReadMain, ApplyMain, Close, ReadFollow, ApplyFollow,
              FailMain, FailFollow
<1>2. ASSUME NEW u \in Versions, mains[u] \in {"starting", "reading"} PROVE OnItsWay(w)'
  <2>1. CASE u # v
    BY <1>2, <2>1 DEF OnItsWay, Step, PersistStart, ReadMain, ApplyMain, Close, ReadFollow,
                      ApplyFollow, FailMain, FailFollow
  <2>2. CASE PersistStart(v) /\ u = v
    BY <2>2 DEF OnItsWay, PersistStart
  <2>3. CASE ReadMain(v) /\ u = v
    BY <2>3 DEF OnItsWay, ReadMain
  <2>4. CASE (ReadFollow(v) \/ ApplyFollow(v)) /\ u = v
    BY <1>2, <2>4 DEF OnItsWay, ReadFollow, ApplyFollow
  <2> QED
    BY <1>2, <2>1, <2>2, <2>3, <2>4 DEF Step, ApplyMain, Close, FailMain, FailFollow
<1>3. ASSUME NEW u \in Versions, mains[u] = "applying", pending \/ read[u].main >= w
      PROVE  OnItsWay(w)'
  <2>1. CASE ApplyMain(v) /\ u = v
    BY <1>3, <2>1 DEF OnItsWay, ApplyMain
  <2>2. CASE ApplyMain(v) /\ u # v
    <3>1. pending => follows'[v] = "reading"
      BY <2>2 DEF ApplyMain
    <3>2. mains'[u] = "applying" /\ read' = read
      BY <1>3, <2>2 DEF ApplyMain
    <3> QED
      BY <1>3, <3>1, <3>2 DEF OnItsWay
  <2>3. CASE ~ ApplyMain(v)
    <3>1. mains'[u] = "applying" /\ pending' = pending /\ read'[u].main = read[u].main
      <4>1. ~ FailMain(v) /\ ~ FailFollow(v)
        BY DEF FailMain, FailFollow
      <4>2. CASE PersistStart(v) \/ Close(v) \/ ApplyFollow(v)
        BY <1>3, <4>2 DEF PersistStart, Close, ApplyFollow
      <4>3. CASE ReadMain(v)
        BY <1>3, <4>3 DEF ReadMain
      <4>4. CASE ReadFollow(v)
        BY <1>3, <4>4 DEF ReadFollow
      <4> QED
        BY <2>3, <4>1, <4>2, <4>3, <4>4 DEF Step
    <3> QED
      BY <1>3, <3>1 DEF OnItsWay
  <2> QED
    BY <2>1, <2>2, <2>3
<1>4. ASSUME NEW u \in Versions, follows[u] = "reading" PROVE OnItsWay(w)'
  <2>1. CASE ReadFollow(v) /\ u = v
    BY <2>1 DEF OnItsWay, ReadFollow
  <2>2. CASE ~ (ReadFollow(v) /\ u = v)
    <3>1. follows'[u] = "reading"
      BY <1>4, <2>2 DEF Step, PersistStart, ReadMain, ApplyMain, Close, ReadFollow, ApplyFollow,
                        FailMain, FailFollow
    <3> QED
      BY <3>1 DEF OnItsWay
  <2> QED
    BY <2>1, <2>2
<1>5. ASSUME NEW u \in Versions, follows[u] = "applying", read[u].follow >= w PROVE OnItsWay(w)'
  <2>1. CASE ApplyFollow(v) /\ u = v
    BY <1>5, <2>1 DEF OnItsWay, ApplyFollow
  <2>2. CASE ApplyMain(v) /\ u = v /\ pending
    BY <2>2 DEF OnItsWay, ApplyMain
  <2>3. CASE ~ (ApplyFollow(v) /\ u = v) /\ ~ (ApplyMain(v) /\ u = v /\ pending)
    <3>1. follows'[u] = "applying" /\ read'[u].follow = read[u].follow
      <4>1. ~ FailMain(v) /\ ~ FailFollow(v)
        BY DEF FailMain, FailFollow
      <4>2. CASE PersistStart(v) \/ Close(v)
        BY <1>5, <4>2 DEF PersistStart, Close
      <4>3. CASE ReadMain(v)
        BY <1>5, <4>3 DEF ReadMain
      <4>4. CASE ReadFollow(v)
        BY <1>5, <4>4 DEF ReadFollow
      <4>5. CASE ApplyMain(v)
        BY <1>5, <2>3, <4>5 DEF ApplyMain
      <4>6. CASE ApplyFollow(v)
        BY <1>5, <2>3, <4>6 DEF ApplyFollow
      <4> QED
        BY <4>1, <4>2, <4>3, <4>4, <4>5, <4>6 DEF Step
    <3> QED
      BY <1>5, <3>1 DEF OnItsWay
  <2> QED
    BY <2>1, <2>2, <2>3
<1> QED
  BY <1>1, <1>2, <1>3, <1>4, <1>5 DEF OnItsWay

\* Whoever is newly answered by a step of its sync finds its version written.
LEMMA StepCovers ==
  ASSUME TypeOK, MainExclusive, CoverInv, hazards = {}, NEW v \in Versions, Step(v)
  PROVE  CoverInv'
<1>1. Ordered' /\ Alone' /\ local' >= local /\ source' = source
  BY StepOrdered DEF CoverInv
<1>2. ASSUME NEW w \in Versions, Answered(w)' PROVE OnItsWay(w)'
  <2>1. CASE Answered(w)
    <3>1. w <= source
      BY <2>1 DEF CoverInv, Ordered, Answered
    <3> QED
      BY <1>1, <2>1, <3>1, StepOnItsWay DEF CoverInv
  <2>2. CASE ~ Answered(w)
    <3>1. ApplyMain(v) /\ w = v
      BY <1>2, <2>2 DEF Step, PersistStart, ReadMain, ApplyMain, Close, ReadFollow, ApplyFollow,
                        FailMain, FailFollow, Answered, TypeOK, flags, world
    <3> QED
      BY <3>1 DEF ApplyMain, CoverInv, Ordered, OnItsWay, TypeOK, Versions
  <2> QED
    BY <2>1, <2>2
<1> QED
  BY <1>1, <1>2 DEF CoverInv

\* A webhook that is answered while a sync runs is left to that sync's follow-up.
LEMMA AskedCovers ==
  ASSUME TypeOK, MainExclusive, CoverInv, hazards = {}, NEW v \in Versions,
         Enqueue(v) \/ Start(v)
  PROVE  CoverInv'
<1> USE DEF TypeOK, flags, world, Versions
<1>1. FollowRuns' = FollowRuns /\ FollowRuns = {} /\ v <= source
  BY DEF Enqueue, Start, Asked, MayArrive, FollowRuns
<1>2. Ordered'
  BY DEF Enqueue, Start, Asked, CoverInv, Ordered
<1>3. CASE Enqueue(v)
  <2>1. MainRuns' = MainRuns
    BY <1>3 DEF Enqueue, Asked, MainRuns, Running
  <2>2. Alone'
    BY <1>1, <1>3, <2>1 DEF Enqueue, CoverInv, Alone
  <2>3. PICK u \in Versions : mains[u] \in Active
    BY <1>3 DEF Enqueue, Asked, MayArrive, CoverInv, Alone, MainRuns, Running, Active
  <2>4. mains'[u] = mains[u] /\ pending' = TRUE
    BY <1>3, <2>3 DEF Enqueue, Asked, Active
  <2>5. \A w \in Versions : OnItsWay(w)'
    BY <2>3, <2>4 DEF OnItsWay, Active
  <2> QED
    BY <1>2, <2>2, <2>5 DEF CoverInv
<1>4. CASE Start(v)
  <2>1. MainRuns = {}
    BY <1>4 DEF Start, MainExclusive
  <2>2. v \in MainRuns'
    BY <1>4 DEF Start, MainRuns, Running
  <2>3. Alone'
    BY <1>1, <2>2 DEF Alone
  <2>4. \A w \in Versions : OnItsWay(w)'
    BY <1>4 DEF Start, OnItsWay
  <2> QED
    BY <1>2, <2>3, <2>4 DEF CoverInv
<1> QED
  BY <1>3, <1>4

LEMMA CoverStep ==
  ASSUME TypeOK, MainExclusive, hazards = {} => CoverInv, [Next]_vars
  PROVE  /\ (hazards = {} => CoverInv)'
         /\ hazards = {} => local' >= local
<1> SUFFICES ASSUME CoverInv, hazards = {} PROVE CoverInv' /\ local' >= local
  BY HazardsFixed DEF TypeOK
<1>0. local \in Int
  BY BoundsAssumption DEF TypeOK
<1>1. CASE Change
  <2>1. Ordered'
    BY <1>1 DEF Change, CoverInv, Ordered, TypeOK, flags, world, Versions
  <2>2. Alone' /\ \A v \in Versions : Answered(v)' => OnItsWay(v)'
    BY <1>1 DEF Change, CoverInv, Alone, Answered, OnItsWay, MainRuns, FollowRuns, flags
  <2> QED
    BY <1>0, <1>1, <2>1, <2>2 DEF Change, CoverInv
<1>2. ASSUME NEW v \in Versions, Enqueue(v) \/ Start(v) PROVE CoverInv' /\ local' >= local
  <2>1. local' = local
    BY <1>2 DEF Enqueue, Start
  <2> QED
    BY <1>0, <1>2, <2>1, AskedCovers
<1>3. ASSUME NEW v \in Versions, Step(v) PROVE CoverInv' /\ local' >= local
  BY <1>3, StepCovers, StepOrdered DEF CoverInv
<1>4. ~ Restart
  BY DEF Restart
<1>5. CASE UNCHANGED vars
  <2>1. CoverInv'
    BY <1>5 DEF vars, flags, world, CoverInv, Ordered, Alone, Answered, OnItsWay, MainRuns, FollowRuns
  <2> QED
    BY <1>0, <1>5, <2>1 DEF vars
<1> QED
  BY <1>1, <1>2, <1>3, <1>4, <1>5 DEF Next

LEMMA CoverInit == Init => CoverInv
BY BoundsAssumption DEF Init, CoverInv, Ordered, Alone, Answered, MainRuns, FollowRuns, Versions

LEMMA CoverAlways == Spec => [](hazards = {} => CoverInv)
BY CoverInit, CoverStep, TypeCorrect, MainsExclude, PTL DEF Spec

\* sync-queue.js: without failures and restarts, and as long as no webhook comes while a
\* follow-up runs or the end of a sync is written down, no webhook that was answered is
\* forgotten, for any number of them.
THEOREM NoWebhookMissed == Spec => []Covered
<1>1. (hazards = {} => CoverInv) => Covered
  BY DEF CoverInv, Covered, Answered
<1> QED
  BY <1>1, CoverAlways, PTL

\* Then no sync writes an older version over a newer one.
THEOREM TablesNeverGoBack == Spec => NeverBack
<1>1. TypeOK /\ MainExclusive /\ (hazards = {} => CoverInv) /\ [Next]_vars
      => [hazards = {} => local' >= local]_vars
  BY CoverStep
<1> QED
  BY <1>1, CoverAlways, TypeCorrect, MainsExclude, PTL DEF Spec, NeverBack

\* And the tables do not stay behind: whenever no sync runs and the webhook of every
\* change has been answered, they hold what Square holds (the safety half of Settles).
THEOREM RestIsCurrent ==
  Spec => [](/\ hazards = {}
             /\ MainRuns = {} /\ FollowRuns = {}
             /\ \A v \in Versions : v <= source => mains[v] \in {"done", "queued"}
             => local = source)
<1>1. ASSUME TypeOK, CoverInv, MainRuns = {}, FollowRuns = {},
             \A v \in Versions : v <= source => mains[v] \in {"done", "queued"}
      PROVE  local = source
  <2>1. local \in Nat /\ source \in 0..MaxVersion /\ local <= source
    BY <1>1, BoundsAssumption DEF TypeOK, CoverInv, Ordered
  <2>2. CASE source = 0
    BY <2>1, <2>2
  <2>3. CASE source # 0
    <3>1. source \in Versions
      BY <2>1, <2>3, BoundsAssumption DEF Versions
    <3>2. OnItsWay(source)
      BY <1>1, <2>1, <3>1 DEF CoverInv, Answered
    <3>3. local >= source
      BY <1>1, <3>2 DEF OnItsWay, MainRuns, FollowRuns, Running
    <3> QED
      BY <2>1, <3>3
  <2> QED
    BY <2>2, <2>3
<1> QED
  BY <1>1, CoverAlways, TypeCorrect, PTL
=============================================================================
