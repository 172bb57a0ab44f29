------------------------------ MODULE SyncQueue ------------------------------
(***************************************************************************)
(* The sync queue of one merchant and one kind of sync (catalog or         *)
(* inventory): webhooks ask for a sync, one main sync runs at a time, and  *)
(* what arrives while it runs is left to one follow-up sync that nobody    *)
(* waits for.  The flags live in memory; sync_history remembers across a   *)
(* restart that a sync was running.                                        *)
(***************************************************************************)
EXTENDS Integers, FiniteSets

CONSTANTS
  MaxVersion,  \* bound on the changes made at Square
  MaxRestarts, \* bound on the restarts of the server
  Regimes      \* what may happen in a behaviour: sets of hazards out of AllHazards

AllHazards ==
  {"late",     \* a webhook arrives while the end of a sync is being written down
   "overlap",  \* a webhook arrives while a follow-up sync runs
   "failure",  \* a sync fails
   "restart"}  \* the server restarts

ASSUME BoundsAssumption == MaxVersion \in Nat /\ MaxRestarts \in Nat
ASSUME RegimesAssumption == Regimes \subseteq SUBSET AllHazards

VARIABLES
  source,     \* version of the data at Square; every change sends a webhook
  local,      \* version of the data in the local tables
  mains,      \* the call of executeWithQueue made for each version
  follows,    \* the follow-up sync started by that call
  read,       \* [main, follow]: the version each sync has read
  inProgress, \* catalogInProgress / inventoryInProgress
  pending,    \* catalogPending / inventoryPending
  history,    \* sync_history.status
  restarts,
  hazards     \* the regime of the behaviour

flags == <<inProgress, pending>>
world == <<restarts, hazards>>
vars  == <<source, local, mains, follows, read, flags, history, world>>
-----------------------------------------------------------------------------
Versions == 1..MaxVersion

MainSteps   == {"none", "starting", "reading", "applying", "closing", "failing",
                "done", "failed", "queued", "lost"}
FollowSteps == {"none", "reading", "applying", "done", "failed", "lost"}

Running(step)  == step \in {"starting", "reading", "applying", "closing", "failing"}
MainRuns       == {v \in Versions : Running(mains[v])}
FollowRuns     == {v \in Versions : follows[v] \in {"reading", "applying"}}

Init ==
  /\ source = 0 /\ local = 0
  /\ mains = [v \in Versions |-> "none"]
  /\ follows = [v \in Versions |-> "none"]
  /\ read = [v \in Versions |-> [main |-> 0, follow |-> 0]]
  /\ inProgress = FALSE /\ pending = FALSE
  /\ history = "none"
  /\ restarts = 0
  /\ hazards \in Regimes
-----------------------------------------------------------------------------
Change ==
  /\ source < MaxVersion
  /\ source' = source + 1
  /\ UNCHANGED <<local, mains, follows, read, flags, history, world>>

MayArrive ==
  /\ "late" \in hazards \/ \A v \in Versions : mains[v] \notin {"closing", "failing"}
  /\ "overlap" \in hazards \/ FollowRuns = {}

\* Webhooks arrive in any order.
Asked(v) == v <= source /\ mains[v] = "none" /\ MayArrive

\* A sync is running: it is asked for a follow-up.
Enqueue(v) ==
  /\ Asked(v)
  /\ inProgress
  /\ pending' = TRUE
  /\ mains' = [mains EXCEPT ![v] = "queued"]
  /\ UNCHANGED <<source, local, follows, read, inProgress, history, world>>

\* Mutant: the flag is not looked at.
StartBlind(v) ==
  /\ Asked(v)
  /\ inProgress' = TRUE
  /\ pending' = FALSE
  /\ mains' = [mains EXCEPT ![v] = "starting"]
  /\ UNCHANGED <<source, local, follows, read, history, world>>

Start(v) ==
  /\ Asked(v)
  /\ ~inProgress
  /\ inProgress' = TRUE
  /\ pending' = FALSE
  /\ mains' = [mains EXCEPT ![v] = "starting"]
  /\ UNCHANGED <<source, local, follows, read, history, world>>

\* _persistSyncStart; an error is logged and passed over.
PersistStart(v) ==
  /\ mains[v] = "starting"
  /\ history' \in {"running", history}
  /\ mains' = [mains EXCEPT ![v] = "reading"]
  /\ UNCHANGED <<source, local, follows, read, flags, world>>

\* Mutant: the flag goes down before the sync is over.
ReadMainUnflagged(v) ==
  /\ mains[v] = "reading"
  /\ read' = [read EXCEPT ![v].main = source]
  /\ mains' = [mains EXCEPT ![v] = "applying"]
  /\ inProgress' = FALSE
  /\ UNCHANGED <<source, local, follows, pending, history, world>>

\* syncFn: read Square's data, then write it to the local tables.
ReadMain(v) ==
  /\ mains[v] = "reading"
  /\ read' = [read EXCEPT ![v].main = source]
  /\ mains' = [mains EXCEPT ![v] = "applying"]
  /\ UNCHANGED <<source, local, follows, flags, history, world>>

\* Mutant: pending is cleared and no follow-up is started.
ApplyMainOnly(v) ==
  /\ mains[v] = "applying"
  /\ local' = read[v].main
  /\ mains' = [mains EXCEPT ![v] = "closing"]
  /\ pending' = FALSE
  /\ UNCHANGED <<source, follows, read, inProgress, history, world>>

\* The sync returns, and the pending flag is looked at at once.
ApplyMain(v) ==
  /\ mains[v] = "applying"
  /\ local' = read[v].main
  /\ mains' = [mains EXCEPT ![v] = "closing"]
  /\ pending' = FALSE
  /\ follows' = IF pending THEN [follows EXCEPT ![v] = "reading"] ELSE follows
  /\ UNCHANGED <<source, read, inProgress, history, world>>

\* A sync that throws leaves the pending flag as it is.
FailMain(v) ==
  /\ "failure" \in hazards
  /\ mains[v] \in {"reading", "applying"}
  /\ mains' = [mains EXCEPT ![v] = "failing"]
  /\ UNCHANGED <<source, local, follows, read, flags, history, world>>

\* _persistSyncComplete, then the finally clause.
Close(v) ==
  /\ mains[v] \in {"closing", "failing"}
  /\ history' \in {IF mains[v] = "closing" THEN "success" ELSE "failed", history}
  /\ mains' = [mains EXCEPT ![v] = IF mains[v] = "closing" THEN "done" ELSE "failed"]
  /\ inProgress' = FALSE
  /\ UNCHANGED <<source, local, follows, read, pending, world>>

ReadFollow(v) ==
  /\ follows[v] = "reading"
  /\ read' = [read EXCEPT ![v].follow = source]
  /\ follows' = [follows EXCEPT ![v] = "applying"]
  /\ UNCHANGED <<source, local, mains, flags, history, world>>

\* Mutant: the follow-up writes what the sync that started it has read.
ApplyFollowOld(v) ==
  /\ follows[v] = "applying"
  /\ local' = read[v].main
  /\ follows' = [follows EXCEPT ![v] = "done"]
  /\ UNCHANGED <<source, mains, read, flags, history, world>>

ApplyFollow(v) ==
  /\ follows[v] = "applying"
  /\ local' = read[v].follow
  /\ follows' = [follows EXCEPT ![v] = "done"]
  /\ UNCHANGED <<source, mains, read, flags, history, world>>

FailFollow(v) ==
  /\ "failure" \in hazards
  /\ follows[v] \in {"reading", "applying"}
  /\ follows' = [follows EXCEPT ![v] = "failed"]
  /\ UNCHANGED <<source, local, mains, read, flags, history, world>>

\* The server restarts and initialize() reads sync_history: a row that says
\* running is marked interrupted when it is old, and else taken for a sync that
\* still runs.
Restart ==
  /\ "restart" \in hazards
  /\ restarts < MaxRestarts
  /\ restarts' = restarts + 1
  /\ mains' = [v \in Versions |-> IF Running(mains[v]) THEN "lost" ELSE mains[v]]
  /\ follows' = [v \in Versions |-> IF v \in FollowRuns THEN "lost" ELSE follows[v]]
  /\ pending' = FALSE
  /\ \/ history = "running" /\ history' = "interrupted" /\ inProgress' = FALSE
     \/ UNCHANGED history /\ inProgress' = (history = "running")
  /\ UNCHANGED <<source, local, read, hazards>>

Step(v) ==
  \/ PersistStart(v) \/ ReadMain(v) \/ ApplyMain(v) \/ FailMain(v) \/ Close(v)
  \/ ReadFollow(v) \/ ApplyFollow(v) \/ FailFollow(v)

Next ==
  \/ Change \/ Restart
  \/ \E v \in Versions : Enqueue(v) \/ Start(v) \/ Step(v)

Spec == Init /\ [][Next]_vars

\* A sync that runs goes on, and a webhook is eventually delivered.
FairSpec ==
  Spec /\ \A v \in Versions : WF_vars(Step(v)) /\ SF_vars(Enqueue(v) \/ Start(v))
-----------------------------------------------------------------------------
(* Properties *)

\* Every variable holds what its flag, column or sync can hold.
TypeOK ==
  /\ source \in 0..MaxVersion /\ local \in 0..MaxVersion
  /\ mains \in [Versions -> MainSteps]
  /\ follows \in [Versions -> FollowSteps]
  /\ read \in [Versions -> [main : 0..MaxVersion, follow : 0..MaxVersion]]
  /\ inProgress \in BOOLEAN /\ pending \in BOOLEAN
  /\ history \in {"none", "running", "success", "failed", "interrupted"}
  /\ restarts \in 0..MaxRestarts
  /\ hazards \in Regimes

\* Two main syncs never run side by side, through failures, late webhooks and
\* restarts: the flag is up for as long as one runs.
MainExclusive ==
  /\ MainRuns # {} => inProgress
  /\ \A u, v \in MainRuns : u = v

\* Version v is in the local tables, or a sync that has yet to read runs or is
\* sure to.
OnItsWay(v) ==
  \/ local >= v
  \/ \E u \in Versions : \/ mains[u] \in {"starting", "reading"}
                         \/ mains[u] = "applying" /\ (pending \/ read[u].main >= v)
                         \/ follows[u] = "reading"
                         \/ follows[u] = "applying" /\ read[u].follow >= v

\* The header of sync-queue.js says that no webhook data is missed.  That holds as
\* long as webhooks come at no awkward moment and no sync fails: what a webhook has
\* been answered for is not forgotten.
Covered ==
  hazards = {} => \A v \in Versions : mains[v] \in {"done", "queued"} => OnItsWay(v)

\* Then the local tables never go back to an older version either.
NeverBack == [][hazards = {} => local' >= local]_vars

\* Nor do they stay behind: when the changes stop, they end up with the last one.
Settles == hazards = {} /\ <>[](source = MaxVersion) => <>[](local = MaxVersion)
=============================================================================
