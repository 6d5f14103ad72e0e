----------------------------- MODULE ReplayCharts -----------------------------
(***************************************************************************)
(* From the commands of a recording to the charts of GetGameDetail: units  *)
(* produced, resources spent and the technology of each player, with their *)
(* timelines.  The recording grows command by command; the charts are      *)
(* what the server answers for it.                                         *)
(*                                                                         *)
(* Prices and the keyword lists that classify a unit are parameters.       *)
(***************************************************************************)
EXTENDS BuildOrder

CONSTANTS
  Commands,      \* the [pid, type, item, effective] a recording may hold
  Gaps,          \* frames between one command and the next
  MaxCommands,   \* bound: commands of a recording
  Price,         \* [items -> <<mineral, gas>>]; unknown items cost nothing
  BuildingItems, TechUnitItems, TechBuildingItems

ASSUME CommandsAssumption == Gaps \subseteq Nat /\ \A c \in Commands : c.effective \in BOOLEAN

ASSUME PriceAssumption == \A i \in DOMAIN Price : Price[i] \in Nat \X Nat

VARIABLE commands   \* the recording, in the order of its frames

ChartsInit == commands = <<>>

LastFrame == IF commands = <<>> THEN 0 ELSE Last(commands).frame

RecordCommand ==
  /\ Len(commands) < MaxCommands
  /\ \E c \in Commands, g \in Gaps :
        commands' = Append(commands, [pid |-> c.pid, frame |-> LastFrame + g, type |-> c.type,
                                      item |-> c.item, effective |-> c.effective])

ChartsNext == RecordCommand

ChartsSpec == ChartsInit /\ [][ChartsNext]_commands

-----------------------------------------------------------------------------
(* The two build orders of a player; the charts take the compressed ones    *)
(* unless the stored detail has none.                                       *)

RawOrders == extractBuildOrders(commands)

CountOf(e) == IF e.count > 0 THEN e.count ELSE 1

Window(e) == e.frame \div windowFrames

Add(f, k, n) == [x \in DOMAIN f \cup {k} |-> (IF x \in DOMAIN f THEN f[x] ELSE 0)
                                                + (IF x = k THEN n ELSE 0)]
Nothing == [x \in {} |-> 0]

-----------------------------------------------------------------------------
(* Units produced. *)

isLikelyBuildingName(item) == item \in BuildingItems

isTechUnit(item) == item \in TechUnitItems

classifyProductionEvent(e, mode) ==
  /\ e.type \in {"train", "unit_morph", "building_morph"}
  /\ mode = "v2_effective_only" => e.effective
  /\ ~isLikelyBuildingName(e.item)

\* Mutant: the timeline counts events, the sums count units.
WindowGainOfOne(e) == 1

\* What an event adds to the window it falls in.
WindowGain(e) == CountOf(e)

buildUnitProduction(events, mode) ==
  LET Count(sum, e) ==
        IF ~classifyProductionEvent(e, mode) THEN sum
        ELSE [total    |-> sum.total + CountOf(e),
              worker   |-> sum.worker + (IF isWorkerUnit(e.item) THEN CountOf(e) ELSE 0),
              tech     |-> sum.tech + (IF ~isWorkerUnit(e.item) /\ isTechUnit(e.item) THEN CountOf(e) ELSE 0),
              army     |-> sum.army + (IF isWorkerUnit(e.item) \/ isTechUnit(e.item) THEN 0 ELSE CountOf(e)),
              byUnit   |-> Add(sum.byUnit, e.item, CountOf(e)),
              timeline |-> Add(sum.timeline, Window(e), WindowGain(e))]
  IN  FoldLeft(Count, [total |-> 0, worker |-> 0, tech |-> 0, army |-> 0,
                       byUnit |-> Nothing, timeline |-> Nothing], events)

\* Points from the first window to the last with a unit.
Points(timeline) ==
  LET last == CHOOSE w \in DOMAIN timeline : \A v \in DOMAIN timeline : v <= w
  IN  IF timeline = Nothing THEN <<>>
      ELSE [w \in 0 .. last |-> IF w \in DOMAIN timeline THEN timeline[w] ELSE 0]

-----------------------------------------------------------------------------
(* Resources spent. *)

costOf(item) == IF item \in DOMAIN Price THEN Price[item] ELSE <<0, 0>>

\* A cancel costs nothing; it has no category.
classifySpendEvent(e) ==
  CASE e.type \in {"build", "building_morph", "land"} -> "build"
    [] e.type \in {"train", "unit_morph"} -> "production"
    [] e.type \in {"tech", "upgrade"} -> e.type
    [] OTHER -> ""

Categories == {"build", "production", "tech", "upgrade"}

\* How many times the price of an event is charged.
Charge(e) == CountOf(e)

Spent(e) == (costOf(e.item)[1] + costOf(e.item)[2]) * Charge(e)

buildResourceSpend(events) ==
  LET Spend(sum, e) ==
        IF classifySpendEvent(e) = "" THEN sum
        ELSE [mineral    |-> sum.mineral + costOf(e.item)[1] * Charge(e),
              gas        |-> sum.gas + costOf(e.item)[2] * Charge(e),
              unknown    |-> sum.unknown + (IF costOf(e.item) = <<0, 0>> THEN 1 ELSE 0),
              byCategory |-> Add(sum.byCategory, classifySpendEvent(e), Spent(e)),
              timeline   |-> Add(sum.timeline, Window(e), Spent(e))]
  IN  FoldLeft(Spend, [mineral |-> 0, gas |-> 0, unknown |-> 0,
                       byCategory |-> [c \in Categories |-> 0], timeline |-> Nothing], events)

-----------------------------------------------------------------------------
(* Technology. *)

isLikelyTechBuilding(item) == item \in TechBuildingItems

classifyTechTreeEvent(e) ==
  CASE e.type \in {"tech", "upgrade"} -> e.type
    [] isLikelyTechBuilding(e.item) -> "prereq_building"
    [] e.type \in {"cancel_tech", "cancel_upgrade"} -> "cancel"
    [] OTHER -> ""

\* A cancel is canceled, whether or not the command was effective.
TechStatus(e) ==
  IF classifyTechTreeEvent(e) = "cancel" THEN "canceled"
  ELSE IF e.effective THEN "started" ELSE "inefficient"

buildTechTree(events) ==
  LET Note(sum, e) ==
        LET kind == classifyTechTreeEvent(e) IN
        IF kind = "" THEN sum
        ELSE [counts |-> [sum.counts EXCEPT ![kind] = @ + CountOf(e)],
              ineff  |-> sum.ineff + (IF TechStatus(e) = "inefficient" THEN CountOf(e) ELSE 0)]
  IN  FoldLeft(Note, [counts |-> [k \in {"tech", "upgrade", "prereq_building", "cancel"} |-> 0],
                      ineff |-> 0], events)

-----------------------------------------------------------------------------
(* Properties. *)

\* The elements of s at the indexes in S, in their order.
Only(s, S) ==
  LET at == [k \in 1 .. Cardinality(S) |-> CHOOSE i \in S : Cardinality({j \in S : j <= i}) = k]
  IN  [k \in DOMAIN at |-> s[at[k]]]

\* Burst removal as a set: an event is kept unless a kept one of its kind is at most a
\* window before it.  (dedupShortBurstEvents remembers the last frame of each kind.)
BurstReference(events) ==
  LET Later(i) == {j \in 1 .. i - 1 : SameCommand(events[j], events[i])
                     /\ events[i].frame - events[j].frame <= dedupWindow(events[i].type)}
      kept[i \in DOMAIN events] ==
        isCancelEventType(events[i].type) \/ \A j \in Later(i) : ~kept[j]
  IN  Only(events, {i \in DOMAIN events : kept[i]})

BurstsMatchReference ==
  LET raw == RawOrders IN
  \A p \in DOMAIN raw :
     LET effective == filterEffectiveEvents(raw[p])
     IN  dedupShortBurstEvents(effective) = BurstReference(effective)

\* "Does the cancel logic remove too much?" (REPLAY_EVENT_ANALYSIS_FRAMEWORK.md, checklist.)
\* There is a matching of cancels to what they take back: each cancel takes at most one
\* event, never a later one, one that another cancel took, of another category or older
\* than 48 frames, and it takes the latest it may; all other events stay, in their order.
CancelsMatchReference ==
  LET raw == RawOrders IN
  \A p \in DOMAIN raw :
     LET events == Deduped(raw[p])
         cancels == {c \in DOMAIN events : isCancelEventType(events[c].type)}
         May(c) == {i \in 1 .. c - 1 : events[i].type \in Cancels[events[c].type]
                                         /\ events[c].frame - events[i].frame <= matchWindow}
         Free(took, c) == {i \in May(c) : \A d \in cancels : d < c => took[d] # i}
         Latest(took, c) == \/ Free(took, c) = {} /\ took[c] = 0
                            \/ /\ took[c] \in Free(took, c)
                               /\ \A i \in Free(took, c) : i <= took[c]
         Left(took) == {i \in DOMAIN events \ cancels : \A c \in cancels : took[c] # i}
     IN  \E took \in [cancels -> {0} \cup DOMAIN events] :
            /\ \A c \in cancels : Latest(took, c)
            /\ Reconciled(raw[p]) = Only(events, Left(took))

\* Joining worker runs loses and invents no command: the counts add up to the events
\* that were joined, and a run ends within its window after its first worker.
RunsKeepEveryWorker ==
  LET raw == RawOrders IN
  \A p \in DOMAIN raw :
     LET before == Reconciled(raw[p])
         order == aggregateWorkerTrainRuns(before)
     IN  /\ SumFunction([i \in DOMAIN order |-> order[i].count]) = Len(before)
         /\ \A i \in DOMAIN order : order[i].count > 1 =>
              /\ isWorkerUnit(order[i].item)
              /\ order[i].end - order[i].frame \in 1 .. runWindow
              /\ i < Len(order) => order[i].end <= order[i + 1].frame

\* The passes of compressBuildOrders do to every recording what they are named for.
PassesMatchReference == BurstsMatchReference /\ CancelsMatchReference /\ RunsKeepEveryWorker

\* Every command of a player is in one window of the APM timeline, the last one of the
\* recording included.
ApmCountsEveryCommand ==
  LET timeline == buildAPMTimeline(commands, LastFrame) IN
  \A p \in DOMAIN timeline :
     SumFunction(timeline[p]) = Cardinality({i \in DOMAIN commands : commands[i].pid = p})

\* Whatever was recorded, the numbers of a chart agree with each other: classes, units
\* and windows add up to the total, categories and windows to the resources spent, the
\* kinds of technology to the events shown, the APM windows to the commands.
ChartsAddUp ==
  /\ ApmCountsEveryCommand
  /\ LET raw == RawOrders IN
     \A orders \in {raw, compressBuildOrders(raw)} : \A p \in DOMAIN orders :
        LET spend == buildResourceSpend(orders[p])
            tech == buildTechTree(orders[p])
        IN  /\ \A mode \in {"v1_command_based", "v2_effective_only"} :
                 LET units == buildUnitProduction(orders[p], mode) IN
                 /\ units.worker + units.tech + units.army = units.total
                 /\ SumFunction(units.byUnit) = units.total
                 /\ SumFunction(Points(units.timeline)) = units.total
            /\ SumFunction(spend.byCategory) = spend.mineral + spend.gas
            /\ SumFunction(Points(spend.timeline)) = spend.mineral + spend.gas
            /\ tech.ineff <= SumFunction(tech.counts)

\* The effective chart is an estimate below the command chart: for no player and no unit
\* does it show more than the player commanded, and it spends no more.
EffectiveNeverAboveCommands ==
  LET raw == RawOrders
      compressed == compressBuildOrders(raw) IN
  \A p \in DOMAIN raw :
     LET v1 == buildUnitProduction(raw[p], "v1_command_based")
         v2 == buildUnitProduction(compressed[p], "v2_effective_only")
         gross == buildResourceSpend(raw[p])
         net == buildResourceSpend(compressed[p])
     IN  /\ \A u \in DOMAIN v2.byUnit : u \in DOMAIN v1.byUnit /\ v2.byUnit[u] <= v1.byUnit[u]
         /\ net.mineral <= gross.mineral /\ net.gas <= gross.gas

=============================================================================
