--------------------------- MODULE ComponentProofs ---------------------------
(***************************************************************************)
(* Proofs about SeasonMeta, for every set of games, players, requests,     *)
(* labels and CSV rows; about UploadPool, for any number of files and      *)
(* goroutines: the types, who has which file, the slots, the answer, and   *)
(* the sequential loop it implements; and about MCComponents, which has    *)
(* both side by side with the charts, the statistics, the import, the      *)
(* tables and the connector: what each component's own specification       *)
(* promises holds of all of them together.                                 *)
(***************************************************************************)
EXTENDS MCComponents, ClientProofs, FiniteSetTheorems, TLAPS

-----------------------------------------------------------------------------
(* The seasons. *)

Inv == SeasonTypeOK /\ SeasonInv

(***************************************************************************)
(* Labels and numbers.                                                     *)
(***************************************************************************)

LEMMA InferredType ==
  ASSUME NEW l \in Labels
  PROVE  inferSeasonNo(l) \in Int \cup {None}
BY SeasonAssumption DEF inferSeasonNo

LEMMA AskFacts ==
  ASSUME NEW a \in Asks
  PROVE  WithNumber(a) \in Meta /\ (HonestAsks => Fits(WithNumber(a)))
<1>1. a \in [label: Labels, no: Int \cup {None}] /\ DigitsOf[a.label] \in Nat /\ None \notin Int
  BY SeasonAssumption
<1>2. WithNumber(a).label = a.label
      /\ WithNumber(a).no = IF a.no = None THEN inferSeasonNo(a.label) ELSE a.no
  BY <1>1 DEF WithNumber
<1>3. WithNumber(a) \in Meta
  BY <1>1, InferredType DEF WithNumber, Meta
<1>4. HonestAsks => Fits(WithNumber(a))
  BY <1>1, <1>2 DEF HonestAsks, Fits, inferSeasonNo
<1>5. QED
  BY <1>3, <1>4

LEMMA NoSeasonFacts == NoSeason \in Meta /\ Fits(NoSeason)
BY DEF NoSeason, Meta, Fits

\* The default season an upload reads has the number of its label.
LEMMA DefaultFacts ==
  ASSUME SeasonTypeOK
  PROVE  /\ getCurrentSeason \in Meta
         /\ (HonestAsks /\ SeasonsFit) => Fits(getCurrentSeason)
<1>1. CASE currentSeason = None
  BY <1>1, NoSeasonFacts DEF getCurrentSeason
<1>2. CASE currentSeason # None
  <2>1. currentSeason \in [label: Labels, no: Int \cup {None}] /\ currentSeason \in Meta
    BY <1>2 DEF SeasonTypeOK, Meta
  <2>2. inferSeasonNo(currentSeason.label) \in Int \cup {None}
    BY <2>1, InferredType
  <2>3. CASE currentSeason.no # None /\ currentSeason.no > 0
    BY <1>2, <2>1, <2>3 DEF getCurrentSeason, SeasonsFit
  <2>4. CASE ~(currentSeason.no # None /\ currentSeason.no > 0)
    <3>1. getCurrentSeason = [currentSeason EXCEPT !.no = inferSeasonNo(currentSeason.label)]
      BY <1>2, <2>4 DEF getCurrentSeason
    <3>2. getCurrentSeason \in Meta
      BY <2>1, <2>2, <3>1 DEF Meta
    <3>3. Fits(getCurrentSeason)
      BY <2>1, <3>1, SeasonAssumption DEF Fits, inferSeasonNo
    <3>4. QED
      BY <3>2, <3>3
  <2>5. QED
    BY <2>3, <2>4
<1>3. QED
  BY <1>1, <1>2

(***************************************************************************)
(* What a step does to the requests.                                       *)
(***************************************************************************)

RequestTypes ==
  /\ phase \in [Handlers -> SeasonPhases]
  /\ asked \in [Handlers -> Meta]
  /\ \A h \in Handlers : phase[h] \in {"find", "store"} => asked[h].label \in Labels
  /\ target \in [Handlers -> GameIds \cup {None}]
  /\ filesLeft \in [Handlers -> Nat]
  /\ rowFound \in [Handlers -> BOOLEAN]

\* Only request h is touched; its season fits when the others do.
OthersWait(h) ==
  \A i \in Handlers \ {h} :
     phase'[i] = phase[i] /\ asked'[i] = asked[i] /\ target'[i] = target[i]

AskedFit == HonestAsks => \A h \in Handlers : Fits(asked[h])

LEMMA FileEnds ==
  ASSUME SeasonTypeOK, NEW h \in Handlers, NextFile(h) \/ Finish(h)
  PROVE  /\ RequestTypes' /\ OthersWait(h)
         /\ phase'[h] \in {"free", "file"}
         /\ AskedFit => AskedFit'
<1>1. RequestTypes
  BY DEF SeasonTypeOK, RequestTypes
<1>2. CASE Finish(h)
  <2>1. RequestTypes'
    BY <1>1, <1>2, NoSeasonFacts DEF Finish, RequestTypes, SeasonPhases
  <2>2. OthersWait(h) /\ phase'[h] \in {"free", "file"}
    BY <1>1, <1>2 DEF Finish, RequestTypes, OthersWait
  <2>3. \A i \in Handlers : asked'[i] = asked[i] \/ asked'[i] = NoSeason
    BY <1>1, <1>2 DEF Finish, RequestTypes
  <2>4. QED
    BY <2>1, <2>2, <2>3, NoSeasonFacts DEF AskedFit
<1>3. CASE NextFile(h) /\ filesLeft[h] > 1
  <2>1. RequestTypes'
    BY <1>1, <1>3 DEF NextFile, RequestTypes, SeasonPhases
  <2>2. OthersWait(h) /\ phase'[h] \in {"free", "file"} /\ asked' = asked
    BY <1>1, <1>3 DEF NextFile, RequestTypes, OthersWait
  <2>3. QED
    BY <2>1, <2>2 DEF AskedFit
<1>4. NextFile(h) /\ ~(filesLeft[h] > 1) => Finish(h)
  BY DEF NextFile
<1>5. QED
  BY <1>2, <1>3, <1>4

(***************************************************************************)
(* Requests that write no game: the invariant is not disturbed.            *)
(***************************************************************************)

LEMMA QuietStep ==
  ASSUME Inv, SeasonTypeOK', SeasonsFit', NEW h \in Handlers, OthersWait(h),
         phase[h] # "players", phase'[h] # "players",
         UNCHANGED <<liveGames, usedIds, seasonOf, randomSelected, backfillData,
                     agreed, inAgreement, touched>>
  PROVE  Inv'
<1>1. SelectionFollowsNumber' /\ BackfillTakesEffect' /\ PlanKnown'
  BY DEF Inv, SeasonInv, SelectionFollowsNumber, BackfillTakesEffect, PlanKnown, backfillData
<1>2. \A i \in Handlers : phase'[i] = "players" =>
         i # h /\ phase[i] = "players" /\ asked'[i] = asked[i] /\ target'[i] = target[i]
  BY DEF OthersWait
<1>3. \A i \in inAgreement : i \in Handlers /\ i # h /\ phase'[i] = phase[i]
                             /\ asked'[i] = asked[i] /\ target'[i] = target[i]
  BY DEF OthersWait, Inv, SeasonInv, PendingAgree, SeasonTypeOK
<1>4. PendingAgree'
  BY <1>2, <1>3 DEF Inv, SeasonInv, PendingAgree
<1>5. QED
  BY <1>1, <1>4 DEF Inv, SeasonInv

LEMMA RequestArrives ==
  ASSUME Inv, NEW h \in Handlers, NEW p \in SeasonPhases, NEW a \in Meta,
         NEW g \in GameIds \cup {None}, NEW n \in Nat, Accept(h, p, a, g, n),
         p # "players", p \in {"find", "store"} => a.label \in Labels,
         HonestAsks => Fits(a)
  PROVE  Inv'
<1>1. received' \in 0 .. MaxSeasonRequests
  BY SeasonAssumption DEF Accept, Inv, SeasonTypeOK
<1>2. SeasonTypeOK'
  BY <1>1 DEF Accept, Inv, SeasonTypeOK, seasonData, backfillData
<1>3. SeasonsFit'
  BY DEF Accept, Inv, SeasonTypeOK, SeasonInv, SeasonsFit, seasonData
<1>4. OthersWait(h) /\ phase[h] # "players" /\ phase'[h] # "players"
  BY DEF Accept, OthersWait, Inv, SeasonTypeOK
<1>5. QED
  BY <1>2, <1>3, <1>4, QuietStep DEF Accept, seasonData, backfillData

LEMMA AskSteps ==
  ASSUME Inv, NEW h \in Handlers,
         AskCurrentSeason(h) \/ AskGameSeason(h) \/ AskUpload(h)
  PROVE  Inv'
<1>1. \A a \in Asks : /\ WithNumber(a) \in Meta /\ (HonestAsks => Fits(WithNumber(a)))
                      /\ WithNumber(a).label \in Labels
  BY AskFacts, SeasonAssumption DEF WithNumber
<1>2. {"find", "edit", "options", "file"} \subseteq SeasonPhases /\ 0 \in Nat
      /\ "players" \notin {"find", "edit", "options", "file"}
      /\ 1 .. MaxSeasonRequests \subseteq Nat
  BY SeasonAssumption DEF SeasonPhases
<1>3. CASE AskCurrentSeason(h)
  BY <1>1, <1>2, <1>3, RequestArrives DEF AskCurrentSeason
<1>4. CASE AskGameSeason(h)
  BY <1>1, <1>2, <1>4, RequestArrives DEF AskGameSeason
<1>5. CASE AskUpload(h)
  <2>1. PICK n \in 1 .. MaxSeasonRequests :
          \/ Accept(h, "options", NoSeason, None, n)
          \/ \E a \in Asks : Accept(h, "file", WithNumber(a), None, n)
    BY <1>5 DEF AskUpload
  <2>2. n \in Nat
    BY <1>2
  <2>3. CASE Accept(h, "options", NoSeason, None, n)
    BY <1>2, <2>2, <2>3, NoSeasonFacts, RequestArrives
  <2>4. CASE \E a \in Asks : Accept(h, "file", WithNumber(a), None, n)
    BY <1>1, <1>2, <2>2, <2>4, RequestArrives
  <2>5. QED
    BY <2>1, <2>3, <2>4
<1>6. QED
  BY <1>3, <1>4, <1>5

LEMMA SettingSteps ==
  ASSUME Inv, NEW h \in Handlers, FindSetting(h) \/ StoreSetting(h) \/ ReadOptions(h)
  PROVE  Inv'
<1>1. CASE FindSetting(h)
  <2>1. SeasonTypeOK' /\ SeasonsFit'
    BY <1>1 DEF FindSetting, Inv, SeasonTypeOK, SeasonPhases, SeasonInv, SeasonsFit,
                seasonData, backfillData
  <2>2. OthersWait(h) /\ phase[h] # "players" /\ phase'[h] # "players"
    BY <1>1 DEF FindSetting, OthersWait, Inv, SeasonTypeOK
  <2>3. QED
    BY <1>1, <2>1, <2>2, QuietStep DEF FindSetting, seasonData
<1>2. CASE StoreSetting(h)
  <2>1. /\ RequestTypes' /\ OthersWait(h) /\ phase'[h] # "players"
        /\ AskedFit => AskedFit'
    BY <1>2, FileEnds DEF StoreSetting, Inv
  <2>2. currentSeason' \in [label: Labels, no: Int \cup {None}] \cup {None}
    BY <1>2 DEF StoreSetting, Inv, SeasonTypeOK, Meta
  <2>3. SeasonTypeOK'
    BY <1>2, <2>1, <2>2 DEF StoreSetting, Inv, SeasonTypeOK, RequestTypes, backfillData
  <2>4. SeasonsFit'
    BY <1>2, <2>1 DEF StoreSetting, Inv, SeasonInv, SeasonsFit, AskedFit
  <2>5. QED
    BY <1>2, <2>1, <2>3, <2>4, QuietStep DEF StoreSetting
<1>3. CASE ReadOptions(h)
  <2>1. getCurrentSeason \in Meta /\ (HonestAsks => Fits(getCurrentSeason))
    BY DefaultFacts DEF Inv, SeasonInv
  <2>2. SeasonTypeOK'
    BY <1>3, <2>1 DEF ReadOptions, Inv, SeasonTypeOK, SeasonPhases, seasonData, backfillData
  <2>3. SeasonsFit'
    BY <1>3, <2>1 DEF ReadOptions, Inv, SeasonTypeOK, SeasonInv, SeasonsFit, seasonData
  <2>4. OthersWait(h) /\ phase[h] # "players" /\ phase'[h] # "players"
    BY <1>3 DEF ReadOptions, OthersWait, Inv, SeasonTypeOK
  <2>5. QED
    BY <1>3, <2>2, <2>3, <2>4, QuietStep DEF ReadOptions, seasonData
<1>4. QED
  BY <1>1, <1>2, <1>3

LEMMA FileSteps ==
  ASSUME Inv, NEW h \in Handlers, FindGame(h) \/ RefuseFile(h)
  PROVE  Inv'
<1>1. UNCHANGED <<seasonData, backfillData, received, seasonFaults, agreed, inAgreement, touched>>
      /\ phase[h] = "file"
  BY DEF FindGame, RefuseFile
<1>2. /\ RequestTypes' /\ OthersWait(h) /\ phase'[h] # "players"
      /\ AskedFit => AskedFit'
  <2>1. CASE NextFile(h)
    BY <2>1, FileEnds DEF Inv
  <2>2. CASE \E g \in liveGames : /\ phase' = [phase EXCEPT ![h] = "game"]
                                  /\ target' = [target EXCEPT ![h] = g]
                                  /\ UNCHANGED <<asked, filesLeft, rowFound>>
    BY <2>2 DEF Inv, SeasonTypeOK, SeasonPhases, RequestTypes, OthersWait, AskedFit
  <2>3. QED
    BY <2>1, <2>2 DEF FindGame, RefuseFile
<1>3. SeasonTypeOK' /\ SeasonsFit'
  BY <1>1, <1>2 DEF Inv, SeasonTypeOK, RequestTypes, AskedFit, SeasonInv, SeasonsFit,
                    seasonData, backfillData
<1>4. QED
  BY <1>1, <1>2, <1>3, QuietStep DEF seasonData

(***************************************************************************)
(* Writers of games and players.                                           *)
(***************************************************************************)

LEMMA CreateStep ==
  ASSUME Inv, NEW h \in Handlers, CreateGame(h)
  PROVE  Inv'
<1>1. PICK g \in GameIds \ usedIds :
        /\ liveGames' = liveGames \cup {g}
        /\ usedIds' = usedIds \cup {g}
        /\ seasonOf' = [seasonOf EXCEPT ![g] = asked[h]]
        /\ randomSelected' =
             [randomSelected EXCEPT ![g] = [s \in Seats |-> isRandomSelectedSeason(asked[h].no)]]
  BY DEF CreateGame
<1>2. /\ phase[h] = "file"
      /\ UNCHANGED <<currentSeason, backfillData, received, seasonFaults, agreed, inAgreement,
                     touched>>
  BY DEF CreateGame
<1>3. /\ RequestTypes' /\ OthersWait(h) /\ phase'[h] \in {"free", "file"}
      /\ AskedFit => AskedFit'
  BY FileEnds DEF CreateGame, Inv
<1>4. SeasonTypeOK'
  BY <1>1, <1>2, <1>3 DEF Inv, SeasonTypeOK, RequestTypes, isRandomSelectedSeason, backfillData
<1>5. SeasonsFit'
  BY <1>1, <1>2, <1>3 DEF Inv, SeasonTypeOK, SeasonInv, SeasonsFit, AskedFit
<1>6. SelectionFollowsNumber'
  BY <1>1, <1>2 DEF Inv, SeasonTypeOK, SeasonInv, SelectionFollowsNumber
<1>7. PendingAgree'
  <2>1. \A i \in Handlers : phase'[i] = "players" =>
           i # h /\ phase[i] = "players" /\ asked'[i] = asked[i] /\ target'[i] = target[i]
           /\ target[i] \in usedIds /\ target[i] \in usedIds' /\ target[i] # g
           /\ seasonOf'[target[i]] = seasonOf[target[i]]
    BY <1>1, <1>3 DEF OthersWait, Inv, SeasonTypeOK, SeasonInv, PendingAgree
  <2>2. \A i \in inAgreement : i \in Handlers /\ phase[i] = "players" /\ phase'[i] = "players"
    BY <1>2, <1>3 DEF OthersWait, Inv, SeasonInv, PendingAgree, SeasonTypeOK
  <2>3. QED
    BY <1>2, <2>1, <2>2 DEF Inv, SeasonInv, PendingAgree
<1>8. BackfillTakesEffect' /\ PlanKnown'
  BY <1>1, <1>2 DEF Inv, SeasonTypeOK, SeasonInv, BackfillTakesEffect, PlanKnown, backfillData
<1>9. QED
  BY <1>4, <1>5, <1>6, <1>7, <1>8 DEF Inv, SeasonInv

\* The first statement of a season write.
LEMMA StampStep ==
  ASSUME Inv, NEW h \in Handlers, phase[h] # "players",
         NEW g \in liveGames, target[h] = g,
         StampGame(h, g), UNCHANGED <<backfillData, received, seasonFaults>>,
         RequestTypes', OthersWait(h), AskedFit => AskedFit',
         asked[h].no = None => phase'[h] # "players",
         asked[h].no # None => phase'[h] = "players" /\ asked'[h] = asked[h] /\ target'[h] = g
  PROVE  Inv'
<1> DEFINE no == asked[h].no
<1>1. /\ seasonOf' = [seasonOf EXCEPT ![g] = Stamped(seasonOf[g], asked[h])]
      /\ UNCHANGED <<currentSeason, liveGames, usedIds, randomSelected>>
      /\ g \in GameIds /\ g \in usedIds
  BY DEF StampGame, Inv, SeasonTypeOK
<1>2. /\ Stamped(seasonOf[g], asked[h]) \in Meta
      /\ Stamped(seasonOf[g], asked[h]).label = asked[h].label
      /\ Stamped(seasonOf[g], asked[h]).no = IF no = None THEN seasonOf[g].no ELSE no
  BY <1>1 DEF Stamped, Meta, Inv, SeasonTypeOK
<1>3. /\ seasonOf' \in [GameIds -> Meta]
      /\ seasonOf'[g].no = IF no = None THEN seasonOf[g].no ELSE no
      /\ \A x \in GameIds \ {g} : seasonOf'[x] = seasonOf[x]
  BY <1>1, <1>2 DEF Inv, SeasonTypeOK
<1>4. SeasonTypeOK'
  BY <1>1, <1>3 DEF StampGame, Contradicting, Inv, SeasonTypeOK, RequestTypes, backfillData
<1>5. SeasonsFit'
  <2>1. HonestAsks => Fits(seasonOf'[g])
    <3>1. HonestAsks => Fits(asked[h])
      BY DEF Inv, SeasonInv, SeasonsFit
    <3>2. asked[h].label # None => asked[h].label \in Labels
      BY DEF Inv, SeasonTypeOK, Meta
    <3>3. None \notin Int /\ DigitsOf \in [Labels -> Nat]
      BY SeasonAssumption
    <3>4. QED
      BY <1>1, <1>2, <3>1, <3>2, <3>3 DEF Fits, Inv, SeasonTypeOK
  <2>2. QED
    BY <1>1, <1>3, <2>1 DEF Inv, SeasonInv, SeasonsFit, AskedFit
<1>6. CASE no = None
  <2>1. UNCHANGED <<agreed, inAgreement, touched>>
        /\ \A x \in GameIds : seasonOf'[x].no = seasonOf[x].no
    BY <1>3, <1>6 DEF StampGame
  <2>2. SelectionFollowsNumber'
    BY <1>1, <2>1 DEF Inv, SeasonTypeOK, SeasonInv, SelectionFollowsNumber
  <2>3. BackfillTakesEffect' /\ PlanKnown'
    BY <1>1, <2>1 DEF Inv, SeasonInv, BackfillTakesEffect, PlanKnown, backfillData
  <2>4. \A i \in Handlers : phase'[i] = "players" =>
           i # h /\ phase[i] = "players" /\ asked'[i] = asked[i] /\ target'[i] = target[i]
           /\ target[i] \in usedIds /\ target[i] \in GameIds
    BY <1>6 DEF OthersWait, Inv, SeasonTypeOK, SeasonInv, PendingAgree
  <2>5. \A i \in inAgreement : i \in Handlers /\ phase[i] = "players" /\ phase'[i] = "players"
    BY DEF OthersWait, Inv, SeasonInv, PendingAgree, SeasonTypeOK
  <2>6. PendingAgree'
    BY <1>1, <2>1, <2>4, <2>5 DEF Inv, SeasonInv, PendingAgree
  <2>7. QED
    BY <1>4, <1>5, <2>2, <2>3, <2>6 DEF Inv, SeasonInv
<1>7. CASE no # None
  <2>1. /\ touched' = touched \cup {g}
        /\ agreed' = IF seasonOf[g].no = no THEN agreed ELSE agreed \ {g}
        /\ inAgreement' = (inAgreement \ Contradicting(h, g, no))
                             \cup (IF Contradicting(h, g, no) = {} THEN {h} ELSE {})
    BY <1>7 DEF StampGame
  <2>2. SelectionFollowsNumber'
    BY <1>1, <1>3, <1>7, <2>1 DEF Inv, SeasonTypeOK, SeasonInv, SelectionFollowsNumber
  <2>3. BackfillTakesEffect' /\ PlanKnown'
    BY <1>1, <2>1 DEF Inv, SeasonInv, BackfillTakesEffect, PlanKnown, backfillData
  <2>4. \A i \in Handlers : phase'[i] = "players" =>
           \/ i = h
           \/ /\ phase[i] = "players" /\ asked'[i] = asked[i] /\ target'[i] = target[i]
              /\ target[i] \in usedIds /\ target[i] \in GameIds
    BY DEF OthersWait, Inv, SeasonTypeOK, SeasonInv, PendingAgree
  <2>5. ASSUME NEW i \in Handlers, phase'[i] = "players"
        PROVE  /\ asked'[i].no # None /\ target'[i] \in usedIds'
               /\ target'[i] \in agreed' => asked'[i].no = seasonOf'[target'[i]].no
    <3>1. CASE i = h
      BY <1>1, <1>3, <1>7, <3>1
    <3>2. CASE i # h /\ target[i] # g
      BY <1>1, <1>3, <2>1, <2>4, <2>5, <3>2 DEF Inv, SeasonInv, PendingAgree
    <3>3. CASE i # h /\ target[i] = g
      <4>1. g \in agreed' => seasonOf[g].no = no /\ g \in agreed
        BY <2>1
      <4>2. QED
        BY <1>1, <1>3, <1>7, <2>4, <2>5, <3>3, <4>1 DEF Inv, SeasonInv, PendingAgree
    <3>4. QED
      BY <3>1, <3>2, <3>3
  <2>6. ASSUME NEW i \in inAgreement', NEW k \in Handlers
        PROVE  /\ i \in Handlers /\ phase'[i] = "players"
               /\ seasonOf'[target'[i]].no = asked'[i].no
               /\ phase'[k] = "players" /\ target'[k] = target'[i] => asked'[k].no = asked'[i].no
    <3>1. CASE i = h
      <4>1. Contradicting(h, g, no) = {}
        BY <2>1, <2>6, <3>1 DEF Inv, SeasonInv, PendingAgree
      <4>2. k # h /\ phase[k] = "players" /\ target[k] = g => asked[k].no = no
        BY <4>1 DEF Contradicting
      <4>3. QED
        BY <1>1, <1>3, <1>7, <2>4, <3>1, <4>2
    <3>2. CASE i # h
      <4>1. i \in inAgreement /\ i \notin Contradicting(h, g, no)
        BY <2>1, <2>6, <3>2
      <4>2. /\ i \in Handlers /\ phase[i] = "players" /\ phase'[i] = "players"
            /\ asked'[i] = asked[i] /\ target'[i] = target[i] /\ target[i] \in GameIds
            /\ seasonOf[target[i]].no = asked[i].no
        BY <3>2, <4>1 DEF OthersWait, Inv, SeasonTypeOK, SeasonInv, PendingAgree
      <4>3. target[i] = g => asked[i].no = no
        BY <3>2, <4>1, <4>2 DEF Contradicting
      <4>4. seasonOf'[target'[i]].no = asked'[i].no
        BY <1>3, <1>7, <4>2, <4>3
      <4>5. phase'[k] = "players" /\ target'[k] = target'[i] => asked'[k].no = asked'[i].no
        <5>1. CASE k = h
          BY <1>7, <4>2, <4>3, <5>1
        <5>2. CASE k # h
          BY <2>4, <4>1, <4>2, <5>2 DEF Inv, SeasonInv, PendingAgree
        <5>3. QED
          BY <5>1, <5>2
      <4>6. QED
        BY <4>2, <4>4, <4>5
    <3>3. QED
      BY <3>1, <3>2
  <2>7. PendingAgree'
    BY <2>5, <2>6 DEF PendingAgree
  <2>8. QED
    BY <1>4, <1>5, <2>2, <2>3, <2>7 DEF Inv, SeasonInv
<1>8. QED
  BY <1>6, <1>7

\* The target does not exist any more: nothing is written.
LEMMA MissStep ==
  ASSUME Inv, NEW h \in Handlers, phase[h] # "players", NextFile(h) \/ Finish(h),
         UNCHANGED <<seasonData, backfillData, received, seasonFaults, agreed, inAgreement,
                     touched>>
  PROVE  Inv'
<1>1. /\ RequestTypes' /\ OthersWait(h) /\ phase'[h] # "players"
      /\ AskedFit => AskedFit'
  BY FileEnds DEF Inv
<1>2. SeasonTypeOK' /\ SeasonsFit'
  BY <1>1 DEF Inv, SeasonTypeOK, RequestTypes, AskedFit, SeasonInv, SeasonsFit,
              seasonData, backfillData
<1>3. QED
  BY <1>1, <1>2, QuietStep DEF seasonData

LEMMA SeasonWriteSteps ==
  ASSUME Inv, NEW h \in Handlers, ApplySeason(h) \/ EditSeason(h)
  PROVE  Inv'
<1>1. phase[h] \in {"game", "edit"} /\ UNCHANGED <<backfillData, received, seasonFaults>>
  BY DEF ApplySeason, EditSeason
<1>2. CASE target[h] \notin liveGames
  BY <1>1, <1>2, MissStep DEF ApplySeason, EditSeason
<1>3. CASE target[h] \in liveGames
  <2>1. StampGame(h, target[h])
    BY <1>3 DEF ApplySeason, EditSeason
  <2>2. CASE asked[h].no = None
    <3>1. NextFile(h) \/ Finish(h)
      BY <1>3, <2>2 DEF ApplySeason, EditSeason
    <3>2. /\ RequestTypes' /\ OthersWait(h) /\ phase'[h] # "players"
          /\ AskedFit => AskedFit'
      BY <3>1, FileEnds DEF Inv
    <3>3. QED
      BY <1>1, <1>3, <2>1, <2>2, <3>2, StampStep
  <2>3. CASE asked[h].no # None
    <3>1. phase' = [phase EXCEPT ![h] = "players"] /\ UNCHANGED <<asked, target, filesLeft, rowFound>>
      BY <1>3, <2>3 DEF ApplySeason, EditSeason
    <3>2. /\ RequestTypes' /\ OthersWait(h) /\ (AskedFit => AskedFit')
          /\ phase'[h] = "players" /\ asked'[h] = asked[h] /\ target'[h] = target[h]
      BY <3>1 DEF Inv, SeasonTypeOK, SeasonPhases, RequestTypes, OthersWait, AskedFit
    <3>3. QED
      BY <1>1, <1>3, <2>1, <2>3, <3>1, <3>2, StampStep
  <2>4. QED
    BY <2>2, <2>3
<1>4. QED
  BY <1>2, <1>3

\* The second statement of a season write.
LEMMA PlayersStep ==
  ASSUME Inv, NEW h \in Handlers, WritePlayers(h)
  PROVE  Inv'
<1> DEFINE g == target[h]
           no == asked[h].no
<1>1. /\ phase[h] = "players" /\ no # None /\ g \in usedIds /\ g \in GameIds
      /\ h \notin inAgreement' /\ inAgreement' = inAgreement \ {h}
      /\ touched' = touched \cup {g}
      /\ agreed' = IF h \in inAgreement THEN agreed \cup {g} ELSE agreed
      /\ UNCHANGED <<currentSeason, liveGames, usedIds, seasonOf, backfillData, received,
                     seasonFaults>>
  BY DEF WritePlayers, Inv, SeasonInv, PendingAgree, SeasonTypeOK
<1>2. /\ RequestTypes' /\ OthersWait(h) /\ phase'[h] \in {"free", "file"}
      /\ AskedFit => AskedFit'
  BY FileEnds DEF WritePlayers, Inv
<1>3. /\ randomSelected' \in [GameIds -> [Seats -> BOOLEAN]]
      /\ \A x \in GameIds \ {g} : randomSelected'[x] = randomSelected[x]
      /\ g \in liveGames => \A s \in Seats : randomSelected'[g][s] = isRandomSelectedSeason(no)
  BY <1>1 DEF WritePlayers, SelectedFor, isRandomSelectedSeason, Inv, SeasonTypeOK
<1>4. SeasonTypeOK'
  BY <1>1, <1>2, <1>3 DEF Inv, SeasonTypeOK, RequestTypes, backfillData
<1>5. SeasonsFit'
  BY <1>1, <1>2 DEF Inv, SeasonInv, SeasonsFit, AskedFit
<1>6. g \in agreed' => seasonOf[g].no = no
  BY <1>1 DEF Inv, SeasonInv, PendingAgree
<1>7. SelectionFollowsNumber'
  <2>1. ASSUME NEW x \in liveGames \cap agreed', seasonOf[x].no # None, NEW s \in Seats
        PROVE  randomSelected'[x][s] = isRandomSelectedSeason(seasonOf[x].no)
    <3>1. CASE x = g
      BY <1>3, <1>6, <2>1, <3>1
    <3>2. CASE x # g
      BY <1>1, <1>3, <2>1, <3>2 DEF Inv, SeasonTypeOK, SeasonInv, SelectionFollowsNumber
    <3>3. QED
      BY <3>1, <3>2
  <2>2. QED
    BY <1>1, <2>1 DEF SelectionFollowsNumber
<1>8. BackfillTakesEffect' /\ PlanKnown'
  BY <1>1, <1>3 DEF Inv, SeasonTypeOK, SeasonInv, BackfillTakesEffect, PlanKnown, backfillData
<1>9. PendingAgree'
  <2>1. \A i \in Handlers : phase'[i] = "players" =>
           i # h /\ phase[i] = "players" /\ asked'[i] = asked[i] /\ target'[i] = target[i]
    BY <1>2 DEF OthersWait
  <2>2. \A i \in inAgreement' : i \in inAgreement /\ i \in Handlers /\ phase'[i] = "players"
    BY <1>1, <1>2 DEF OthersWait, Inv, SeasonInv, PendingAgree, SeasonTypeOK
  <2>3. ASSUME NEW i \in Handlers, phase'[i] = "players", target[i] \in agreed'
        PROVE  asked[i].no = seasonOf[target[i]].no
    <3>1. CASE target[i] \in agreed
      BY <2>1, <2>3, <3>1 DEF Inv, SeasonInv, PendingAgree
    <3>2. CASE target[i] \notin agreed
      <4>1. h \in inAgreement /\ target[i] = g
        BY <1>1, <2>3, <3>2
      <4>2. QED
        BY <2>1, <2>3, <4>1 DEF Inv, SeasonInv, PendingAgree
    <3>3. QED
      BY <3>1, <3>2
  <2>4. QED
    BY <1>1, <2>1, <2>2, <2>3 DEF Inv, SeasonInv, PendingAgree
<1>10. QED
  BY <1>4, <1>5, <1>7, <1>8, <1>9 DEF Inv, SeasonInv

LEMMA RemoveStep ==
  ASSUME Inv, RemoveGame
  PROVE  Inv'
<1>1. /\ liveGames' \subseteq liveGames
      /\ UNCHANGED <<currentSeason, usedIds, seasonOf, randomSelected, requestData, backfillData,
                     received, seasonFaults, agreed, inAgreement, touched>>
  BY DEF RemoveGame
<1>2. SeasonTypeOK'
  BY <1>1 DEF Inv, SeasonTypeOK, requestData, backfillData
<1>3. SeasonInv'
  BY <1>1 DEF Inv, SeasonInv, SeasonsFit, SelectionFollowsNumber, PendingAgree,
              BackfillTakesEffect, PlanKnown, requestData, backfillData
<1>4. QED
  BY <1>2, <1>3 DEF Inv

LEMMA FailStep ==
  ASSUME Inv, NEW h \in Handlers, StatementFails(h)
  PROVE  Inv'
<1>1. /\ inAgreement' = inAgreement \ {h}
      /\ seasonFaults' = seasonFaults + 1 /\ seasonFaults < MaxSeasonFaults
      /\ UNCHANGED <<seasonData, backfillData, received, agreed, touched>>
      /\ NextFile(h) \/ Finish(h)
  BY DEF StatementFails
<1>2. /\ RequestTypes' /\ OthersWait(h) /\ phase'[h] \in {"free", "file"}
      /\ AskedFit => AskedFit'
  BY <1>1, FileEnds DEF Inv
<1>3. seasonFaults' \in 0 .. MaxSeasonFaults
  BY <1>1, SeasonAssumption DEF Inv, SeasonTypeOK
<1>4. SeasonTypeOK' /\ SeasonsFit'
  BY <1>1, <1>2, <1>3 DEF Inv, SeasonTypeOK, RequestTypes, AskedFit, SeasonInv, SeasonsFit,
                          seasonData, backfillData
<1>5. SelectionFollowsNumber' /\ BackfillTakesEffect' /\ PlanKnown'
  BY <1>1 DEF Inv, SeasonInv, SelectionFollowsNumber, BackfillTakesEffect, PlanKnown,
              seasonData, backfillData
<1>6. PendingAgree'
  <2>1. \A i \in Handlers : phase'[i] = "players" =>
           i # h /\ phase[i] = "players" /\ asked'[i] = asked[i] /\ target'[i] = target[i]
    BY <1>2 DEF OthersWait
  <2>2. \A i \in inAgreement' : i \in inAgreement /\ i \in Handlers /\ phase'[i] = "players"
    BY <1>1, <1>2 DEF OthersWait, Inv, SeasonInv, PendingAgree, SeasonTypeOK
  <2>3. QED
    BY <1>1, <2>1, <2>2 DEF Inv, SeasonInv, PendingAgree, seasonData
<1>7. QED
  BY <1>4, <1>5, <1>6 DEF Inv, SeasonInv

(***************************************************************************)
(* The backfill.                                                           *)
(***************************************************************************)

LEMMA BackfillFrame ==
  ASSUME Inv, UNCHANGED <<currentSeason, liveGames, usedIds, seasonOf, requestData, received,
                          seasonFaults, inAgreement>>,
         randomSelected' \in [GameIds -> [Seats -> BOOLEAN]],
         agreed' \subseteq agreed,
         \A g \in agreed' : randomSelected'[g] = randomSelected[g],
         labelsLeft' \subseteq Labels, flagWrites' \subseteq FlagWrite, touched' \subseteq GameIds,
         planned' \in [GameIds -> [Seats -> BOOLEAN] \cup {None}],
         BackfillTakesEffect', PlanKnown'
  PROVE  Inv'
<1>1. SeasonTypeOK'
  BY DEF Inv, SeasonTypeOK, requestData
<1>2. SeasonsFit' /\ SelectionFollowsNumber' /\ PendingAgree'
  BY DEF Inv, SeasonTypeOK, SeasonInv, SeasonsFit, SelectionFollowsNumber, PendingAgree, requestData
<1>3. QED
  BY <1>1, <1>2 DEF Inv, SeasonInv

LEMMA BackfillReads ==
  ASSUME Inv, BackfillRead
  PROVE  Inv'
<1>1. PICK l \in labelsLeft :
        /\ labelsLeft' = labelsLeft \ {l}
        /\ flagWrites' = UNION {WritesFor(g, l) : g \in Matched(l)}
        /\ planned' = [g \in GameIds |-> IF g \in Matched(l) THEN SelectionFor(g, l) ELSE planned[g]]
        /\ touched' = touched \ Matched(l)
  BY DEF BackfillRead
<1>2. /\ flagWrites = {}
      /\ UNCHANGED <<seasonData, requestData, received, seasonFaults, agreed, inAgreement>>
  BY DEF BackfillRead
<1>3. l \in Labels /\ Matched(l) \subseteq liveGames /\ liveGames \subseteq usedIds
      /\ usedIds \subseteq GameIds
  BY DEF Inv, SeasonTypeOK, Matched, GamesOfLabel
<1>4. ASSUME NEW g \in Matched(l)
      PROVE  SelectionFor(g, l) \in [Seats -> BOOLEAN]
  <2>1. CASE ForcedRandom(l)
    BY <2>1 DEF SelectionFor
  <2>2. CASE ~ForcedRandom(l)
    <3>1. /\ CsvRows[l] \in Seq([Seats -> BOOLEAN]) /\ GameIds \subseteq Nat
      BY <1>3, SeasonAssumption
    <3>2. Position(g, l) \in 1 .. Len(CsvRows[l])
      <4>1. Position(g, l) <= Len(CsvRows[l])
        BY <2>2 DEF Matched
      <4>2. Position(g, l) \in Nat /\ Position(g, l) # 0
        PROOF
        <5> DEFINE S == {x \in GamesOfLabel(l) : x <= g}
        <5>1. IsFiniteSet(S)
          <6>0. g \in Nat /\ liveGames \subseteq Nat
            BY <1>3, <3>1
          <6>1. S \subseteq 0 .. g
            <7>1. \A x \in S : x \in Nat /\ x <= g
              BY <6>0 DEF GamesOfLabel
            <7>2. \A x \in S : x \in 0 .. g
              BY <6>0, <7>1
            <7>3. QED
              BY <7>2
          <6>2. IsFiniteSet(0 .. g)
            BY <6>0, FS_Interval
          <6>3. QED
            BY <6>1, <6>2, FS_Subset
        <5>2. g \in S
          <6>1. g \in Nat /\ g \in GamesOfLabel(l)
            BY <1>3, <3>1 DEF Matched
          <6>2. QED
            BY <6>1
        <5>3. Cardinality(S) \in Nat /\ Cardinality(S) # 0
          BY <5>1, <5>2, FS_CardinalityType, FS_EmptySet
        <5>4. QED
          BY <5>3 DEF Position
      <4>3. QED
        BY <3>1, <4>1, <4>2
    <3>3. QED
      BY <2>2, <3>1, <3>2 DEF SelectionFor
  <2>3. QED
    BY <2>1, <2>2
<1>5. planned' \in [GameIds -> [Seats -> BOOLEAN] \cup {None}]
  BY <1>1, <1>4 DEF Inv, SeasonTypeOK
<1>6. \A w \in flagWrites' : w \in FlagWrite /\ w.game \in Matched(l)
                             /\ w.to = SelectionFor(w.game, l)[w.seat]
  BY <1>1 DEF WritesFor
<1>7. PlanKnown'
  <2>1. \A g \in GameIds : planned'[g] # None => g \in usedIds'
    BY <1>1, <1>2, <1>3 DEF Inv, SeasonInv, PlanKnown, seasonData
  <2>2. \A g \in Matched(l) : g \in GameIds /\ planned'[g] = SelectionFor(g, l) /\ planned'[g] # None
    <3>1. None \notin [Seats -> BOOLEAN]
      BY SeasonAssumption
    <3>2. QED
      BY <1>1, <1>3, <1>4, <3>1
  <2>3. QED
    BY <1>6, <2>1, <2>2 DEF PlanKnown
<1>8. BackfillTakesEffect'
  <2>1. ASSUME NEW g \in liveGames \ touched', planned'[g] # None, NEW s \in Seats
        PROVE  \/ randomSelected[g][s] = planned'[g][s]
               \/ \E w \in flagWrites' : w.game = g /\ w.seat = s
    <3>1. CASE g \in Matched(l)
      <4>1. planned'[g] = SelectionFor(g, l) /\ SelectionFor(g, l)[s] \in BOOLEAN /\ g \in GameIds
        BY <1>1, <1>3, <1>4, <3>1
      <4>2. CASE SelectionFor(g, l)[s] # randomSelected[g][s]
        <5> DEFINE w == [game |-> g, seat |-> s, to |-> SelectionFor(g, l)[s]]
        <5>1. w \in WritesFor(g, l)
          BY <4>1, <4>2 DEF WritesFor, FlagWrite
        <5>2. w \in flagWrites'
          BY <1>1, <3>1, <5>1
        <5>3. QED
          BY <5>2
      <4>3. QED
        BY <4>1, <4>2
    <3>2. CASE g \notin Matched(l)
      <4>1. g \notin touched /\ planned[g] # None /\ planned'[g] = planned[g]
        BY <1>1, <1>3, <2>1, <3>2
      <4>2. QED
        BY <1>2, <4>1 DEF Inv, SeasonInv, BackfillTakesEffect
    <3>3. QED
      BY <3>1, <3>2
  <2>2. QED
    BY <1>2, <2>1 DEF BackfillTakesEffect, seasonData
<1>9. labelsLeft' \subseteq Labels /\ flagWrites' \subseteq FlagWrite /\ touched' \subseteq GameIds
  BY <1>1, <1>6 DEF Inv, SeasonTypeOK
<1>10. QED
  BY <1>2, <1>5, <1>7, <1>8, <1>9, BackfillFrame DEF seasonData, Inv, SeasonTypeOK

LEMMA BackfillWrites ==
  ASSUME Inv, BackfillWrite
  PROVE  Inv'
<1>1. PICK w \in flagWrites :
        IF w.game \in liveGames
        THEN /\ randomSelected' = [randomSelected EXCEPT ![w.game][w.seat] = w.to]
             /\ flagWrites' = flagWrites \ {w}
             /\ agreed' = agreed \ {w.game}
             /\ UNCHANGED <<labelsLeft, planned>>
        ELSE /\ labelsLeft' = {}
             /\ flagWrites' = {}
             /\ planned' = [g \in GameIds |-> None]
             /\ UNCHANGED <<randomSelected, agreed>>
  BY DEF BackfillWrite
<1>2. UNCHANGED <<currentSeason, liveGames, usedIds, seasonOf, requestData, received,
                  seasonFaults, inAgreement, touched>>
  BY DEF BackfillWrite
<1>3. /\ w.game \in GameIds /\ w.seat \in Seats /\ w.to \in BOOLEAN
      /\ w.to = planned[w.game][w.seat] /\ planned[w.game] # None
  BY DEF Inv, SeasonTypeOK, FlagWrite, SeasonInv, PlanKnown
<1>4. /\ randomSelected' \in [GameIds -> [Seats -> BOOLEAN]]
      /\ \A g \in agreed' : randomSelected'[g] = randomSelected[g]
      /\ agreed' \subseteq agreed /\ labelsLeft' \subseteq Labels /\ flagWrites' \subseteq FlagWrite
      /\ planned' \in [GameIds -> [Seats -> BOOLEAN] \cup {None}]
  BY <1>1, <1>3 DEF Inv, SeasonTypeOK
<1>5. PlanKnown'
  BY <1>1, <1>2 DEF Inv, SeasonInv, PlanKnown
<1>6. BackfillTakesEffect'
  <2>1. CASE w.game \in liveGames
    <3>1. ASSUME NEW g \in liveGames \ touched, planned[g] # None, NEW s \in Seats
          PROVE  \/ randomSelected'[g][s] = planned[g][s]
                 \/ \E v \in flagWrites' : v.game = g /\ v.seat = s
      <4>0. g \in GameIds
        BY DEF Inv, SeasonTypeOK
      <4>1. CASE g = w.game /\ s = w.seat
        BY <1>1, <1>3, <2>1, <4>0, <4>1 DEF Inv, SeasonTypeOK
      <4>2. CASE ~(g = w.game /\ s = w.seat)
        <5>1. randomSelected'[g][s] = randomSelected[g][s]
          BY <1>1, <1>3, <2>1, <4>0, <4>2 DEF Inv, SeasonTypeOK
        <5>2. \/ randomSelected[g][s] = planned[g][s]
              \/ \E v \in flagWrites : v.game = g /\ v.seat = s
          BY <3>1 DEF Inv, SeasonInv, BackfillTakesEffect
        <5>3. QED
          BY <1>1, <2>1, <4>2, <5>1, <5>2
      <4>3. QED
        BY <4>1, <4>2
    <3>2. QED
      BY <1>1, <1>2, <2>1, <3>1 DEF BackfillTakesEffect
  <2>2. CASE w.game \notin liveGames
    BY <1>1, <1>2, <2>2 DEF BackfillTakesEffect, Inv, SeasonTypeOK
  <2>3. QED
    BY <2>1, <2>2
<1>7. QED
  BY <1>2, <1>4, <1>5, <1>6, BackfillFrame DEF Inv, SeasonTypeOK

(***************************************************************************)
(* The theorems.                                                           *)
(***************************************************************************)

LEMMA InitInv == SeasonInit => Inv
<1> SUFFICES ASSUME SeasonInit PROVE Inv
  OBVIOUS
<1>1. SeasonTypeOK
  BY SeasonAssumption, NoSeasonFacts DEF SeasonInit, SeasonTypeOK, SeasonPhases
<1>2. SeasonsFit
  BY NoSeasonFacts DEF SeasonInit, SeasonsFit
<1>3. SelectionFollowsNumber /\ PendingAgree /\ BackfillTakesEffect /\ PlanKnown
  BY SeasonAssumption DEF SeasonInit, SelectionFollowsNumber, PendingAgree, BackfillTakesEffect,
                          PlanKnown, NoSeason
<1>4. QED
  BY <1>1, <1>2, <1>3 DEF Inv, SeasonInv

LEMMA StepInv == Inv /\ [SeasonNext]_seasonVars => Inv'
<1> SUFFICES ASSUME Inv, [SeasonNext]_seasonVars PROVE Inv'
  OBVIOUS
<1>1. CASE UNCHANGED seasonVars
  BY <1>1 DEF seasonVars, Inv, SeasonTypeOK, SeasonInv, SeasonsFit, SelectionFollowsNumber,
              PendingAgree, BackfillTakesEffect, PlanKnown
<1>2. ASSUME NEW h \in Handlers,
             AskCurrentSeason(h) \/ AskGameSeason(h) \/ AskUpload(h)
      PROVE  Inv'
  BY <1>2, AskSteps
<1>3. ASSUME NEW h \in Handlers, FindSetting(h) \/ StoreSetting(h) \/ ReadOptions(h)
      PROVE  Inv'
  BY <1>3, SettingSteps
<1>4. ASSUME NEW h \in Handlers, FindGame(h) \/ RefuseFile(h)
      PROVE  Inv'
  BY <1>4, FileSteps
<1>5. ASSUME NEW h \in Handlers, ApplySeason(h) \/ EditSeason(h)
      PROVE  Inv'
  BY <1>5, SeasonWriteSteps
<1>6. ASSUME NEW h \in Handlers, CreateGame(h) \/ WritePlayers(h) \/ StatementFails(h)
      PROVE  Inv'
  BY <1>6, CreateStep, PlayersStep, FailStep
<1>7. CASE RemoveGame \/ BackfillRead \/ BackfillWrite
  BY <1>7, RemoveStep, BackfillReads, BackfillWrites
<1>8. QED
  BY <1>1, <1>2, <1>3, <1>4, <1>5, <1>6, <1>7 DEF SeasonNext

LEMMA SeasonInvariant == SeasonSpec => []Inv
BY InitInv, StepInv, PTL DEF SeasonSpec

\* The settings, the games, the requests and the backfill keep their types.
THEOREM SeasonTypes == SeasonSpec => []SeasonTypeOK
<1>1. Inv => SeasonTypeOK
  BY DEF Inv
<1>2. QED
  BY SeasonInvariant, <1>1, PTL

\* After a write of the number that no concurrent write contradicts, the players'
\* is_random_selected is that of the number (applySeasonToGame, SetGameSeason).
THEOREM SelectionsFollowNumbers == SeasonSpec => []SelectionFollowsNumber
<1>1. Inv => SelectionFollowsNumber
  BY DEF Inv, SeasonInv
<1>2. QED
  BY SeasonInvariant, <1>1, PTL

\* A label with digits comes with its number, on every path that writes one.
THEOREM NumbersFitLabels == SeasonSpec => []NumberFitsLabel
<1>1. Inv => NumberFitsLabel
  BY DEF Inv, SeasonInv, SeasonsFit, NumberFitsLabel
<1>2. QED
  BY SeasonInvariant, <1>1, PTL

\* The backfill leaves a game with the planned selection unless a season was written
\* since it read the game.
THEOREM BackfillsTakeEffect == SeasonSpec => []BackfillTakesEffect
<1>1. Inv => BackfillTakesEffect
  BY DEF Inv, SeasonInv
<1>2. QED
  BY SeasonInvariant, <1>1, PTL

\* The inductive invariant itself.
THEOREM SeasonInvHolds == SeasonSpec => []SeasonInv
<1>1. Inv => SeasonInv
  BY DEF Inv
<1>2. QED
  BY SeasonInvariant, <1>1, PTL

-----------------------------------------------------------------------------
(* The pool of goroutines. *)

USE DEF Fates, Smaller

LEMMA PoolInitially == PoolInit => PoolTypeOK /\ PoolInv
<1> SUFFICES ASSUME PoolInit PROVE PoolTypeOK /\ PoolInv OBVIOUS
<1> USE PoolAssumption DEF PoolInit, Empty
<1>1. PoolTypeOK
  <2>1. files \in Nat OBVIOUS
  <2>2. slots \in [1 .. files -> [file : 1 .. files \cup {NoFile}, ok : BOOLEAN]] OBVIOUS
  <2>3. results \in Seq(Result) OBVIOUS
  <2>4. next \in 1 .. files + 1 BY <2>1
  <2> QED BY <2>1, <2>2, <2>3, <2>4 DEF PoolTypeOK
<1>2. EverySlotFilled BY DEF EverySlotFilled
<1>3. \A w \in running : job[w] = NoFile
  BY DEF Pool, Workers
<1>4. \A i \in 1 .. files : slots[i] = Empty /\ parses[i] = 0 /\ i >= next OBVIOUS
<1>5. /\ files = 0 => running = {}
      /\ files = 1 => parses[1] = 0
  BY DEF Pool
<1> QED BY <1>1, <1>2, <1>3, <1>4, <1>5 DEF PoolInv

\* What every step starts from.
LEMMA PoolFacts ==
  ASSUME PoolTypeOK, PoolInv
  PROVE  /\ running \subseteq Workers
         /\ \A w \in Workers : job[w] \in 1 .. files \cup {NoFile}
         /\ \A i \in 1 .. files : i # NoFile
         /\ files \in Nat
BY PoolAssumption DEF PoolTypeOK, Pool, Workers

LEMMA ParseAloneKeeps ==
  ASSUME PoolTypeOK, PoolInv, ParseAlone PROVE PoolTypeOK' /\ PoolInv'
<1> USE DEF ParseAlone, answerVars
<1>1. files = 1 /\ Pool = {} /\ running = {}
  BY DEF Pool, PoolTypeOK
<1>2. Parsed(1) \in [file : 1 .. 1 \cup {NoFile}, ok : BOOLEAN]
  BY <1>1 DEF Parsed
<1>3. slots' \in [1 .. 1 -> [file : 1 .. 1 \cup {NoFile}, ok : BOOLEAN]] /\ slots'[1] = Parsed(1)
  BY <1>1, <1>2 DEF PoolTypeOK
<1>4. PoolTypeOK'
  BY <1>1, <1>3 DEF PoolTypeOK, Pool, Result, Statuses
<1>5. parses[1] = 0
  BY <1>1 DEF PoolInv
<1>6. EverySlotFilled'
  BY <1>1, <1>3, <1>5 DEF EverySlotFilled, Parsed, PoolTypeOK
<1>7. PoolInv'
  BY <1>1, <1>6 DEF PoolInv, PoolTypeOK
<1> QED BY <1>4, <1>7

LEMMA SendKeeps ==
  ASSUME PoolTypeOK, PoolInv, NEW w \in Workers, Send(w) PROVE PoolTypeOK' /\ PoolInv'
<1> USE PoolFacts, PoolAssumption DEF Send, answerVars, NextIndex
<1>0. files > 1 /\ next \in 1 .. files /\ Pool' = Pool
  BY DEF Pool, PoolTypeOK
<1>1. PoolTypeOK'
  BY <1>0 DEF PoolTypeOK, Result, Statuses
<1>2. \A v \in Workers : job'[v] = IF v = w THEN next ELSE job[v]
  BY DEF PoolTypeOK
<1>3. \A v \in running' : job'[v] # NoFile => job'[v] < next'
  BY <1>0, <1>2 DEF PoolInv
<1>4. \A u, v \in running' : job'[u] = job'[v] /\ job'[u] # NoFile => u = v
  BY <1>0, <1>2 DEF PoolInv
<1>5. ASSUME NEW i \in 1 .. files
      PROVE \/ i >= next' /\ slots'[i] = Empty /\ parses'[i] = 0
            \/ i < next' /\ Handed(i)' /\ slots'[i] = Empty /\ parses'[i] = 0
            \/ i < next' /\ ~Handed(i)' /\ slots'[i] = Parsed(i)' /\ parses'[i] = 1
  <2>1. CASE i = next
    BY <1>0, <1>2, <2>1 DEF PoolInv, Handed
  <2>2. CASE i > next
    BY <1>0, <2>2 DEF PoolInv
  <2>3. CASE i < next
    <3>1. Handed(i)' <=> Handed(i)
      BY <1>0, <1>2, <2>3 DEF Handed
    <3> QED BY <3>1, <2>3, <1>0 DEF PoolInv, Parsed
  <2> QED BY <2>1, <2>2, <2>3, <1>0
<1>6. PoolInv'
  BY <1>0, <1>3, <1>4, <1>5 DEF PoolInv, EverySlotFilled
<1> QED BY <1>1, <1>6

LEMMA CloseKeeps ==
  ASSUME PoolTypeOK, PoolInv, Close PROVE PoolTypeOK' /\ PoolInv'
<1> USE PoolFacts DEF Close, answerVars, CloseChannel
<1>0. files > 1 /\ next = files + 1
  <2>1. files # 0 BY PoolAssumption DEF Pool
  <2>2. files # 1 BY DEF Pool
  <2> QED BY <2>1, <2>2 DEF PoolTypeOK
<1>1. PoolTypeOK'
  BY DEF PoolTypeOK, Result, Statuses, Pool
<1>2. PoolInv'
  BY <1>0 DEF PoolInv, EverySlotFilled, Handed, Parsed
<1> QED BY <1>1, <1>2

LEMMA ParseFileKeeps ==
  ASSUME PoolTypeOK, PoolInv, NEW w \in Workers, ParseFile(w) PROVE PoolTypeOK' /\ PoolInv'
<1> USE PoolFacts, PoolAssumption DEF ParseFile, answerVars, SlotOf
<1> DEFINE k == job[w]
<1>0. /\ files > 1 /\ k \in 1 .. files /\ k < next
      /\ step \in {"send", "wait"}
  <2>1. files # 1 BY DEF PoolTypeOK, Pool
  <2>2. step \notin {"answer", "done"} BY DEF PoolInv
  <2> QED BY <2>1, <2>2 DEF PoolTypeOK, PoolInv
<1>1. Handed(k) /\ slots[k] = Empty /\ parses[k] = 0
  BY <1>0 DEF PoolInv, Handed
<1>2. /\ \A v \in Workers : job'[v] = IF v = w THEN NoFile ELSE job[v]
      /\ \A i \in 1 .. files : slots'[i] = IF i = k THEN Parsed(k) ELSE slots[i]
      /\ \A i \in 1 .. files : parses'[i] = IF i = k THEN 1 ELSE parses[i]
  BY <1>0, <1>1 DEF PoolTypeOK
<1>3. Parsed(k) \in [file : 1 .. files \cup {NoFile}, ok : BOOLEAN]
  BY <1>0 DEF Parsed
<1>4. PoolTypeOK'
  <2> HIDE DEF k
  <2>1. /\ slots' \in [1 .. files -> [file : 1 .. files \cup {NoFile}, ok : BOOLEAN]]
        /\ job' \in [Workers -> 1 .. files \cup {NoFile}]
    BY <1>0, <1>3 DEF PoolTypeOK, k
  <2>2. parses' \in [1 .. files -> Nat]
    BY <1>0, <1>2 DEF PoolTypeOK
  <2> QED BY <2>1, <2>2 DEF PoolTypeOK, Pool, Result, Statuses
<1>5. ASSUME NEW i \in 1 .. files
      PROVE \/ i >= next' /\ slots'[i] = Empty /\ parses'[i] = 0
            \/ i < next' /\ Handed(i)' /\ slots'[i] = Empty /\ parses'[i] = 0
            \/ i < next' /\ ~Handed(i)' /\ slots'[i] = Parsed(i)' /\ parses'[i] = 1
  <2>1. CASE i = k
    <3>1. ~Handed(i)'
      BY <1>2, <2>1 DEF PoolInv, Handed
    <3> QED BY <3>1, <1>0, <1>2, <2>1 DEF Parsed
  <2>2. CASE i # k
    <3>1. Handed(i)' <=> Handed(i)
      BY <1>2, <2>2 DEF Handed
    <3> QED BY <3>1, <1>0, <1>2, <2>2 DEF PoolInv, Parsed
  <2> QED BY <2>1, <2>2
<1>6. EverySlotFilled'
  BY <1>0 DEF EverySlotFilled
<1>7. PoolInv'
  BY <1>0, <1>2, <1>5, <1>6 DEF PoolInv
<1> QED BY <1>4, <1>7

LEMMA ReturnKeeps ==
  ASSUME PoolTypeOK, PoolInv, NEW w \in Workers, Return(w) PROVE PoolTypeOK' /\ PoolInv'
<1> USE PoolFacts, PoolAssumption DEF Return, answerVars
<1>1. PoolTypeOK'
  BY DEF PoolTypeOK, Result, Statuses, Pool
<1>2. \A i \in 1 .. files : Handed(i)' <=> Handed(i)
  BY DEF Handed
<1>3. EverySlotFilled'
  BY DEF EverySlotFilled, PoolInv, Parsed
<1>4. PoolInv'
  BY <1>2, <1>3 DEF PoolInv, Parsed
<1> QED BY <1>1, <1>4

LEMMA WaitKeeps ==
  ASSUME PoolTypeOK, PoolInv, Wait PROVE PoolTypeOK' /\ PoolInv'
<1> USE PoolFacts DEF Wait, AllDone, answerVars
<1>0. files > 1 /\ next = files + 1
  BY DEF PoolInv, PoolTypeOK
<1>1. PoolTypeOK'
  BY DEF PoolTypeOK, Result, Statuses, Pool
<1>2. \A i \in 1 .. files : slots[i] = Parsed(i) /\ parses[i] = 1
  BY <1>0 DEF PoolInv, Handed
<1>3. EverySlotFilled'
  BY <1>2 DEF EverySlotFilled, Parsed
<1>4. PoolInv'
  BY <1>0, <1>2, <1>3 DEF PoolInv, Handed, Parsed
<1> QED BY <1>1, <1>4

\* The next entry of the answer.
LEMMA NextAnswer ==
  ASSUME PoolTypeOK, PoolInv, AnswerNext
  PROVE  /\ Len(results) + 1 \in 1 .. files
         /\ results' = Append(results, [file |-> Len(results) + 1, status |-> fate[Len(results) + 1]])
<1> USE PoolFacts DEF AnswerNext
<1> DEFINE i == Len(results) + 1
<1>1. i \in 1 .. files /\ i \in Nat
  BY DEF PoolTypeOK, PoolInv
<1>2. slots[i] = Parsed(i)
  BY <1>1 DEF PoolInv, EverySlotFilled
<1>3. Answer(slots[i]) = [file |-> i, status |-> fate[i]]
  BY <1>1, <1>2 DEF Answer, Parsed, PoolTypeOK
<1> QED BY <1>1, <1>3

LEMMA AnswerNextKeeps ==
  ASSUME PoolTypeOK, PoolInv, AnswerNext PROVE PoolTypeOK' /\ PoolInv'
<1> USE PoolFacts DEF AnswerNext
<1> DEFINE i == Len(results) + 1
           a == [file |-> i, status |-> fate[i]]
<1>1. i \in 1 .. files /\ results' = Append(results, a)
  BY NextAnswer
<1>2. a \in Result /\ results \in Seq(Result)
  BY <1>1 DEF PoolTypeOK, Result, Statuses
<1>3. /\ results' \in Seq(Result) /\ Len(results') = i
      /\ \A j \in 1 .. i : results'[j] = IF j = i THEN a ELSE results[j]
  BY <1>1, <1>2
<1>4. PoolTypeOK'
  <2>1. successCount' \in Nat /\ failedCount' \in Nat BY DEF PoolTypeOK
  <2>2. Result' = Result BY DEF Result, Statuses
  <2>3. results' \in Seq(Result)' BY <1>3, <2>2
  <2> QED BY <2>1, <2>3 DEF PoolTypeOK, Pool
<1>5. EverySlotFilled'
  BY DEF EverySlotFilled, PoolInv, Parsed
<1>6. \A j \in 1 .. Len(results') : results'[j] = [file |-> j, status |-> fate[j]]
  BY <1>1, <1>3, <1>2 DEF PoolInv
<1>7. Len(results') <= files /\ step' = "answer"
  BY <1>1, <1>3
<1>8. PoolInv'
  BY <1>5, <1>6, <1>7 DEF PoolInv, Handed, Parsed
<1> QED BY <1>4, <1>8

LEMMA SendAnswerKeeps ==
  ASSUME PoolTypeOK, PoolInv, SendAnswer PROVE PoolTypeOK' /\ PoolInv'
<1> USE DEF SendAnswer, answerVars
<1>1. PoolTypeOK'
  BY DEF PoolTypeOK, Result, Statuses, Pool
<1>2. EverySlotFilled'
  BY DEF EverySlotFilled, PoolInv, Parsed
<1>3. PoolInv'
  BY <1>2 DEF PoolInv, Handed, Parsed
<1> QED BY <1>1, <1>3

LEMMA PoolStepKeeps ==
  ASSUME PoolTypeOK, PoolInv, [PoolNext]_poolVars PROVE PoolTypeOK' /\ PoolInv'
<1>1. CASE ParseAlone BY <1>1, ParseAloneKeeps
<1>2. ASSUME NEW w \in Workers, Send(w) PROVE PoolTypeOK' /\ PoolInv' BY <1>2, SendKeeps
<1>3. ASSUME NEW w \in Workers, ParseFile(w) PROVE PoolTypeOK' /\ PoolInv' BY <1>3, ParseFileKeeps
<1>4. ASSUME NEW w \in Workers, Return(w) PROVE PoolTypeOK' /\ PoolInv' BY <1>4, ReturnKeeps
<1>5. CASE Close BY <1>5, CloseKeeps
<1>6. CASE Wait BY <1>6, WaitKeeps
<1>7. CASE AnswerNext BY <1>7, AnswerNextKeeps
<1>8. CASE SendAnswer BY <1>8, SendAnswerKeeps
<1>9. CASE UNCHANGED poolVars
  BY <1>9 DEF poolVars, PoolTypeOK, PoolInv, EverySlotFilled, Handed, Parsed, Pool, Result, Statuses
<1> QED BY <1>1, <1>2, <1>3, <1>4, <1>5, <1>6, <1>7, <1>8, <1>9 DEF PoolNext

\* The inductive invariant of parseUploadedFilesInParallel, with the types.
THEOREM PoolInductive == PoolSpec => [](PoolTypeOK /\ PoolInv)
<1>1. PoolInit => PoolTypeOK /\ PoolInv BY PoolInitially
<1>2. (PoolTypeOK /\ PoolInv) /\ [PoolNext]_poolVars => (PoolTypeOK /\ PoolInv)' BY PoolStepKeeps
<1> QED BY <1>1, <1>2, PTL DEF PoolSpec

\* The variables of a batch keep their types.
THEOREM PoolTypes == PoolSpec => []PoolTypeOK
BY PoolInductive, PTL

\* An index that was sent is with exactly one goroutine or in its slot, and the answer
\* repeats what became of each file.
THEOREM PoolInvHolds == PoolSpec => []PoolInv
BY PoolInductive, PTL

\* However the goroutines are scheduled, every slot holds the outcome of its own file,
\* parsed once, when parseUploadedFilesInParallel returns.
THEOREM SlotsAreFilled == PoolSpec => []EverySlotFilled
<1>1. PoolInv => EverySlotFilled BY DEF PoolInv
<1> QED BY <1>1, PoolInductive, PTL

-----------------------------------------------------------------------------
(* The counts of the answer. *)

LEMMA AnswerAddsUpStep ==
  ASSUME PoolTypeOK, PoolInv, AnswerAddsUp, [PoolNext]_poolVars PROVE AnswerAddsUp'
<1>1. CASE AnswerNext
  <2> DEFINE i == Len(results) + 1
             a == [file |-> i, status |-> fate[i]]
  <2>1. i \in 1 .. files /\ results' = Append(results, a) /\ results \in Seq(Result)
    BY <1>1, NextAnswer DEF PoolTypeOK
  <2>2. Len(results') = i /\ a \in Result
    BY <2>1 DEF PoolTypeOK, Result, Statuses
  <2>3. \A j \in 1 .. i : results'[j] = IF j = i THEN a ELSE results[j]
    BY <2>1, <2>2
  <2>4. \A j \in 1 .. Len(results') : results'[j].file = j
    BY <2>1, <2>2, <2>3 DEF AnswerAddsUp
  <2>5. successCount' + failedCount' = successCount + failedCount + 1
    BY <1>1 DEF AnswerNext, PoolTypeOK
  <2> QED BY <2>1, <2>2, <2>4, <2>5 DEF AnswerAddsUp
<1>2. CASE ~AnswerNext
  BY <1>2 DEF PoolNext, AnswerAddsUp, poolVars, answerVars, ParseAlone, Send, Close,
     ParseFile, Return, Wait, SendAnswer
<1> QED BY <1>1, <1>2

\* Successes and failures add up to the entries, which are in the order of the files.
THEOREM AnswersAddUp == PoolSpec => []AnswerAddsUp
<1>1. PoolInit => AnswerAddsUp
  BY DEF PoolInit, AnswerAddsUp
<1>2. (PoolTypeOK /\ PoolInv) /\ AnswerAddsUp /\ [PoolNext]_poolVars => AnswerAddsUp'
  BY AnswerAddsUpStep
<1> QED BY <1>1, <1>2, PoolInductive, PTL DEF PoolSpec

-----------------------------------------------------------------------------
(* The refinement. *)

LEMMA LoopInitially == PoolInit => Loop!LoopInit
BY DEF PoolInit, Loop!LoopInit

LEMMA LoopStep ==
  ASSUME PoolTypeOK, PoolInv, [PoolNext]_poolVars
  PROVE  [Loop!LoopNext]_<<fate, results>>
<1>1. CASE AnswerNext
  <2>1. Len(results) + 1 \in DOMAIN fate
    BY <1>1, NextAnswer DEF PoolTypeOK
  <2> QED BY <1>1, <2>1, NextAnswer DEF Loop!LoopNext, AnswerNext
<1>2. CASE ~AnswerNext
  BY <1>2 DEF PoolNext, poolVars, answerVars, ParseAlone, Send, Close, ParseFile, Return,
     Wait, SendAnswer
<1> QED BY <1>1, <1>2

\* The pool of goroutines implements the loop that answers one file after the other.
THEOREM PoolImplementsLoop == PoolSpec => ImplementsLoop
<1>1. PoolInit => Loop!LoopInit BY LoopInitially
<1>2. (PoolTypeOK /\ PoolInv) /\ [PoolNext]_poolVars => [Loop!LoopNext]_<<fate, results>>
  BY LoopStep
<1> QED BY <1>1, <1>2, PoolInductive, PTL DEF PoolSpec, ImplementsLoop, Loop!LoopSpec

-----------------------------------------------------------------------------
(* Side by side. *)

LEMMA ComponentSteps ==
  [Next]_componentVars
    => /\ [SeasonNext]_seasonVars /\ [PoolNext]_poolVars /\ [ChartsNext]_commands
       /\ [StatisticsNext]_statisticsVars /\ [ImportNext]_importVars /\ [StoreNext]_storeVars
       /\ [McpNext]_mcpVars
BY DEF Next, componentVars

\* In whatever behaviour of the components together, each component behaves as its own
\* specification says, so that what is proved of one of them holds of all of them.
THEOREM ComponentsBehave ==
  ComponentsSpec => /\ SeasonSpec /\ PoolFairSpec /\ ChartsSpec /\ StatisticsSpec
                    /\ ImportSpec /\ StoreSpec /\ McpSpec
<1>1. Init => /\ SeasonInit /\ PoolInit /\ ChartsInit /\ StatisticsInit /\ ImportInit /\ StoreInit
              /\ McpInit
  BY DEF Init, PoolRests, StatisticsRest, ImportRests
<1> QED BY <1>1, ComponentSteps, PTL
  DEF ComponentsSpec, SeasonSpec, PoolFairSpec, PoolSpec, ChartsSpec, StatisticsSpec, ImportSpec,
      StoreSpec, McpSpec

\* The settings and games of the season writes, the indexes, slots and counts of a batch upload,
\* and the files and loads of the connector keep their types.
THEOREM ComponentsKeepTheirTypes == ComponentsSpec => []ComponentsTypeOK
BY ComponentsBehave, SeasonTypes, PoolTypes, McpTypes, PTL DEF PoolFairSpec, ComponentsTypeOK
=============================================================================
