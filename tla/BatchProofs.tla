------------------------------ MODULE BatchProofs ------------------------------
(***************************************************************************)
(* What one question and a batch of questions promise for every number of  *)
(* providers and jobs, every cap and every kill: how many calls a question *)
(* may take, what its answer is worth, and how often a job is answered.    *)
(***************************************************************************)
EXTENDS Batch, WellFoundedInduction, TLAPS

-----------------------------------------------------------------------------
(* Where a question is: the stages of each mode.                            *)

CritiqueStages  == {"draft", "draftAgain", "critic", "criticAgain", "refine", "rewrite",
                    "rescue", "refineStream"}
DebateStages    == {"openA", "openB", "closeA", "closeB", "judge", "synthesize", "resynthesize"}
CouncilStages   == {"specialist", "combine"}
ConsensusStages == {"poll", "search", "adjudicate"}
LookingStages   == {"pages", "time", "finance", "sports", "web", "weather", "sourced"}

\* A question is in a stage of its mode until it is on the single-answer path.
PlaceInv ==
    /\ stage \in CritiqueStages => ask.mode = "critique"
    /\ stage \in DebateStages => ask.mode = "debate"
    /\ stage \in CouncilStages => ask.mode = "council"
    /\ stage \in ConsensusStages => ask.mode = "consensus"
    /\ stage \in LookingStages \cup {"ground"} => ask.mode = "retrieval"
    /\ stage \in {"single", "tools"} => alone
    /\ stage \notin {"single", "tools", "verify", "ended"} => ~alone
    /\ stage = "tools" => ask.tools
    /\ stage \in {"asked", "tools"} => left > 0
    /\ ask.tools /\ stage \notin {"asked", "ended"} => ask.mode = "single"
    /\ alone => ask.mode # "retrieval"
    /\ stage = "verify" /\ ask.mode = "single" => alone
    /\ stage = "refineStream" => ask.streamed
    /\ stage # "ended" => outcome = "none"

\* The stages still ahead, this one included, each attempt of a debater and
\* each specialist as one.
Rounds(s, t) ==
    CASE s = "draft"        -> 7
      [] s = "draftAgain"   -> 6
      [] s = "critic"       -> 5
      [] s = "criticAgain"  -> 4
      [] s = "refine"       -> 3
      [] s = "rewrite"      -> 2
      [] s = "rescue"       -> 1
      [] s = "refineStream" -> 1
      [] s = "openA"        -> 11 - t
      [] s = "openB"        -> 9 - t
      [] s = "closeA"       -> 5
      [] s = "closeB"       -> 4
      [] s = "judge"        -> 3
      [] s = "synthesize"   -> 2
      [] s = "resynthesize" -> 1
      [] s = "specialist"   -> 6 - t
      [] s = "combine"      -> 1
      [] s = "adjudicate"   -> 1
      [] OTHER              -> 0

\* The way a question is on: its mode, or that of a single answer.
Way == IF alone THEN (IF ask.tools THEN "tools" ELSE "single") ELSE ask.mode

\* The calls that may follow at the end of each way: a fact check, and the single
\* answer that a workflow may send the question back for.
Tail(way) ==
    CASE way \in {"critique", "debate"}   -> Enabled + 2
      [] way \in {"council", "consensus"} -> Enabled + 1
      [] OTHER                            -> 1

\* The calls that may follow from a stage s, at attempt t and asking a of a
\* question on this way, with l providers left.
Room(s, t, a, l, way) ==
    CASE s = "ended"  -> 0
      [] s = "tools"  -> 4 * l + 2 - a
      [] s = "single" -> IF way = "tools" /\ l > 0 THEN 4 * l - 2 ELSE l + 1
      [] s = "verify" -> Tail(way)
      [] s = "poll"   -> Enabled + 3 + Tail(way)
      [] s = "search" -> 3 + Tail(way)
      [] s \in LookingStages \cup {"ground"} -> 2
      [] OTHER -> 3 * Rounds(s, t) + 1 - a + Tail(way)

RoomLeft == Room(stage, turn, asking, left, Way)

TurnInv ==
    /\ stage = "openA" => turn <= 2
    /\ stage = "openB" => turn <= 3

\* Calls sent and calls that may follow stay within the mode's limit.
CallInv ==
    /\ stage = "asked" => calls = 0
    /\ stage # "asked" => calls + RoomLeft <= CallLimit[ask.mode]

\* The result reports what was recorded unless an answer was given up, and a
\* single answer starts from nothing.
BillInv ==
    /\ total <= spent
    /\ ~fellBack /\ ~ask.tools => total = spent
    /\ ~fellBack /\ ask.tools /\ (stage = "verify" \/ outcome \in {"single", "workflow"})
          => spent = total + 1
    /\ stage \in {"asked", "tools"} /\ ~fellBack => spent = 0
    /\ stage = "asked" => ~fellBack
    /\ stage = "single" /\ ~fellBack => spent = (IF ask.tools THEN 1 ELSE 0)

\* What the fact check lets through says something.
TextInv ==
    stage = "verify" /\ ~ask.streamed /\ ask.mode # "consensus" /\ text \in Blank
        => text \in Unfit

\* No model is asked while documents are looked for.
SourceInv ==
    /\ stage \in LookingStages => calls = 0 /\ spent = 0
    /\ stage \in {"ground", "verify"} /\ ask.mode = "retrieval" => source # "none"

QuestionInv ==
    TypeOK /\ PlaceInv /\ TurnInv /\ CallInv /\ BillInv /\ TextInv /\ SourceInv
    /\ PlainAnswersSpeak /\ AnswersAreGrounded

-----------------------------------------------------------------------------
(* Where a batch is.                                                        *)

\* What a pass over the jobs has done with a job.
PassClause(j) ==
    /\ j \in todo \/ j = at \/ rows[j] # {} \/ j \in skipped
    /\ j \in Named /\ (j \in todo \/ j = at) => "ok" \notin rows[j]

PassInv ==
    batch = "running" =>
        /\ at # NoJob => at \notin todo
        /\ skipped # {} => todo = {} /\ at = NoJob /\ stopped /\ ~entered
        /\ \A j \in Jobs : PassClause(j)

\* A job has one answer a pass at most, and one with an id one more than kills.
CountClause(j) ==
    /\ batch = "lone" => answered[j] = 0 /\ rows[j] = {}
    /\ answered[j] <= 1 + resumes
    /\ batch = "running" /\ (j \in todo \/ (j = at /\ ~Answered)) => answered[j] <= resumes
    /\ batch = "running" /\ j = at /\ Answered => answered[j] > 0
    /\ "ok" \in rows[j] => answered[j] > 0

NamedClause(j) ==
    /\ answered[j] <= 1 + crashes
    /\ "ok" \notin rows[j] /\ ~(batch = "running" /\ at = j /\ Answered)
          => answered[j] <= crashes

CountInv ==
    /\ \A j \in Jobs : CountClause(j)
    /\ \A j \in Named : NamedClause(j)

ModeInv ==
    batch # "lone" /\ ask.mode = "consensus"
        => \E j \in Jobs \ Void : Query[j].mode = "consensus"

BatchInv ==
    /\ QuestionInv /\ BatchTypeOK /\ PassInv /\ CountInv /\ ModeInv
    /\ BudgetHolds /\ JobsAreAccounted

-----------------------------------------------------------------------------
(* A question is well formed.                                               *)

\* The values that the steps assign.
LEMMA Members ==
  /\ "draft" \in Stages /\ "draftAgain" \in Stages /\ "critic" \in Stages
  /\ "criticAgain" \in Stages /\ "refine" \in Stages /\ "rewrite" \in Stages
  /\ "rescue" \in Stages /\ "openA" \in Stages /\ "openB" \in Stages
  /\ "closeA" \in Stages /\ "closeB" \in Stages /\ "judge" \in Stages
  /\ "synthesize" \in Stages /\ "resynthesize" \in Stages /\ "specialist" \in Stages
  /\ "combine" \in Stages /\ "adjudicate" \in Stages /\ "asked" \in Stages
  /\ "ended" \in Stages /\ "single" \in Stages /\ "poll" \in Stages /\ "search" \in Stages
  /\ "pages" \in Stages /\ "time" \in Stages /\ "finance" \in Stages
  /\ "sports" \in Stages /\ "web" \in Stages /\ "weather" \in Stages
  /\ "sourced" \in Stages /\ "ground" \in Stages /\ "refineStream" \in Stages
  /\ "verify" \in Stages /\ "tools" \in Stages
  /\ "empty" \in Texts /\ "stub" \in Texts /\ "beside" \in Texts /\ "weak" \in Texts
  /\ "good" \in Texts
  /\ "none" \in SourceKinds /\ "index" \in SourceKinds /\ "page" \in SourceKinds
  /\ "time" \in SourceKinds /\ "finance" \in SourceKinds /\ "sports" \in SourceKinds
  /\ "web" \in SourceKinds /\ "weather" \in SourceKinds
  /\ "none" \in Outcomes /\ "refused" \in Outcomes /\ "confirm" \in Outcomes
  /\ "error" \in Outcomes /\ "unsourced" \in Outcomes /\ "rendered" \in Outcomes
  /\ "contentless" \in Outcomes /\ "abandoned" \in Outcomes /\ "single" \in Outcomes
  /\ "workflow" \in Outcomes
  /\ \A q \in Questions : FirstStage(q) \in Stages
  /\ Enabled \in Nat /\ Enabled > 0
  BY EnabledAssumption DEF Stages, Structured, Texts, SourceKinds, Outcomes, FirstStage,
      Questions, Modes

\* What falling back to a single answer and a call that fails come to.
LEMMA FallBackFacts ==
  ASSUME FallBack
  PROVE  /\ stage' = "single" /\ turn' = 1 /\ asking' = 1 /\ alone' = TRUE
         /\ left' = Enabled /\ left' \in 0 .. Enabled /\ blank' = FALSE
         /\ fellBack' = TRUE /\ total' = 0
  BY EnabledAssumption DEF FallBack, GoTo

LEMMA TroubleFacts ==
  ASSUME Trouble, calls \in Nat
  PROVE  /\ calls' \in Nat /\ calls <= calls' /\ calls' <= calls + 1
         /\ spent' = spent /\ used' = used
  BY DEF Trouble

\* Every step keeps the types.
LEMMA TypeStep ==
  ASSUME TypeOK, Next
  PROVE  TypeOK'
  <1> USE DEF Reply, Bill, GoTo, TryNext, End, Finish, TrySource, work, retrieving, TypeOK, Specialists
  <1>1. CASE Ask
    BY <1>1, Members, FallBackFacts, TroubleFacts DEF Ask
  <1>2. CASE TurnAway
    BY <1>2, Members, FallBackFacts, TroubleFacts DEF TurnAway
  <1>3. CASE Repair
    BY <1>3, Members, FallBackFacts, TroubleFacts DEF Repair
  <1>4. CASE Draft
    BY <1>4, Members, FallBackFacts, TroubleFacts DEF Draft
  <1>5. CASE DraftAgain
    BY <1>5, Members, FallBackFacts, TroubleFacts DEF DraftAgain
  <1>6. CASE Critic
    BY <1>6, Members, FallBackFacts, TroubleFacts DEF Critic
  <1>7. CASE CriticAgain
    BY <1>7, Members, FallBackFacts, TroubleFacts DEF CriticAgain
  <1>8. CASE Refine
    <2>1. ask' \in Questions /\ source' \in SourceKinds
      BY <1>8, Members DEF Refine, FallBack
    <2>2. stage' \in Stages /\ turn' \in 1 .. 4 /\ asking' \in 1 .. 3
      BY <1>8, Members DEF Refine, FallBack
    <2>3. draft' \in Texts
      BY <1>8, Members DEF Refine, FallBack
    <2>4. text' \in Texts
      BY <1>8, Members DEF Refine, FallBack, DraftAndNotes
    <2>5. left' \in 0 .. Enabled
      BY <1>8, Members DEF Refine, FallBack
    <2>6. blank' \in BOOLEAN /\ fellBack' \in BOOLEAN /\ alone' \in BOOLEAN
      BY <1>8, Members DEF Refine, FallBack
    <2>7. calls' \in Nat /\ spent' \in Nat /\ used' \in Nat /\ total' \in Nat
      BY <1>8, Members DEF Refine, FallBack
    <2>8. outcome' \in Outcomes
      BY <1>8, Members DEF Refine, FallBack
    <2> HIDE DEF Reply, Bill, GoTo, End, Finish, work
    <2> QED
      BY <2>1, <2>2, <2>3, <2>4, <2>5, <2>6, <2>7, <2>8
  <1>9. CASE Rewrite
    BY <1>9, Members, FallBackFacts, TroubleFacts DEF Rewrite
  <1>10. CASE Rescue
    <2>1. ask' \in Questions /\ source' \in SourceKinds
      BY <1>10, Members DEF Rescue, FallBack
    <2>2. stage' \in Stages /\ turn' \in 1 .. 4 /\ asking' \in 1 .. 3
      BY <1>10, Members DEF Rescue, FallBack
    <2>3. draft' \in Texts
      BY <1>10, Members DEF Rescue, FallBack
    <2>4. text' \in Texts
      BY <1>10, Members DEF Rescue, FallBack, DraftAndNotes
    <2>5. left' \in 0 .. Enabled
      BY <1>10, Members DEF Rescue, FallBack
    <2>6. blank' \in BOOLEAN /\ fellBack' \in BOOLEAN /\ alone' \in BOOLEAN
      BY <1>10, Members DEF Rescue, FallBack
    <2>7. calls' \in Nat /\ spent' \in Nat /\ used' \in Nat /\ total' \in Nat
      BY <1>10, Members DEF Rescue, FallBack
    <2>8. outcome' \in Outcomes
      BY <1>10, Members DEF Rescue, FallBack
    <2> HIDE DEF Reply, Bill, GoTo, End, Finish, work
    <2> QED
      BY <2>1, <2>2, <2>3, <2>4, <2>5, <2>6, <2>7, <2>8
  <1>11. CASE RefineStream
    BY <1>11, Members, FallBackFacts, TroubleFacts DEF RefineStream
  <1>12. CASE DraftFails
    <2>1. ask' \in Questions /\ source' \in SourceKinds
      BY <1>12, Members DEF DraftFails, FallBack, Trouble, Fits
    <2>2. stage' \in Stages /\ turn' \in 1 .. 4 /\ asking' \in 1 .. 3
      BY <1>12, Members DEF DraftFails, FallBack, Trouble, Fits
    <2>3. draft' \in Texts
      BY <1>12, Members DEF DraftFails, FallBack, Trouble, Fits
    <2>4. text' \in Texts
      BY <1>12, Members DEF DraftFails, FallBack, DraftAndNotes, Trouble, Fits
    <2>5. left' \in 0 .. Enabled
      BY <1>12, Members DEF DraftFails, FallBack, Trouble, Fits
    <2>6. blank' \in BOOLEAN /\ fellBack' \in BOOLEAN /\ alone' \in BOOLEAN
      BY <1>12, Members DEF DraftFails, FallBack, Trouble, Fits
    <2>7. calls' \in Nat /\ spent' \in Nat /\ used' \in Nat /\ total' \in Nat
      BY <1>12, Members DEF DraftFails, FallBack, Trouble, Fits
    <2>8. outcome' \in Outcomes
      BY <1>12, Members DEF DraftFails, FallBack, Trouble, Fits
    <2> HIDE DEF Reply, Bill, GoTo, End, Finish, work
    <2> QED
      BY <2>1, <2>2, <2>3, <2>4, <2>5, <2>6, <2>7, <2>8
  <1>13. CASE CriticFails
    BY <1>13, Members, FallBackFacts, TroubleFacts DEF CriticFails
  <1>14. CASE RefineFails
    BY <1>14, Members, FallBackFacts, TroubleFacts DEF RefineFails
  <1>15. CASE RefineStreamFails
    BY <1>15, Members, FallBackFacts, TroubleFacts DEF RefineStreamFails
  <1>16. CASE OpenA
    BY <1>16, Members, FallBackFacts, TroubleFacts DEF OpenA
  <1>17. CASE OpenB
    BY <1>17, Members, FallBackFacts, TroubleFacts DEF OpenB
  <1>18. CASE CloseA
    BY <1>18, Members, FallBackFacts, TroubleFacts DEF CloseA
  <1>19. CASE CloseB
    BY <1>19, Members, FallBackFacts, TroubleFacts DEF CloseB
  <1>20. CASE Judge
    BY <1>20, Members, FallBackFacts, TroubleFacts DEF Judge
  <1>21. CASE Synthesize
    BY <1>21, Members, FallBackFacts, TroubleFacts DEF Synthesize
  <1>22. CASE Resynthesize
    BY <1>22, Members, FallBackFacts, TroubleFacts DEF Resynthesize
  <1>23. CASE DebateFails
    BY <1>23, Members, FallBackFacts, TroubleFacts DEF DebateFails
  <1>24. CASE Specialist
    BY <1>24, Members, FallBackFacts, TroubleFacts DEF Specialist
  <1>25. CASE Combine
    <2>1. ask' \in Questions /\ source' \in SourceKinds
      BY <1>25, Members DEF Combine, FallBack
    <2>2. stage' \in Stages /\ turn' \in 1 .. 4 /\ asking' \in 1 .. 3
      BY <1>25, Members DEF Combine, FallBack
    <2>3. draft' \in Texts
      BY <1>25, Members DEF Combine, FallBack
    <2>4. text' \in Texts
      BY <1>25, Members DEF Combine, FallBack, DraftAndNotes
    <2>5. left' \in 0 .. Enabled
      BY <1>25, Members DEF Combine, FallBack
    <2>6. blank' \in BOOLEAN /\ fellBack' \in BOOLEAN /\ alone' \in BOOLEAN
      BY <1>25, Members DEF Combine, FallBack
    <2>7. calls' \in Nat /\ spent' \in Nat /\ used' \in Nat /\ total' \in Nat
      BY <1>25, Members DEF Combine, FallBack
    <2>8. outcome' \in Outcomes
      BY <1>25, Members DEF Combine, FallBack
    <2> HIDE DEF Reply, Bill, GoTo, End, Finish, work
    <2> QED
      BY <2>1, <2>2, <2>3, <2>4, <2>5, <2>6, <2>7, <2>8
  <1>26. CASE CouncilFails
    BY <1>26, Members, FallBackFacts, TroubleFacts DEF CouncilFails
  <1>27. CASE Poll
    <2>1. ask' \in Questions /\ source' \in SourceKinds
      BY <1>27, Members DEF Poll, FallBack
    <2>2. stage' \in Stages /\ turn' \in 1 .. 4 /\ asking' \in 1 .. 3
      BY <1>27, Members DEF Poll, FallBack
    <2>3. draft' \in Texts
      BY <1>27, Members DEF Poll, FallBack
    <2>4. text' \in Texts
      BY <1>27, Members DEF Poll, FallBack, DraftAndNotes
    <2>5. left' \in 0 .. Enabled
      BY <1>27, Members DEF Poll, FallBack
    <2>6. blank' \in BOOLEAN /\ fellBack' \in BOOLEAN /\ alone' \in BOOLEAN
      BY <1>27, Members DEF Poll, FallBack
    <2>7. calls' \in Nat /\ spent' \in Nat /\ used' \in Nat /\ total' \in Nat
      BY <1>27, Members DEF Poll, FallBack
    <2>8. outcome' \in Outcomes
      BY <1>27, Members DEF Poll, FallBack
    <2> HIDE DEF Reply, Bill, GoTo, End, Finish, work
    <2> QED
      BY <2>1, <2>2, <2>3, <2>4, <2>5, <2>6, <2>7, <2>8
  <1>28. CASE PollEmpty
    BY <1>28, Members, FallBackFacts, TroubleFacts DEF PollEmpty
  <1>29. CASE Search
    <2>1. ask' \in Questions /\ source' \in SourceKinds
      BY <1>29, Members DEF Search, FallBack
    <2>2. stage' \in Stages /\ turn' \in 1 .. 4 /\ asking' \in 1 .. 3
      BY <1>29, Members DEF Search, FallBack
    <2>3. draft' \in Texts
      BY <1>29, Members DEF Search, FallBack
    <2>4. text' \in Texts
      BY <1>29, Members DEF Search, FallBack, DraftAndNotes
    <2>5. left' \in 0 .. Enabled
      BY <1>29, Members DEF Search, FallBack
    <2>6. blank' \in BOOLEAN /\ fellBack' \in BOOLEAN /\ alone' \in BOOLEAN
      BY <1>29, Members DEF Search, FallBack
    <2>7. calls' \in Nat /\ spent' \in Nat /\ used' \in Nat /\ total' \in Nat
      BY <1>29, Members DEF Search, FallBack
    <2>8. outcome' \in Outcomes
      BY <1>29, Members DEF Search, FallBack
    <2> HIDE DEF Reply, Bill, GoTo, End, Finish, work
    <2> QED
      BY <2>1, <2>2, <2>3, <2>4, <2>5, <2>6, <2>7, <2>8
  <1>30. CASE Adjudicate
    <2>1. ask' \in Questions /\ source' \in SourceKinds
      BY <1>30, Members DEF Adjudicate, FallBack
    <2>2. stage' \in Stages /\ turn' \in 1 .. 4 /\ asking' \in 1 .. 3
      BY <1>30, Members DEF Adjudicate, FallBack
    <2>3. draft' \in Texts
      BY <1>30, Members DEF Adjudicate, FallBack
    <2>4. text' \in Texts
      BY <1>30, Members DEF Adjudicate, FallBack, DraftAndNotes
    <2>5. left' \in 0 .. Enabled
      BY <1>30, Members DEF Adjudicate, FallBack
    <2>6. blank' \in BOOLEAN /\ fellBack' \in BOOLEAN /\ alone' \in BOOLEAN
      BY <1>30, Members DEF Adjudicate, FallBack
    <2>7. calls' \in Nat /\ spent' \in Nat /\ used' \in Nat /\ total' \in Nat
      BY <1>30, Members DEF Adjudicate, FallBack
    <2>8. outcome' \in Outcomes
      BY <1>30, Members DEF Adjudicate, FallBack
    <2> HIDE DEF Reply, Bill, GoTo, End, Finish, work
    <2> QED
      BY <2>1, <2>2, <2>3, <2>4, <2>5, <2>6, <2>7, <2>8
  <1>31. CASE AdjudicationFails
    BY <1>31, Members, FallBackFacts, TroubleFacts DEF AdjudicationFails
  <1>32. CASE Pages
    BY <1>32, Members, FallBackFacts, TroubleFacts DEF Pages
  <1>33. CASE TimeSource
    BY <1>33, Members, FallBackFacts, TroubleFacts DEF TimeSource
  <1>34. CASE FinanceSource
    BY <1>34, Members, FallBackFacts, TroubleFacts DEF FinanceSource
  <1>35. CASE SportsSource
    BY <1>35, Members, FallBackFacts, TroubleFacts DEF SportsSource
  <1>36. CASE WebSearch
    BY <1>36, Members, FallBackFacts, TroubleFacts DEF WebSearch
  <1>37. CASE WeatherSource
    BY <1>37, Members, FallBackFacts, TroubleFacts DEF WeatherSource
  <1>38. CASE Unsourced
    BY <1>38, Members, FallBackFacts, TroubleFacts DEF Unsourced
  <1>39. CASE Rendered
    BY <1>39, Members, FallBackFacts, TroubleFacts DEF Rendered
  <1>40. CASE Compose
    BY <1>40, Members, FallBackFacts, TroubleFacts DEF Compose
  <1>41. CASE Ground
    BY <1>41, Members, FallBackFacts, TroubleFacts DEF Ground
  <1>42. CASE GroundFails
    BY <1>42, Members, FallBackFacts, TroubleFacts DEF GroundFails
  <1>43. CASE Single
    <2>1. ask' \in Questions /\ source' \in SourceKinds
      BY <1>43, Members DEF Single, FallBack
    <2>2. stage' \in Stages /\ turn' \in 1 .. 4 /\ asking' \in 1 .. 3
      BY <1>43, Members DEF Single, FallBack
    <2>3. draft' \in Texts
      BY <1>43, Members DEF Single, FallBack
    <2>4. text' \in Texts
      BY <1>43, Members DEF Single, FallBack, DraftAndNotes
    <2>5. left' \in 0 .. Enabled
      BY <1>43, Members DEF Single, FallBack
    <2>6. blank' \in BOOLEAN /\ fellBack' \in BOOLEAN /\ alone' \in BOOLEAN
      BY <1>43, Members DEF Single, FallBack
    <2>7. calls' \in Nat /\ spent' \in Nat /\ used' \in Nat /\ total' \in Nat
      BY <1>43, Members DEF Single, FallBack
    <2>8. outcome' \in Outcomes
      BY <1>43, Members DEF Single, FallBack
    <2> HIDE DEF Reply, Bill, GoTo, End, Finish, work
    <2> QED
      BY <2>1, <2>2, <2>3, <2>4, <2>5, <2>6, <2>7, <2>8
  <1>44. CASE SingleFails
    <2>1. ask' \in Questions /\ source' \in SourceKinds
      BY <1>44, Members DEF SingleFails, FallBack, Trouble, Fits
    <2>2. stage' \in Stages /\ turn' \in 1 .. 4 /\ asking' \in 1 .. 3
      BY <1>44, Members DEF SingleFails, FallBack, Trouble, Fits
    <2>3. draft' \in Texts
      BY <1>44, Members DEF SingleFails, FallBack, Trouble, Fits
    <2>4. text' \in Texts
      BY <1>44, Members DEF SingleFails, FallBack, DraftAndNotes, Trouble, Fits
    <2>5. left' \in 0 .. Enabled
      BY <1>44, Members DEF SingleFails, FallBack, Trouble, Fits
    <2>6. blank' \in BOOLEAN /\ fellBack' \in BOOLEAN /\ alone' \in BOOLEAN
      BY <1>44, Members DEF SingleFails, FallBack, Trouble, Fits
    <2>7. calls' \in Nat /\ spent' \in Nat /\ used' \in Nat /\ total' \in Nat
      BY <1>44, Members DEF SingleFails, FallBack, Trouble, Fits
    <2>8. outcome' \in Outcomes
      BY <1>44, Members DEF SingleFails, FallBack, Trouble, Fits
    <2> HIDE DEF Reply, Bill, GoTo, End, Finish, work
    <2> QED
      BY <2>1, <2>2, <2>3, <2>4, <2>5, <2>6, <2>7, <2>8
  <1>45. CASE Abandon
    BY <1>45, Members, FallBackFacts, TroubleFacts DEF Abandon
  <1>46. CASE Verify
    <2>1. ask' \in Questions /\ source' \in SourceKinds
      BY <1>46, Members DEF Verify, FallBack, Trouble, Fits
    <2>2. stage' \in Stages /\ turn' \in 1 .. 4 /\ asking' \in 1 .. 3
      BY <1>46, Members DEF Verify, FallBack, Trouble, Fits
    <2>3. draft' \in Texts
      BY <1>46, Members DEF Verify, FallBack, Trouble, Fits
    <2>4. text' \in Texts
      BY <1>46, Members DEF Verify, FallBack, DraftAndNotes, Trouble, Fits
    <2>5. left' \in 0 .. Enabled
      BY <1>46, Members DEF Verify, FallBack, Trouble, Fits
    <2>6. blank' \in BOOLEAN /\ fellBack' \in BOOLEAN /\ alone' \in BOOLEAN
      BY <1>46, Members DEF Verify, FallBack, Trouble, Fits
    <2>7. calls' \in Nat /\ spent' \in Nat /\ used' \in Nat /\ total' \in Nat
      BY <1>46, Members DEF Verify, FallBack, Trouble, Fits
    <2>8. outcome' \in Outcomes
      BY <1>46, Members DEF Verify, FallBack, Trouble, Fits
    <2> HIDE DEF Reply, Bill, GoTo, End, Finish, work
    <2> QED
      BY <2>1, <2>2, <2>3, <2>4, <2>5, <2>6, <2>7, <2>8
  <1>47. CASE Propose
    BY <1>47, Members, FallBackFacts, TroubleFacts DEF Propose
  <1>48. CASE ProposeFails
    BY <1>48, Members, FallBackFacts, TroubleFacts DEF ProposeFails
  <1> QED
    BY <1>1, <1>2, <1>3, <1>4, <1>5, <1>6, <1>7, <1>8, <1>9, <1>10, <1>11, <1>12, <1>13,
       <1>14, <1>15, <1>16, <1>17, <1>18, <1>19, <1>20, <1>21, <1>22, <1>23, <1>24, <1>25,
       <1>26, <1>27, <1>28, <1>29, <1>30, <1>31, <1>32, <1>33, <1>34, <1>35, <1>36, <1>37,
       <1>38, <1>39, <1>40, <1>41, <1>42, <1>43, <1>44, <1>45, <1>46, <1>47,
       <1>48
       DEF Next, Critique, Debate, Council, Consensus, Retrieval, Alone

\* A question stays in its mode's stages until it is on the single-answer path.
LEMMA PlaceStep ==
  ASSUME TypeOK, PlaceInv, Next
  PROVE  PlaceInv'
  <1> USE DEF Reply, Bill, GoTo, TryNext, End, FallBack, Finish, Trouble, TrySource, work, retrieving,
          PlaceInv, CritiqueStages, DebateStages, CouncilStages, ConsensusStages,
          LookingStages
  <1>1. CASE Ask
    <2>1. /\ alone' \in BOOLEAN
          /\ alone' => /\ ask.mode # "retrieval"
                       /\ \/ stage' = "single"
                          \/ stage' = "tools" /\ ask.tools /\ left > 0
          /\ ~alone' => stage' = FirstStage(ask) /\ ask.mode # "single"
          /\ ask.tools => ask.mode = "single"
      BY <1>1 DEF Ask, OneProviderDoesAll
    <2>2. ask.mode \in Modes
      BY DEF TypeOK, Questions
    <2>3. ask' = ask /\ outcome' = outcome /\ stage = "asked" /\ left' = left
      BY <1>1 DEF Ask
    <2>4. CASE alone'
      BY <2>1, <2>3, <2>4
    <2>5. CASE ~alone'
      <3>1. ~ask.tools
        BY <2>1, <2>5
      <3> QED
        BY <2>1, <2>2, <2>3, <2>5, <3>1 DEF FirstStage, Modes
    <2> QED
      BY <2>4, <2>5
  <1>2. CASE TurnAway
    BY <1>2 DEF TurnAway
  <1>3. CASE Repair
    BY <1>3 DEF Repair
  <1>4. CASE Draft
    BY <1>4 DEF Draft
  <1>5. CASE DraftAgain
    BY <1>5 DEF DraftAgain
  <1>6. CASE Critic
    BY <1>6 DEF Critic
  <1>7. CASE CriticAgain
    BY <1>7 DEF CriticAgain
  <1>8. CASE Refine
    BY <1>8 DEF Refine
  <1>9. CASE Rewrite
    BY <1>9 DEF Rewrite
  <1>10. CASE Rescue
    BY <1>10 DEF Rescue
  <1>11. CASE RefineStream
    BY <1>11 DEF RefineStream
  <1>12. CASE DraftFails
    BY <1>12 DEF DraftFails
  <1>13. CASE CriticFails
    BY <1>13 DEF CriticFails
  <1>14. CASE RefineFails
    BY <1>14 DEF RefineFails
  <1>15. CASE RefineStreamFails
    BY <1>15 DEF RefineStreamFails
  <1>16. CASE OpenA
    BY <1>16 DEF OpenA
  <1>17. CASE OpenB
    BY <1>17 DEF OpenB
  <1>18. CASE CloseA
    BY <1>18 DEF CloseA
  <1>19. CASE CloseB
    BY <1>19 DEF CloseB
  <1>20. CASE Judge
    BY <1>20 DEF Judge
  <1>21. CASE Synthesize
    BY <1>21 DEF Synthesize
  <1>22. CASE Resynthesize
    BY <1>22 DEF Resynthesize
  <1>23. CASE DebateFails
    BY <1>23 DEF DebateFails
  <1>24. CASE Specialist
    BY <1>24 DEF Specialist
  <1>25. CASE Combine
    BY <1>25 DEF Combine
  <1>26. CASE CouncilFails
    BY <1>26 DEF CouncilFails
  <1>27. CASE Poll
    BY <1>27 DEF Poll
  <1>28. CASE PollEmpty
    BY <1>28 DEF PollEmpty
  <1>29. CASE Search
    BY <1>29 DEF Search
  <1>30. CASE Adjudicate
    BY <1>30 DEF Adjudicate
  <1>31. CASE AdjudicationFails
    BY <1>31 DEF AdjudicationFails
  <1>32. CASE Pages
    BY <1>32 DEF Pages
  <1>33. CASE TimeSource
    BY <1>33 DEF TimeSource
  <1>34. CASE FinanceSource
    BY <1>34 DEF FinanceSource
  <1>35. CASE SportsSource
    BY <1>35 DEF SportsSource
  <1>36. CASE WebSearch
    BY <1>36 DEF WebSearch
  <1>37. CASE WeatherSource
    BY <1>37 DEF WeatherSource
  <1>38. CASE Unsourced
    BY <1>38 DEF Unsourced
  <1>39. CASE Rendered
    BY <1>39 DEF Rendered
  <1>40. CASE Compose
    BY <1>40 DEF Compose
  <1>41. CASE Ground
    BY <1>41 DEF Ground
  <1>42. CASE GroundFails
    BY <1>42 DEF GroundFails
  <1>43. CASE Single
    BY <1>43 DEF Single
  <1>44. CASE SingleFails
    BY <1>44 DEF SingleFails
  <1>45. CASE Abandon
    BY <1>45 DEF Abandon
  <1>46. CASE Verify
    BY <1>46 DEF Verify, Unfit
  <1>47. CASE Propose
    BY <1>47 DEF Propose
  <1>48. CASE ProposeFails
    BY <1>48 DEF ProposeFails
  <1> QED
    BY <1>1, <1>2, <1>3, <1>4, <1>5, <1>6, <1>7, <1>8, <1>9, <1>10, <1>11, <1>12, <1>13,
       <1>14, <1>15, <1>16, <1>17, <1>18, <1>19, <1>20, <1>21, <1>22, <1>23, <1>24, <1>25,
       <1>26, <1>27, <1>28, <1>29, <1>30, <1>31, <1>32, <1>33, <1>34, <1>35, <1>36, <1>37,
       <1>38, <1>39, <1>40, <1>41, <1>42, <1>43, <1>44, <1>45, <1>46, <1>47,
       <1>48
       DEF Next, Critique, Debate, Council, Consensus, Retrieval, Alone

\* How many calls may follow from each stage.
LEMMA RoomTable ==
  ASSUME NEW s, NEW t, NEW a, NEW l, NEW way
  PROVE  /\ s = "ended" => Room(s, t, a, l, way) = 0
         /\ s = "tools" => Room(s, t, a, l, way) = 4 * l + 2 - a
         /\ s = "single" => Room(s, t, a, l, way) =
                               IF way = "tools" /\ l > 0 THEN 4 * l - 2 ELSE l + 1
         /\ s = "verify" => Room(s, t, a, l, way) = Tail(way)
         /\ s = "poll" => Room(s, t, a, l, way) = Enabled + 3 + Tail(way)
         /\ s = "search" => Room(s, t, a, l, way) = 3 + Tail(way)
         /\ s \in LookingStages \cup {"ground"} => Room(s, t, a, l, way) = 2
         /\ s = "draft" => Room(s, t, a, l, way) = 3 * 7 + 1 - a + Tail(way)
         /\ s = "draftAgain" => Room(s, t, a, l, way) = 3 * 6 + 1 - a + Tail(way)
         /\ s = "critic" => Room(s, t, a, l, way) = 3 * 5 + 1 - a + Tail(way)
         /\ s = "criticAgain" => Room(s, t, a, l, way) = 3 * 4 + 1 - a + Tail(way)
         /\ s = "refine" => Room(s, t, a, l, way) = 3 * 3 + 1 - a + Tail(way)
         /\ s = "rewrite" => Room(s, t, a, l, way) = 3 * 2 + 1 - a + Tail(way)
         /\ s = "rescue" => Room(s, t, a, l, way) = 3 * 1 + 1 - a + Tail(way)
         /\ s = "refineStream" => Room(s, t, a, l, way) = 3 * 1 + 1 - a + Tail(way)
         /\ s = "openA" => Room(s, t, a, l, way) = 3 * (11 - t) + 1 - a + Tail(way)
         /\ s = "openB" => Room(s, t, a, l, way) = 3 * (9 - t) + 1 - a + Tail(way)
         /\ s = "closeA" => Room(s, t, a, l, way) = 3 * 5 + 1 - a + Tail(way)
         /\ s = "closeB" => Room(s, t, a, l, way) = 3 * 4 + 1 - a + Tail(way)
         /\ s = "judge" => Room(s, t, a, l, way) = 3 * 3 + 1 - a + Tail(way)
         /\ s = "synthesize" => Room(s, t, a, l, way) = 3 * 2 + 1 - a + Tail(way)
         /\ s = "resynthesize" => Room(s, t, a, l, way) = 3 * 1 + 1 - a + Tail(way)
         /\ s = "specialist" => Room(s, t, a, l, way) = 3 * (6 - t) + 1 - a + Tail(way)
         /\ s = "combine" => Room(s, t, a, l, way) = 3 * 1 + 1 - a + Tail(way)
         /\ s = "adjudicate" => Room(s, t, a, l, way) = 3 * 1 + 1 - a + Tail(way)
  BY DEF Room, Rounds, LookingStages

\* A debater has no more attempts than its stage allows.
LEMMA TurnStep ==
  ASSUME TypeOK, TurnInv, Next
  PROVE  TurnInv'
  <1> USE DEF Reply, Bill, GoTo, TryNext, End, FallBack, Finish, Trouble, TrySource, work, retrieving,
          TurnInv
  <1>1. CASE Ask
    BY <1>1 DEF Ask
  <1>2. CASE TurnAway
    BY <1>2 DEF TurnAway
  <1>3. CASE Repair
    BY <1>3 DEF Repair
  <1>4. CASE Draft
    BY <1>4 DEF Draft
  <1>5. CASE DraftAgain
    BY <1>5 DEF DraftAgain
  <1>6. CASE Critic
    BY <1>6 DEF Critic
  <1>7. CASE CriticAgain
    BY <1>7 DEF CriticAgain
  <1>8. CASE Refine
    BY <1>8 DEF Refine
  <1>9. CASE Rewrite
    BY <1>9 DEF Rewrite
  <1>10. CASE Rescue
    BY <1>10 DEF Rescue
  <1>11. CASE RefineStream
    BY <1>11 DEF RefineStream
  <1>12. CASE DraftFails
    BY <1>12 DEF DraftFails
  <1>13. CASE CriticFails
    BY <1>13 DEF CriticFails
  <1>14. CASE RefineFails
    BY <1>14 DEF RefineFails
  <1>15. CASE RefineStreamFails
    BY <1>15 DEF RefineStreamFails
  <1>16. CASE OpenA
    <2>1. turn \in 1 .. 4
      BY DEF TypeOK
    <2> QED
      BY <1>16, <2>1 DEF OpenA
  <1>17. CASE OpenB
    <2>1. turn \in 1 .. 4
      BY DEF TypeOK
    <2> QED
      BY <1>17, <2>1 DEF OpenB
  <1>18. CASE CloseA
    BY <1>18 DEF CloseA
  <1>19. CASE CloseB
    BY <1>19 DEF CloseB
  <1>20. CASE Judge
    BY <1>20 DEF Judge
  <1>21. CASE Synthesize
    BY <1>21 DEF Synthesize
  <1>22. CASE Resynthesize
    BY <1>22 DEF Resynthesize
  <1>23. CASE DebateFails
    BY <1>23 DEF DebateFails
  <1>24. CASE Specialist
    BY <1>24 DEF Specialist
  <1>25. CASE Combine
    BY <1>25 DEF Combine
  <1>26. CASE CouncilFails
    BY <1>26 DEF CouncilFails
  <1>27. CASE Poll
    BY <1>27 DEF Poll
  <1>28. CASE PollEmpty
    BY <1>28 DEF PollEmpty
  <1>29. CASE Search
    BY <1>29 DEF Search
  <1>30. CASE Adjudicate
    BY <1>30 DEF Adjudicate
  <1>31. CASE AdjudicationFails
    BY <1>31 DEF AdjudicationFails
  <1>32. CASE Pages
    BY <1>32 DEF Pages
  <1>33. CASE TimeSource
    BY <1>33 DEF TimeSource
  <1>34. CASE FinanceSource
    BY <1>34 DEF FinanceSource
  <1>35. CASE SportsSource
    BY <1>35 DEF SportsSource
  <1>36. CASE WebSearch
    BY <1>36 DEF WebSearch
  <1>37. CASE WeatherSource
    BY <1>37 DEF WeatherSource
  <1>38. CASE Unsourced
    BY <1>38 DEF Unsourced
  <1>39. CASE Rendered
    BY <1>39 DEF Rendered
  <1>40. CASE Compose
    BY <1>40 DEF Compose
  <1>41. CASE Ground
    BY <1>41 DEF Ground
  <1>42. CASE GroundFails
    BY <1>42 DEF GroundFails
  <1>43. CASE Single
    BY <1>43 DEF Single
  <1>44. CASE SingleFails
    BY <1>44 DEF SingleFails
  <1>45. CASE Abandon
    BY <1>45 DEF Abandon
  <1>46. CASE Verify
    BY <1>46 DEF Verify
  <1>47. CASE Propose
    BY <1>47 DEF Propose
  <1>48. CASE ProposeFails
    BY <1>48 DEF ProposeFails
  <1> QED
    BY <1>1, <1>2, <1>3, <1>4, <1>5, <1>6, <1>7, <1>8, <1>9, <1>10, <1>11, <1>12, <1>13,
       <1>14, <1>15, <1>16, <1>17, <1>18, <1>19, <1>20, <1>21, <1>22, <1>23, <1>24, <1>25,
       <1>26, <1>27, <1>28, <1>29, <1>30, <1>31, <1>32, <1>33, <1>34, <1>35, <1>36, <1>37,
       <1>38, <1>39, <1>40, <1>41, <1>42, <1>43, <1>44, <1>45, <1>46, <1>47,
       <1>48
       DEF Next, Critique, Debate, Council, Consensus, Retrieval, Alone

\* After a workflow, a fact check and a single answer may follow.
LEMMA TailFacts ==
  /\ Tail("critique") = Enabled + 2 /\ Tail("debate") = Enabled + 2
  /\ Tail("council") = Enabled + 1 /\ Tail("consensus") = Enabled + 1
  /\ Tail("retrieval") = 1 /\ Tail("single") = 1 /\ Tail("tools") = 1
  /\ \A way : Tail(way) \in Nat /\ Tail(way) >= 1
  BY EnabledAssumption DEF Tail

\* A structured call that is asked for again takes from the room of its stage.
LEMMA RoomStructured ==
  ASSUME NEW s \in Structured \ {"tools"}, NEW t \in 1 .. 4, NEW a, NEW l, NEW way
  PROVE  /\ Room(s, t, a, l, way) = 3 * Rounds(s, t) + 1 - a + Tail(way)
         /\ Rounds(s, t) \in Nat
  BY DEF Structured, Room, Rounds, LookingStages

\* No step makes more calls than it gives up room for.
LEMMA RoomStep ==
  ASSUME TypeOK, PlaceInv, TurnInv, Next
  PROVE  stage # "asked" => calls' + RoomLeft' <= calls + RoomLeft
  <1> DEFINE Fewer == calls' + RoomLeft' <= calls + RoomLeft
  <1> SUFFICES ASSUME stage # "asked"
               PROVE  Fewer
    OBVIOUS
  <1>0. /\ asking \in 1 .. 3 /\ turn \in 1 .. 4 /\ left \in 0 .. Enabled
        /\ calls \in Nat /\ Enabled \in Nat /\ Enabled > 0
    BY EnabledAssumption DEF TypeOK
  <1> USE DEF Reply, Bill, GoTo, TryNext, End, FallBack, Finish, Trouble, TrySource, work, retrieving,
          PlaceInv, TurnInv, RoomLeft, Way, CritiqueStages, DebateStages, CouncilStages,
          ConsensusStages, LookingStages
  <1>1. CASE Ask
    BY <1>1, <1>0, RoomTable, TailFacts DEF Ask
  <1>2. CASE TurnAway
    BY <1>2, <1>0, RoomTable, TailFacts DEF TurnAway
  <1>3. CASE Repair
    <2>1. stage \in Structured /\ calls' = calls + 1 /\ asking' = asking + 1
          /\ stage' = stage /\ turn' = turn /\ Way' = Way /\ left' = left
      BY <1>3 DEF Repair
    <2>2. CASE stage # "tools"
      <3>1. RoomLeft = 3 * Rounds(stage, turn) + 1 - asking + Tail(Way)
        BY <1>0, <2>1, <2>2, RoomStructured
      <3>2. RoomLeft' = 3 * Rounds(stage, turn) + 1 - (asking + 1) + Tail(Way)
        BY <1>0, <2>1, <2>2, RoomStructured
      <3>3. Rounds(stage, turn) \in Nat /\ Tail(Way) \in Nat
        BY <1>0, <2>1, <2>2, RoomStructured, TailFacts
      <3> HIDE DEF RoomLeft
      <3> QED
        BY <1>0, <2>1, <3>1, <3>2, <3>3
    <2>3. CASE stage = "tools"
      <3>1. RoomLeft = 4 * left + 2 - asking
        BY <2>3, RoomTable
      <3>2. RoomLeft' = 4 * left + 2 - (asking + 1)
        BY <2>1, <2>3, RoomTable
      <3> HIDE DEF RoomLeft
      <3> QED
        BY <1>0, <2>1, <3>1, <3>2
    <2> QED
      BY <2>2, <2>3
  <1>4. CASE Draft
    BY <1>4, <1>0, RoomTable, TailFacts DEF Draft
  <1>5. CASE DraftAgain
    BY <1>5, <1>0, RoomTable, TailFacts DEF DraftAgain
  <1>6. CASE Critic
    BY <1>6, <1>0, RoomTable, TailFacts DEF Critic
  <1>7. CASE CriticAgain
    BY <1>7, <1>0, RoomTable, TailFacts DEF CriticAgain
  <1>8. CASE Refine
    BY <1>8, <1>0, RoomTable, TailFacts DEF Refine
  <1>9. CASE Rewrite
    BY <1>9, <1>0, RoomTable, TailFacts DEF Rewrite
  <1>10. CASE Rescue
    BY <1>10, <1>0, RoomTable, TailFacts DEF Rescue
  <1>11. CASE RefineStream
    BY <1>11, <1>0, RoomTable, TailFacts DEF RefineStream
  <1>12. CASE DraftFails
    BY <1>12, <1>0, RoomTable, TailFacts DEF DraftFails
  <1>13. CASE CriticFails
    BY <1>13, <1>0, RoomTable, TailFacts DEF CriticFails
  <1>14. CASE RefineFails
    BY <1>14, <1>0, RoomTable, TailFacts DEF RefineFails
  <1>15. CASE RefineStreamFails
    BY <1>15, <1>0, RoomTable, TailFacts DEF RefineStreamFails
  <1>16. CASE OpenA
    BY <1>16, <1>0, RoomTable, TailFacts DEF OpenA
  <1>17. CASE OpenB
    BY <1>17, <1>0, RoomTable, TailFacts DEF OpenB
  <1>18. CASE CloseA
    BY <1>18, <1>0, RoomTable, TailFacts DEF CloseA
  <1>19. CASE CloseB
    BY <1>19, <1>0, RoomTable, TailFacts DEF CloseB
  <1>20. CASE Judge
    BY <1>20, <1>0, RoomTable, TailFacts DEF Judge
  <1>21. CASE Synthesize
    BY <1>21, <1>0, RoomTable, TailFacts DEF Synthesize
  <1>22. CASE Resynthesize
    BY <1>22, <1>0, RoomTable, TailFacts DEF Resynthesize
  <1>23. CASE DebateFails
    <2>1. RoomLeft >= Enabled + 2
      BY <1>23, <1>0, RoomTable, TailFacts DEF DebateFails
    <2>2. RoomLeft \in Nat
      BY <1>23, <1>0, RoomTable, TailFacts DEF DebateFails
    <2>3. calls' = calls \/ calls' = calls + 1
      BY <1>23 DEF DebateFails, Trouble
    <2>4. RoomLeft' = Enabled + 1
      BY <1>23, FallBackFacts, RoomTable DEF DebateFails
    <2> HIDE DEF RoomLeft
    <2> QED
      BY <1>0, <2>1, <2>2, <2>3, <2>4
  <1>24. CASE Specialist
    BY <1>24, <1>0, RoomTable, TailFacts DEF Specialist
  <1>25. CASE Combine
    BY <1>25, <1>0, RoomTable, TailFacts DEF Combine
  <1>26. CASE CouncilFails
    <2>1. RoomLeft >= Enabled + 2
      BY <1>26, <1>0, RoomTable, TailFacts DEF CouncilFails
    <2>2. RoomLeft \in Nat
      BY <1>26, <1>0, RoomTable, TailFacts DEF CouncilFails
    <2>3. calls' = calls \/ calls' = calls + 1
      BY <1>26 DEF CouncilFails, Trouble
    <2>4. RoomLeft' = Enabled + 1
      BY <1>26, FallBackFacts, RoomTable DEF CouncilFails
    <2> HIDE DEF RoomLeft
    <2> QED
      BY <1>0, <2>1, <2>2, <2>3, <2>4
  <1>27. CASE Poll
    BY <1>27, <1>0, RoomTable, TailFacts DEF Poll
  <1>28. CASE PollEmpty
    <2>1. PICK n \in 1 .. Enabled : calls' = calls + n
      BY <1>28 DEF PollEmpty
    <2>2. RoomLeft = Enabled + 3 + (Enabled + 1)
      <3>1. stage = "poll" /\ Way = "consensus"
        BY <1>28 DEF PollEmpty
      <3> QED
        BY <3>1, <1>0, RoomTable, TailFacts
    <2>3. RoomLeft' = Enabled + 1
      BY <1>28, FallBackFacts, RoomTable DEF PollEmpty
    <2> HIDE DEF RoomLeft
    <2> QED
      BY <1>0, <2>1, <2>2, <2>3
  <1>29. CASE Search
    BY <1>29, <1>0, RoomTable, TailFacts DEF Search
  <1>30. CASE Adjudicate
    BY <1>30, <1>0, RoomTable, TailFacts DEF Adjudicate
  <1>31. CASE AdjudicationFails
    <2>1. RoomLeft >= Enabled + 2
      BY <1>31, <1>0, RoomTable, TailFacts DEF AdjudicationFails
    <2>2. RoomLeft \in Nat
      BY <1>31, <1>0, RoomTable, TailFacts DEF AdjudicationFails
    <2>3. calls' = calls \/ calls' = calls + 1
      BY <1>31 DEF AdjudicationFails, Trouble
    <2>4. RoomLeft' = Enabled + 1
      BY <1>31, FallBackFacts, RoomTable DEF AdjudicationFails
    <2> HIDE DEF RoomLeft
    <2> QED
      BY <1>0, <2>1, <2>2, <2>3, <2>4
  <1>32. CASE Pages
    BY <1>32, <1>0, RoomTable, TailFacts DEF Pages
  <1>33. CASE TimeSource
    BY <1>33, <1>0, RoomTable, TailFacts DEF TimeSource
  <1>34. CASE FinanceSource
    BY <1>34, <1>0, RoomTable, TailFacts DEF FinanceSource
  <1>35. CASE SportsSource
    BY <1>35, <1>0, RoomTable, TailFacts DEF SportsSource
  <1>36. CASE WebSearch
    BY <1>36, <1>0, RoomTable, TailFacts DEF WebSearch
  <1>37. CASE WeatherSource
    BY <1>37, <1>0, RoomTable, TailFacts DEF WeatherSource
  <1>38. CASE Unsourced
    BY <1>38, <1>0, RoomTable, TailFacts DEF Unsourced
  <1>39. CASE Rendered
    BY <1>39, <1>0, RoomTable, TailFacts DEF Rendered
  <1>40. CASE Compose
    BY <1>40, <1>0, RoomTable, TailFacts DEF Compose
  <1>41. CASE Ground
    BY <1>41, <1>0, RoomTable, TailFacts DEF Ground
  <1>42. CASE GroundFails
    BY <1>42, <1>0, RoomTable, TailFacts DEF GroundFails
  <1>43. CASE Single
    <2>1. RoomLeft = (IF ask.tools THEN 4 * left - 2 ELSE left + 1) /\ alone /\ left > 0
      BY <1>43, RoomTable DEF Single
    <2>2. calls' = calls + 1 /\ alone' = alone /\ ask' = ask
      BY <1>43 DEF Single
    <2>3. \/ stage' = "verify"
          \/ ask.tools /\ left - 1 > 0 /\ stage' = "tools" /\ left' = left - 1
          \/ ~(ask.tools /\ left - 1 > 0) /\ stage' = "single" /\ left' = left - 1
      BY <1>43 DEF Single
    <2>4. CASE stage' = "verify"
      <3>1. RoomLeft' = 1
        BY <2>1, <2>2, <2>4, RoomTable, TailFacts
      <3> HIDE DEF RoomLeft
      <3> QED
        BY <1>0, <2>1, <2>2, <3>1
    <2>5. CASE ask.tools /\ left - 1 > 0 /\ stage' = "tools" /\ left' = left - 1
      <3>1. RoomLeft' = 4 * (left - 1) + 2 - asking'
        BY <2>5, RoomTable
      <3>2. asking' = asking
        BY <1>43 DEF Single
      <3> HIDE DEF RoomLeft
      <3> QED
        BY <1>0, <2>1, <2>2, <2>5, <3>1, <3>2
    <2>6. CASE ~(ask.tools /\ left - 1 > 0) /\ stage' = "single" /\ left' = left - 1
      <3>1. RoomLeft' = (left - 1) + 1
        BY <1>0, <2>1, <2>2, <2>6, RoomTable
      <3> HIDE DEF RoomLeft
      <3> QED
        BY <1>0, <2>1, <2>2, <2>6, <3>1
    <2> QED
      BY <2>3, <2>4, <2>5, <2>6
  <1>44. CASE SingleFails
    <2>1. /\ RoomLeft = IF ask.tools /\ left > 0 THEN 4 * left - 2 ELSE left + 1
          /\ alone' = alone /\ ask' = ask /\ alone
      BY <1>44, RoomTable DEF SingleFails
    <2>2. \/ ask.tools /\ left - 1 > 0 /\ stage' = "tools" /\ left' = left - 1 /\ calls' = calls
             /\ asking' = asking
          \/ ~(ask.tools /\ left - 1 > 0) /\ stage' = "single" /\ left' = left - 1
             /\ calls' = calls /\ left > 0
          \/ stage' = "ended" /\ calls' \in {calls, calls + 1} /\ left > 0
          \/ stage' = "ended" /\ calls' = calls
      BY <1>44 DEF SingleFails
    <2>3. stage' = "single" /\ ~(ask.tools /\ left' > 0) => RoomLeft' = left' + 1
      BY <2>1, RoomTable
    <2>4. stage' = "ended" => RoomLeft' = 0
      BY RoomTable
    <2>5. stage' = "tools" => RoomLeft' = 4 * left' + 2 - asking'
      BY RoomTable
    <2> HIDE DEF RoomLeft
    <2> QED
      BY <1>0, <2>1, <2>2, <2>3, <2>4, <2>5
  <1>45. CASE Abandon
    BY <1>45, <1>0, RoomTable, TailFacts DEF Abandon
  <1>46. CASE Verify
    <2>1. calls' = calls \/ calls' = calls + 1
      BY <1>46, <1>0 DEF Verify
    <2>2. CASE text \in Unfit
      <3>1. ~alone /\ ask.mode \in {"critique", "debate"}
        BY <2>2 DEF Unfit
      <3>2. RoomLeft = Enabled + 2
        BY <1>46, <3>1, RoomTable, TailFacts DEF Verify
      <3>3. RoomLeft' = Enabled + 1
        <4>1. ~ask.tools /\ ask' = ask
          BY <1>46, <3>1 DEF Verify
        <4>2. stage' = "single" /\ left' = Enabled /\ alone'
          BY <1>46, <2>2, FallBackFacts DEF Verify
        <4> QED
          BY <4>1, <4>2, RoomTable
      <3> HIDE DEF RoomLeft
      <3> QED
        BY <1>0, <2>1, <3>2, <3>3
    <2>3. CASE text \notin Unfit
      <3>1. RoomLeft >= 1 /\ RoomLeft \in Nat
        <4>1. CASE alone
          BY <1>46, <4>1, RoomTable, TailFacts DEF Verify
        <4>2. CASE ~alone
          BY <1>46, <4>2, RoomTable, TailFacts DEF Verify
        <4> QED
          BY <4>1, <4>2
      <3>2. RoomLeft' = 0
        BY <1>46, <2>3, RoomTable DEF Verify
      <3> HIDE DEF RoomLeft
      <3> QED
        BY <1>0, <2>1, <3>1, <3>2
    <2> QED
      BY <2>2, <2>3
  <1>47. CASE Propose
    BY <1>47, <1>0, RoomTable, TailFacts DEF Propose
  <1>48. CASE ProposeFails
    BY <1>48, <1>0, RoomTable, TailFacts DEF ProposeFails
  <1> QED
    BY <1>1, <1>2, <1>3, <1>4, <1>5, <1>6, <1>7, <1>8, <1>9, <1>10, <1>11, <1>12, <1>13,
       <1>14, <1>15, <1>16, <1>17, <1>18, <1>19, <1>20, <1>21, <1>22, <1>23, <1>24, <1>25,
       <1>26, <1>27, <1>28, <1>29, <1>30, <1>31, <1>32, <1>33, <1>34, <1>35, <1>36, <1>37,
       <1>38, <1>39, <1>40, <1>41, <1>42, <1>43, <1>44, <1>45, <1>46, <1>47,
       <1>48
       DEF Next, Critique, Debate, Council, Consensus, Retrieval, Alone

\* The question stays the same, and one that has ended takes no step.
LEMMA KeptStep ==
  ASSUME Next
  PROVE  ask' = ask /\ stage # "ended"
  <1> USE DEF Reply, Bill, GoTo, TryNext, End, FallBack, Finish, Trouble, TrySource, work, retrieving,
          Structured
  <1>1. CASE Ask
    BY <1>1 DEF Ask
  <1>2. CASE TurnAway
    BY <1>2 DEF TurnAway
  <1>3. CASE Repair
    BY <1>3 DEF Repair
  <1>4. CASE Draft
    BY <1>4 DEF Draft
  <1>5. CASE DraftAgain
    BY <1>5 DEF DraftAgain
  <1>6. CASE Critic
    BY <1>6 DEF Critic
  <1>7. CASE CriticAgain
    BY <1>7 DEF CriticAgain
  <1>8. CASE Refine
    BY <1>8 DEF Refine
  <1>9. CASE Rewrite
    BY <1>9 DEF Rewrite
  <1>10. CASE Rescue
    BY <1>10 DEF Rescue
  <1>11. CASE RefineStream
    BY <1>11 DEF RefineStream
  <1>12. CASE DraftFails
    BY <1>12 DEF DraftFails
  <1>13. CASE CriticFails
    BY <1>13 DEF CriticFails
  <1>14. CASE RefineFails
    BY <1>14 DEF RefineFails
  <1>15. CASE RefineStreamFails
    BY <1>15 DEF RefineStreamFails
  <1>16. CASE OpenA
    BY <1>16 DEF OpenA
  <1>17. CASE OpenB
    BY <1>17 DEF OpenB
  <1>18. CASE CloseA
    BY <1>18 DEF CloseA
  <1>19. CASE CloseB
    BY <1>19 DEF CloseB
  <1>20. CASE Judge
    BY <1>20 DEF Judge
  <1>21. CASE Synthesize
    BY <1>21 DEF Synthesize
  <1>22. CASE Resynthesize
    BY <1>22 DEF Resynthesize
  <1>23. CASE DebateFails
    BY <1>23 DEF DebateFails
  <1>24. CASE Specialist
    BY <1>24 DEF Specialist
  <1>25. CASE Combine
    BY <1>25 DEF Combine
  <1>26. CASE CouncilFails
    BY <1>26 DEF CouncilFails
  <1>27. CASE Poll
    BY <1>27 DEF Poll
  <1>28. CASE PollEmpty
    BY <1>28 DEF PollEmpty
  <1>29. CASE Search
    BY <1>29 DEF Search
  <1>30. CASE Adjudicate
    BY <1>30 DEF Adjudicate
  <1>31. CASE AdjudicationFails
    BY <1>31 DEF AdjudicationFails
  <1>32. CASE Pages
    BY <1>32 DEF Pages
  <1>33. CASE TimeSource
    BY <1>33 DEF TimeSource
  <1>34. CASE FinanceSource
    BY <1>34 DEF FinanceSource
  <1>35. CASE SportsSource
    BY <1>35 DEF SportsSource
  <1>36. CASE WebSearch
    BY <1>36 DEF WebSearch
  <1>37. CASE WeatherSource
    BY <1>37 DEF WeatherSource
  <1>38. CASE Unsourced
    BY <1>38 DEF Unsourced
  <1>39. CASE Rendered
    BY <1>39 DEF Rendered
  <1>40. CASE Compose
    BY <1>40 DEF Compose
  <1>41. CASE Ground
    BY <1>41 DEF Ground
  <1>42. CASE GroundFails
    BY <1>42 DEF GroundFails
  <1>43. CASE Single
    BY <1>43 DEF Single
  <1>44. CASE SingleFails
    BY <1>44 DEF SingleFails
  <1>45. CASE Abandon
    BY <1>45 DEF Abandon
  <1>46. CASE Verify
    BY <1>46 DEF Verify
  <1>47. CASE Propose
    BY <1>47 DEF Propose
  <1>48. CASE ProposeFails
    BY <1>48 DEF ProposeFails
  <1> QED
    BY <1>1, <1>2, <1>3, <1>4, <1>5, <1>6, <1>7, <1>8, <1>9, <1>10, <1>11, <1>12, <1>13,
       <1>14, <1>15, <1>16, <1>17, <1>18, <1>19, <1>20, <1>21, <1>22, <1>23, <1>24, <1>25,
       <1>26, <1>27, <1>28, <1>29, <1>30, <1>31, <1>32, <1>33, <1>34, <1>35, <1>36, <1>37,
       <1>38, <1>39, <1>40, <1>41, <1>42, <1>43, <1>44, <1>45, <1>46, <1>47,
       <1>48
       DEF Next, Critique, Debate, Council, Consensus, Retrieval, Alone

\* A question is taken once.
LEMMA NeverAsked ==
  ASSUME TypeOK, PlaceInv, stage # "asked", Next
  PROVE  stage' # "asked"
  <1> USE DEF Reply, Bill, GoTo, TryNext, End, FallBack, Finish, Trouble, TrySource, work, retrieving,
          Structured
  <1>1. CASE Ask
    BY <1>1 DEF Ask
  <1>2. CASE TurnAway
    BY <1>2 DEF TurnAway
  <1>3. CASE Repair
    BY <1>3 DEF Repair
  <1>4. CASE Draft
    BY <1>4 DEF Draft
  <1>5. CASE DraftAgain
    BY <1>5 DEF DraftAgain
  <1>6. CASE Critic
    BY <1>6 DEF Critic
  <1>7. CASE CriticAgain
    BY <1>7 DEF CriticAgain
  <1>8. CASE Refine
    BY <1>8 DEF Refine
  <1>9. CASE Rewrite
    BY <1>9 DEF Rewrite
  <1>10. CASE Rescue
    BY <1>10 DEF Rescue
  <1>11. CASE RefineStream
    BY <1>11 DEF RefineStream
  <1>12. CASE DraftFails
    BY <1>12 DEF DraftFails
  <1>13. CASE CriticFails
    BY <1>13 DEF CriticFails
  <1>14. CASE RefineFails
    BY <1>14 DEF RefineFails
  <1>15. CASE RefineStreamFails
    BY <1>15 DEF RefineStreamFails
  <1>16. CASE OpenA
    BY <1>16 DEF OpenA
  <1>17. CASE OpenB
    BY <1>17 DEF OpenB
  <1>18. CASE CloseA
    BY <1>18 DEF CloseA
  <1>19. CASE CloseB
    BY <1>19 DEF CloseB
  <1>20. CASE Judge
    BY <1>20 DEF Judge
  <1>21. CASE Synthesize
    BY <1>21 DEF Synthesize
  <1>22. CASE Resynthesize
    BY <1>22 DEF Resynthesize
  <1>23. CASE DebateFails
    BY <1>23 DEF DebateFails
  <1>24. CASE Specialist
    BY <1>24 DEF Specialist
  <1>25. CASE Combine
    BY <1>25 DEF Combine
  <1>26. CASE CouncilFails
    BY <1>26 DEF CouncilFails
  <1>27. CASE Poll
    BY <1>27 DEF Poll
  <1>28. CASE PollEmpty
    BY <1>28 DEF PollEmpty
  <1>29. CASE Search
    BY <1>29 DEF Search
  <1>30. CASE Adjudicate
    BY <1>30 DEF Adjudicate
  <1>31. CASE AdjudicationFails
    BY <1>31 DEF AdjudicationFails
  <1>32. CASE Pages
    BY <1>32 DEF Pages
  <1>33. CASE TimeSource
    BY <1>33 DEF TimeSource
  <1>34. CASE FinanceSource
    BY <1>34 DEF FinanceSource
  <1>35. CASE SportsSource
    BY <1>35 DEF SportsSource
  <1>36. CASE WebSearch
    BY <1>36 DEF WebSearch
  <1>37. CASE WeatherSource
    BY <1>37 DEF WeatherSource
  <1>38. CASE Unsourced
    BY <1>38 DEF Unsourced
  <1>39. CASE Rendered
    BY <1>39 DEF Rendered
  <1>40. CASE Compose
    BY <1>40 DEF Compose
  <1>41. CASE Ground
    BY <1>41 DEF Ground
  <1>42. CASE GroundFails
    BY <1>42 DEF GroundFails
  <1>43. CASE Single
    BY <1>43 DEF Single
  <1>44. CASE SingleFails
    BY <1>44 DEF SingleFails
  <1>45. CASE Abandon
    BY <1>45 DEF Abandon
  <1>46. CASE Verify
    BY <1>46 DEF Verify
  <1>47. CASE Propose
    BY <1>47 DEF Propose
  <1>48. CASE ProposeFails
    BY <1>48 DEF ProposeFails
  <1> QED
    BY <1>1, <1>2, <1>3, <1>4, <1>5, <1>6, <1>7, <1>8, <1>9, <1>10, <1>11, <1>12, <1>13,
       <1>14, <1>15, <1>16, <1>17, <1>18, <1>19, <1>20, <1>21, <1>22, <1>23, <1>24, <1>25,
       <1>26, <1>27, <1>28, <1>29, <1>30, <1>31, <1>32, <1>33, <1>34, <1>35, <1>36, <1>37,
       <1>38, <1>39, <1>40, <1>41, <1>42, <1>43, <1>44, <1>45, <1>46, <1>47,
       <1>48
       DEF Next, Critique, Debate, Council, Consensus, Retrieval, Alone

\* A question that has just come is taken or turned away.
LEMMA OnlyAsk ==
  ASSUME PlaceInv, stage = "asked", Next
  PROVE  Ask \/ TurnAway
  <1> USE DEF Reply, Bill, GoTo, TryNext, End, FallBack, Finish, Trouble, TrySource, work, retrieving,
          Structured
  <1>1. CASE Ask
    BY <1>1 DEF Ask
  <1>2. CASE TurnAway
    BY <1>2 DEF TurnAway
  <1>3. CASE Repair
    BY <1>3 DEF Repair
  <1>4. CASE Draft
    BY <1>4 DEF Draft
  <1>5. CASE DraftAgain
    BY <1>5 DEF DraftAgain
  <1>6. CASE Critic
    BY <1>6 DEF Critic
  <1>7. CASE CriticAgain
    BY <1>7 DEF CriticAgain
  <1>8. CASE Refine
    BY <1>8 DEF Refine
  <1>9. CASE Rewrite
    BY <1>9 DEF Rewrite
  <1>10. CASE Rescue
    BY <1>10 DEF Rescue
  <1>11. CASE RefineStream
    BY <1>11 DEF RefineStream
  <1>12. CASE DraftFails
    BY <1>12 DEF DraftFails
  <1>13. CASE CriticFails
    BY <1>13 DEF CriticFails
  <1>14. CASE RefineFails
    BY <1>14 DEF RefineFails
  <1>15. CASE RefineStreamFails
    BY <1>15 DEF RefineStreamFails
  <1>16. CASE OpenA
    BY <1>16 DEF OpenA
  <1>17. CASE OpenB
    BY <1>17 DEF OpenB
  <1>18. CASE CloseA
    BY <1>18 DEF CloseA
  <1>19. CASE CloseB
    BY <1>19 DEF CloseB
  <1>20. CASE Judge
    BY <1>20 DEF Judge
  <1>21. CASE Synthesize
    BY <1>21 DEF Synthesize
  <1>22. CASE Resynthesize
    BY <1>22 DEF Resynthesize
  <1>23. CASE DebateFails
    BY <1>23 DEF DebateFails
  <1>24. CASE Specialist
    BY <1>24 DEF Specialist
  <1>25. CASE Combine
    BY <1>25 DEF Combine
  <1>26. CASE CouncilFails
    BY <1>26 DEF CouncilFails
  <1>27. CASE Poll
    BY <1>27 DEF Poll
  <1>28. CASE PollEmpty
    BY <1>28 DEF PollEmpty
  <1>29. CASE Search
    BY <1>29 DEF Search
  <1>30. CASE Adjudicate
    BY <1>30 DEF Adjudicate
  <1>31. CASE AdjudicationFails
    BY <1>31 DEF AdjudicationFails
  <1>32. CASE Pages
    BY <1>32 DEF Pages
  <1>33. CASE TimeSource
    BY <1>33 DEF TimeSource
  <1>34. CASE FinanceSource
    BY <1>34 DEF FinanceSource
  <1>35. CASE SportsSource
    BY <1>35 DEF SportsSource
  <1>36. CASE WebSearch
    BY <1>36 DEF WebSearch
  <1>37. CASE WeatherSource
    BY <1>37 DEF WeatherSource
  <1>38. CASE Unsourced
    BY <1>38 DEF Unsourced
  <1>39. CASE Rendered
    BY <1>39 DEF Rendered
  <1>40. CASE Compose
    BY <1>40 DEF Compose
  <1>41. CASE Ground
    BY <1>41 DEF Ground
  <1>42. CASE GroundFails
    BY <1>42 DEF GroundFails
  <1>43. CASE Single
    BY <1>43 DEF Single
  <1>44. CASE SingleFails
    BY <1>44 DEF SingleFails
  <1>45. CASE Abandon
    BY <1>45 DEF Abandon
  <1>46. CASE Verify
    BY <1>46 DEF Verify
  <1>47. CASE Propose
    BY <1>47 DEF Propose
  <1>48. CASE ProposeFails
    BY <1>48 DEF ProposeFails
  <1> QED
    BY <1>1, <1>2, <1>3, <1>4, <1>5, <1>6, <1>7, <1>8, <1>9, <1>10, <1>11, <1>12, <1>13,
       <1>14, <1>15, <1>16, <1>17, <1>18, <1>19, <1>20, <1>21, <1>22, <1>23, <1>24, <1>25,
       <1>26, <1>27, <1>28, <1>29, <1>30, <1>31, <1>32, <1>33, <1>34, <1>35, <1>36, <1>37,
       <1>38, <1>39, <1>40, <1>41, <1>42, <1>43, <1>44, <1>45, <1>46, <1>47,
       <1>48
       DEF Next, Critique, Debate, Council, Consensus, Retrieval, Alone

\* Where a question goes first.
LEMMA AskStage ==
  ASSUME TypeOK, Ask
  PROVE  /\ stage' \in {"tools", "single", "draft", "openA", "poll", "specialist", "pages"}
         /\ alone' => stage' = IF ask.tools /\ left > 0 THEN "tools" ELSE "single"
         /\ ask.tools => ask.mode = "single"
         /\ ~alone' => stage' = FirstStage(ask) /\ ask.mode # "single"
         /\ ask.mode \in Modes /\ alone' \in BOOLEAN
         /\ turn' = 1 /\ asking' = asking /\ left' = left /\ calls' = calls
         /\ stage = "asked"
  <1>1. ask.mode \in Modes
    BY DEF TypeOK, Questions
  <1>2. /\ alone' \in BOOLEAN
        /\ alone' => stage' = IF ask.tools /\ left > 0 THEN "tools" ELSE "single"
        /\ ~alone' => stage' = FirstStage(ask) /\ ask.mode # "single"
    BY DEF Ask, OneProviderDoesAll, GoTo, TryNext
  <1>3. stage' \in {"tools", "single", "draft", "openA", "poll", "specialist", "pages"}
    BY <1>1, <1>2 DEF FirstStage, Modes
  <1> QED
    BY <1>1, <1>2, <1>3 DEF Ask, GoTo, TryNext

\* The limits by mode.
LEMMA Limits ==
  /\ CallLimit["single"] = (IF ask.tools THEN 4 * Enabled ELSE Enabled) + 1
  /\ CallLimit["critique"] = 3 * 7 + 1 + Enabled + 1
  /\ CallLimit["debate"] = 3 * 10 + 1 + Enabled + 1
  /\ CallLimit["council"] = 3 * 5 + Enabled + 1
  /\ CallLimit["consensus"] = Enabled + 3 + Enabled + 1
  /\ CallLimit["retrieval"] = 2
  /\ \A mode \in Modes : CallLimit[mode] \in Nat
  /\ \A mode \in Modes \ {"retrieval"} : CallLimit[mode] >= Enabled + 1
  BY EnabledAssumption DEF CallLimit, Modes

\* Room is a number of calls.
LEMMA RoomIsNat ==
  ASSUME NEW s \in Stages, s # "asked", NEW t \in 1 .. 4, NEW a \in 1 .. 3,
         NEW l \in 0 .. Enabled, NEW way, s = "tools" => l > 0
  PROVE  Room(s, t, a, l, way) \in Nat
  <1>1. Enabled \in Nat /\ Tail(way) \in Nat
    BY EnabledAssumption, TailFacts
  <1>2. CASE s \in (Structured \ {"tools"}) \cup {"refineStream"}
    <2>1. Room(s, t, a, l, way) = 3 * Rounds(s, t) + 1 - a + Tail(way)
      BY <1>2 DEF Room, Structured, LookingStages
    <2>2. Rounds(s, t) \in Nat /\ Rounds(s, t) >= 1
      <3>1. CASE s \in {"openA", "openB", "specialist"}
        <4>1. 11 - t \in Nat /\ 11 - t >= 1 /\ 9 - t \in Nat /\ 9 - t >= 1
              /\ 6 - t \in Nat /\ 6 - t >= 1
          OBVIOUS
        <4> QED
          BY <3>1, <4>1 DEF Rounds
      <3>2. CASE s \notin {"openA", "openB", "specialist"}
        <4>1. Rounds(s, t) \in 1 .. 7
          BY <1>2, <3>2 DEF Rounds, Structured
        <4> QED
          BY <4>1
      <3> QED
        BY <3>1, <3>2
    <2> QED
      BY <1>1, <2>1, <2>2
  <1>3. CASE s \notin Structured \cup {"refineStream"}
    <2>1. s \in {"ended", "single", "verify", "poll", "search", "ground"} \cup LookingStages
      BY <1>3 DEF Stages, LookingStages
    <2> QED
      BY <1>1, <2>1, RoomTable
  <1>4. CASE s = "tools"
    <2>1. Room(s, t, a, l, way) = 4 * l + 2 - a
      BY <1>4, RoomTable
    <2> QED
      BY <1>1, <1>4, <2>1
  <1> QED
    BY <1>2, <1>3, <1>4

\* A question begins with no more room than its mode's limit, and no step goes past it.
LEMMA CallStep ==
  ASSUME TypeOK, PlaceInv, TurnInv, CallInv, Next
  PROVE  CallInv'
  <1>0. TypeOK' /\ ask' = ask /\ ask.mode \in Modes /\ ask \in Questions
    BY TypeStep, KeptStep DEF TypeOK, Questions
  <1> DEFINE L == CallLimit[ask.mode]
  <1>1. L \in Nat /\ L' = L
    BY <1>0, EnabledAssumption DEF CallLimit, Modes
  <1>2. stage' # "asked" => RoomLeft' \in Nat
    BY <1>0, PlaceStep, RoomIsNat DEF TypeOK, RoomLeft, PlaceInv
  <1>3. calls \in Nat /\ calls' \in Nat
    BY <1>0 DEF TypeOK
  <1>4. CASE stage # "asked"
    <2>1. calls' + RoomLeft' <= calls + RoomLeft /\ calls + RoomLeft <= L
      BY <1>4, RoomStep DEF CallInv
    <2>2. RoomLeft \in Nat
      BY <1>4, RoomIsNat DEF TypeOK, RoomLeft, PlaceInv
    <2>3. stage' # "asked"
      BY <1>4, NeverAsked
    <2>4. \A c, r, d, q, n \in Nat : c + r <= d + q /\ d + q <= n => c + r <= n
      OBVIOUS
    <2>5. calls' + RoomLeft' <= L
      BY <1>1, <1>2, <1>3, <2>1, <2>2, <2>3, <2>4
    <2> QED
      BY <1>0, <1>1, <2>3, <2>5 DEF CallInv
  <1>5. CASE Ask
    <2>1. calls' = 0 /\ stage' # "asked"
      BY <1>5, AskStage DEF CallInv
    <2>2. RoomLeft' <= L
      <3>1. asking' \in 1 .. 3 /\ left' \in 0 .. Enabled /\ turn' = 1
        BY <1>5, AskStage DEF TypeOK
      <3>2. CASE alone'
        <4>1. /\ ask.mode # "retrieval" /\ left' = left /\ asking' = asking
              /\ stage' = IF ask.tools /\ left > 0 THEN "tools" ELSE "single"
              /\ ask.tools => ask.mode = "single"
          BY <1>0, <1>5, <3>2, AskStage, PlaceStep DEF PlaceInv
        <4>2. CASE ask.tools /\ left > 0
          <5>1. RoomLeft' = 4 * left + 2 - asking
            BY <4>1, <4>2, RoomTable DEF RoomLeft
          <5>2. L = 4 * Enabled + 1
            BY <4>1, <4>2, Limits
          <5>3. \A l \in 0 .. Enabled, a \in 1 .. 3 : 4 * l + 2 - a <= 4 * Enabled + 1
            BY EnabledAssumption
          <5> HIDE DEF L
          <5> QED
            BY <3>1, <4>1, <5>1, <5>2, <5>3
        <4>3. CASE ~(ask.tools /\ left > 0)
          <5>1. RoomLeft' = left + 1
            BY <1>0, <3>2, <4>1, <4>3, RoomTable DEF RoomLeft, Way
          <5>2. L >= Enabled + 1
            BY <1>0, <4>1, Limits, EnabledAssumption DEF Modes
          <5>3. \A l \in 0 .. Enabled, n \in Nat : n >= Enabled + 1 => l + 1 <= n
            BY EnabledAssumption
          <5> HIDE DEF L
          <5> QED
            BY <1>1, <3>1, <4>1, <5>1, <5>2, <5>3
        <4> QED
          BY <4>2, <4>3
      <3>3. CASE ~alone'
        <4>1. stage' = FirstStage(ask) /\ Way' = ask.mode /\ ask.mode # "single"
          BY <1>0, <1>5, <3>3, AskStage DEF Way
        <4>2. RoomLeft' = Room(FirstStage(ask), turn', asking', left', ask.mode)
          BY <4>1 DEF RoomLeft
        <4>3. CASE ask.mode = "critique"
          <5>1. RoomLeft' = 3 * 7 + 1 - asking' + (Enabled + 2)
            BY <4>2, <4>3, RoomTable, TailFacts DEF FirstStage
          <5>2. \A a \in 1 .. 3 : 3 * 7 + 1 - a + (Enabled + 2) <= 3 * 7 + 1 + Enabled + 1
            BY EnabledAssumption
          <5> QED
            BY <3>1, <4>3, <5>1, <5>2, Limits
        <4>4. CASE ask.mode = "debate"
          <5>1. RoomLeft' = 3 * 10 + 1 - asking' + (Enabled + 2)
            BY <3>1, <4>2, <4>4, RoomTable, TailFacts DEF FirstStage
          <5>2. \A a \in 1 .. 3 : 3 * 10 + 1 - a + (Enabled + 2) <= 3 * 10 + 1 + Enabled + 1
            BY EnabledAssumption
          <5> QED
            BY <3>1, <4>4, <5>1, <5>2, Limits
        <4>5. CASE ask.mode = "council"
          <5>1. RoomLeft' = 3 * 5 + 1 - asking' + (Enabled + 1)
            BY <3>1, <4>2, <4>5, RoomTable, TailFacts DEF FirstStage
          <5>2. \A a \in 1 .. 3 : 3 * 5 + 1 - a + (Enabled + 1) <= 3 * 5 + Enabled + 1
            BY EnabledAssumption
          <5> QED
            BY <3>1, <4>5, <5>1, <5>2, Limits
        <4>6. CASE ask.mode = "consensus"
          <5>1. RoomLeft' = Enabled + 3 + (Enabled + 1)
            BY <4>2, <4>6, RoomTable, TailFacts DEF FirstStage
          <5> QED
            BY <3>1, <4>6, <5>1, Limits, EnabledAssumption
        <4>7. CASE ask.mode = "retrieval"
          <5>1. RoomLeft' = 2
            BY <4>2, <4>7, RoomTable DEF FirstStage, LookingStages
          <5> QED
            BY <4>7, <5>1, Limits
        <4> QED
          BY <1>0, <4>1, <4>3, <4>4, <4>5, <4>6, <4>7 DEF Modes
      <3> QED
        BY <3>2, <3>3
    <2>3. calls' + RoomLeft' <= L
      BY <1>1, <1>2, <2>1, <2>2
    <2> QED
      BY <1>0, <1>1, <2>1, <2>3 DEF CallInv
  <1>6. CASE TurnAway
    <2>1. calls' = 0 /\ stage' = "ended"
      BY <1>6 DEF TurnAway, End, CallInv
    <2>2. RoomLeft' = 0
      BY <2>1, RoomTable DEF RoomLeft
    <2> QED
      BY <1>0, <1>1, <2>1, <2>2 DEF CallInv
  <1> QED
    BY <1>4, <1>5, <1>6, OnlyAsk

\* The figures of an answer follow what is recorded.
LEMMA BillStep ==
  ASSUME TypeOK, PlaceInv, BillInv, Next
  PROVE  BillInv'
  <1>0. /\ total \in Nat /\ spent \in Nat /\ fellBack \in BOOLEAN
        /\ stage \notin {"asked", "ended", "tools", "single", "verify"} => ~ask.tools
        /\ ask.tools /\ stage = "verify" => alone
        /\ stage = "tools" => ask.tools
        /\ stage = "asked" => left > 0
        /\ stage # "ended" => outcome = "none"
    BY DEF TypeOK, PlaceInv, Stages, Structured, CritiqueStages, DebateStages, CouncilStages,
           ConsensusStages, LookingStages
  <1> USE DEF Reply, Bill, GoTo, TryNext, End, FallBack, Finish, Trouble, TrySource, work, retrieving,
          BillInv
  <1>1. CASE Ask
    BY <1>1, <1>0 DEF Ask
  <1>2. CASE TurnAway
    BY <1>2, <1>0 DEF TurnAway
  <1>3. CASE Repair
    BY <1>3, <1>0 DEF Repair
  <1>4. CASE Draft
    BY <1>4, <1>0 DEF Draft
  <1>5. CASE DraftAgain
    BY <1>5, <1>0 DEF DraftAgain
  <1>6. CASE Critic
    BY <1>6, <1>0 DEF Critic
  <1>7. CASE CriticAgain
    BY <1>7, <1>0 DEF CriticAgain
  <1>8. CASE Refine
    BY <1>8, <1>0 DEF Refine
  <1>9. CASE Rewrite
    BY <1>9, <1>0 DEF Rewrite
  <1>10. CASE Rescue
    BY <1>10, <1>0 DEF Rescue
  <1>11. CASE RefineStream
    BY <1>11, <1>0 DEF RefineStream
  <1>12. CASE DraftFails
    BY <1>12, <1>0 DEF DraftFails
  <1>13. CASE CriticFails
    BY <1>13, <1>0 DEF CriticFails
  <1>14. CASE RefineFails
    BY <1>14, <1>0 DEF RefineFails
  <1>15. CASE RefineStreamFails
    BY <1>15, <1>0 DEF RefineStreamFails
  <1>16. CASE OpenA
    BY <1>16, <1>0 DEF OpenA
  <1>17. CASE OpenB
    BY <1>17, <1>0 DEF OpenB
  <1>18. CASE CloseA
    BY <1>18, <1>0 DEF CloseA
  <1>19. CASE CloseB
    BY <1>19, <1>0 DEF CloseB
  <1>20. CASE Judge
    BY <1>20, <1>0 DEF Judge
  <1>21. CASE Synthesize
    BY <1>21, <1>0 DEF Synthesize
  <1>22. CASE Resynthesize
    BY <1>22, <1>0 DEF Resynthesize
  <1>23. CASE DebateFails
    BY <1>23, <1>0 DEF DebateFails
  <1>24. CASE Specialist
    BY <1>24, <1>0 DEF Specialist
  <1>25. CASE Combine
    BY <1>25, <1>0 DEF Combine
  <1>26. CASE CouncilFails
    BY <1>26, <1>0 DEF CouncilFails
  <1>27. CASE Poll
    BY <1>27, <1>0 DEF Poll
  <1>28. CASE PollEmpty
    BY <1>28, <1>0 DEF PollEmpty
  <1>29. CASE Search
    BY <1>29, <1>0 DEF Search
  <1>30. CASE Adjudicate
    BY <1>30, <1>0 DEF Adjudicate
  <1>31. CASE AdjudicationFails
    BY <1>31, <1>0 DEF AdjudicationFails
  <1>32. CASE Pages
    BY <1>32, <1>0 DEF Pages
  <1>33. CASE TimeSource
    BY <1>33, <1>0 DEF TimeSource
  <1>34. CASE FinanceSource
    BY <1>34, <1>0 DEF FinanceSource
  <1>35. CASE SportsSource
    BY <1>35, <1>0 DEF SportsSource
  <1>36. CASE WebSearch
    BY <1>36, <1>0 DEF WebSearch
  <1>37. CASE WeatherSource
    BY <1>37, <1>0 DEF WeatherSource
  <1>38. CASE Unsourced
    BY <1>38, <1>0 DEF Unsourced
  <1>39. CASE Rendered
    BY <1>39, <1>0 DEF Rendered
  <1>40. CASE Compose
    BY <1>40, <1>0 DEF Compose
  <1>41. CASE Ground
    BY <1>41, <1>0 DEF Ground
  <1>42. CASE GroundFails
    BY <1>42, <1>0 DEF GroundFails
  <1>43. CASE Single
    BY <1>43, <1>0 DEF Single
  <1>44. CASE SingleFails
    BY <1>44, <1>0 DEF SingleFails
  <1>45. CASE Abandon
    BY <1>45, <1>0 DEF Abandon
  <1>46. CASE Verify
    BY <1>46, <1>0 DEF Verify, Unfit
  <1>47. CASE Propose
    BY <1>47, <1>0 DEF Propose
  <1>48. CASE ProposeFails
    BY <1>48, <1>0 DEF ProposeFails
  <1> QED
    BY <1>1, <1>2, <1>3, <1>4, <1>5, <1>6, <1>7, <1>8, <1>9, <1>10, <1>11, <1>12, <1>13,
       <1>14, <1>15, <1>16, <1>17, <1>18, <1>19, <1>20, <1>21, <1>22, <1>23, <1>24, <1>25,
       <1>26, <1>27, <1>28, <1>29, <1>30, <1>31, <1>32, <1>33, <1>34, <1>35, <1>36, <1>37,
       <1>38, <1>39, <1>40, <1>41, <1>42, <1>43, <1>44, <1>45, <1>46, <1>47,
       <1>48
       DEF Next, Critique, Debate, Council, Consensus, Retrieval, Alone

\* The answer of a workflow that is not sent back says something.
LEMMA TextStep ==
  ASSUME TypeOK, PlaceInv, TextInv, Next
  PROVE  TextInv'
  <1> USE DEF Reply, Bill, GoTo, TryNext, End, FallBack, Finish, Trouble, TrySource, work, retrieving,
          PlaceInv, TextInv, Unfit, Texts, Blank, LowSignal, CritiqueStages, DebateStages,
          CouncilStages, ConsensusStages, LookingStages
  <1>1. CASE Ask
    BY <1>1, AskStage
  <1>2. CASE TurnAway
    BY <1>2 DEF TurnAway
  <1>3. CASE Repair
    BY <1>3 DEF Repair
  <1>4. CASE Draft
    BY <1>4 DEF Draft
  <1>5. CASE DraftAgain
    BY <1>5 DEF DraftAgain
  <1>6. CASE Critic
    BY <1>6 DEF Critic
  <1>7. CASE CriticAgain
    BY <1>7 DEF CriticAgain
  <1>8. CASE Refine
    BY <1>8 DEF Refine
  <1>9. CASE Rewrite
    BY <1>9 DEF Rewrite
  <1>10. CASE Rescue
    BY <1>10 DEF Rescue
  <1>11. CASE RefineStream
    BY <1>11 DEF RefineStream
  <1>12. CASE DraftFails
    BY <1>12 DEF DraftFails
  <1>13. CASE CriticFails
    BY <1>13 DEF CriticFails
  <1>14. CASE RefineFails
    BY <1>14 DEF RefineFails
  <1>15. CASE RefineStreamFails
    BY <1>15 DEF RefineStreamFails
  <1>16. CASE OpenA
    BY <1>16 DEF OpenA
  <1>17. CASE OpenB
    BY <1>17 DEF OpenB
  <1>18. CASE CloseA
    BY <1>18 DEF CloseA
  <1>19. CASE CloseB
    BY <1>19 DEF CloseB
  <1>20. CASE Judge
    BY <1>20 DEF Judge
  <1>21. CASE Synthesize
    BY <1>21 DEF Synthesize
  <1>22. CASE Resynthesize
    BY <1>22 DEF Resynthesize
  <1>23. CASE DebateFails
    BY <1>23 DEF DebateFails
  <1>24. CASE Specialist
    BY <1>24 DEF Specialist
  <1>25. CASE Combine
    BY <1>25 DEF Combine
  <1>26. CASE CouncilFails
    BY <1>26 DEF CouncilFails
  <1>27. CASE Poll
    BY <1>27 DEF Poll
  <1>28. CASE PollEmpty
    BY <1>28 DEF PollEmpty
  <1>29. CASE Search
    BY <1>29 DEF Search
  <1>30. CASE Adjudicate
    BY <1>30 DEF Adjudicate
  <1>31. CASE AdjudicationFails
    BY <1>31 DEF AdjudicationFails
  <1>32. CASE Pages
    BY <1>32 DEF Pages
  <1>33. CASE TimeSource
    BY <1>33 DEF TimeSource
  <1>34. CASE FinanceSource
    BY <1>34 DEF FinanceSource
  <1>35. CASE SportsSource
    BY <1>35 DEF SportsSource
  <1>36. CASE WebSearch
    BY <1>36 DEF WebSearch
  <1>37. CASE WeatherSource
    BY <1>37 DEF WeatherSource
  <1>38. CASE Unsourced
    BY <1>38 DEF Unsourced
  <1>39. CASE Rendered
    BY <1>39 DEF Rendered
  <1>40. CASE Compose
    BY <1>40 DEF Compose
  <1>41. CASE Ground
    BY <1>41 DEF Ground
  <1>42. CASE GroundFails
    BY <1>42 DEF GroundFails
  <1>43. CASE Single
    BY <1>43 DEF Single
  <1>44. CASE SingleFails
    BY <1>44 DEF SingleFails
  <1>45. CASE Abandon
    BY <1>45 DEF Abandon
  <1>46. CASE Verify
    BY <1>46 DEF Verify
  <1>47. CASE Propose
    BY <1>47 DEF Propose
  <1>48. CASE ProposeFails
    BY <1>48 DEF ProposeFails
  <1> QED
    BY <1>1, <1>2, <1>3, <1>4, <1>5, <1>6, <1>7, <1>8, <1>9, <1>10, <1>11, <1>12, <1>13,
       <1>14, <1>15, <1>16, <1>17, <1>18, <1>19, <1>20, <1>21, <1>22, <1>23, <1>24, <1>25,
       <1>26, <1>27, <1>28, <1>29, <1>30, <1>31, <1>32, <1>33, <1>34, <1>35, <1>36, <1>37,
       <1>38, <1>39, <1>40, <1>41, <1>42, <1>43, <1>44, <1>45, <1>46, <1>47,
       <1>48
       DEF Next, Critique, Debate, Council, Consensus, Retrieval, Alone

\* No model is asked before there is a document.
LEMMA SourceStep ==
  ASSUME TypeOK, PlaceInv, CallInv, BillInv, SourceInv, Next
  PROVE  SourceInv'
  <1> USE DEF Reply, Bill, GoTo, TryNext, End, FallBack, Finish, Trouble, TrySource, work, retrieving,
          PlaceInv, SourceInv, Structured, CritiqueStages, DebateStages, CouncilStages,
          ConsensusStages, LookingStages
  <1>1. CASE Ask
    BY <1>1, AskStage DEF Ask, CallInv, BillInv
  <1>2. CASE TurnAway
    BY <1>2 DEF TurnAway
  <1>3. CASE Repair
    BY <1>3 DEF Repair
  <1>4. CASE Draft
    BY <1>4 DEF Draft
  <1>5. CASE DraftAgain
    BY <1>5 DEF DraftAgain
  <1>6. CASE Critic
    BY <1>6 DEF Critic
  <1>7. CASE CriticAgain
    BY <1>7 DEF CriticAgain
  <1>8. CASE Refine
    BY <1>8 DEF Refine
  <1>9. CASE Rewrite
    BY <1>9 DEF Rewrite
  <1>10. CASE Rescue
    BY <1>10 DEF Rescue
  <1>11. CASE RefineStream
    BY <1>11 DEF RefineStream
  <1>12. CASE DraftFails
    BY <1>12 DEF DraftFails
  <1>13. CASE CriticFails
    BY <1>13 DEF CriticFails
  <1>14. CASE RefineFails
    BY <1>14 DEF RefineFails
  <1>15. CASE RefineStreamFails
    BY <1>15 DEF RefineStreamFails
  <1>16. CASE OpenA
    BY <1>16 DEF OpenA
  <1>17. CASE OpenB
    BY <1>17 DEF OpenB
  <1>18. CASE CloseA
    BY <1>18 DEF CloseA
  <1>19. CASE CloseB
    BY <1>19 DEF CloseB
  <1>20. CASE Judge
    BY <1>20 DEF Judge
  <1>21. CASE Synthesize
    BY <1>21 DEF Synthesize
  <1>22. CASE Resynthesize
    BY <1>22 DEF Resynthesize
  <1>23. CASE DebateFails
    BY <1>23 DEF DebateFails
  <1>24. CASE Specialist
    BY <1>24 DEF Specialist
  <1>25. CASE Combine
    BY <1>25 DEF Combine
  <1>26. CASE CouncilFails
    BY <1>26 DEF CouncilFails
  <1>27. CASE Poll
    BY <1>27 DEF Poll
  <1>28. CASE PollEmpty
    BY <1>28 DEF PollEmpty
  <1>29. CASE Search
    BY <1>29 DEF Search
  <1>30. CASE Adjudicate
    BY <1>30 DEF Adjudicate
  <1>31. CASE AdjudicationFails
    BY <1>31 DEF AdjudicationFails
  <1>32. CASE Pages
    BY <1>32 DEF Pages
  <1>33. CASE TimeSource
    BY <1>33 DEF TimeSource
  <1>34. CASE FinanceSource
    BY <1>34 DEF FinanceSource
  <1>35. CASE SportsSource
    BY <1>35 DEF SportsSource
  <1>36. CASE WebSearch
    BY <1>36 DEF WebSearch
  <1>37. CASE WeatherSource
    BY <1>37 DEF WeatherSource
  <1>38. CASE Unsourced
    BY <1>38 DEF Unsourced
  <1>39. CASE Rendered
    BY <1>39 DEF Rendered
  <1>40. CASE Compose
    BY <1>40 DEF Compose
  <1>41. CASE Ground
    BY <1>41 DEF Ground
  <1>42. CASE GroundFails
    BY <1>42 DEF GroundFails
  <1>43. CASE Single
    BY <1>43 DEF Single
  <1>44. CASE SingleFails
    BY <1>44 DEF SingleFails
  <1>45. CASE Abandon
    BY <1>45 DEF Abandon
  <1>46. CASE Verify
    BY <1>46 DEF Verify
  <1>47. CASE Propose
    BY <1>47 DEF Propose
  <1>48. CASE ProposeFails
    BY <1>48 DEF ProposeFails
  <1> QED
    BY <1>1, <1>2, <1>3, <1>4, <1>5, <1>6, <1>7, <1>8, <1>9, <1>10, <1>11, <1>12, <1>13,
       <1>14, <1>15, <1>16, <1>17, <1>18, <1>19, <1>20, <1>21, <1>22, <1>23, <1>24, <1>25,
       <1>26, <1>27, <1>28, <1>29, <1>30, <1>31, <1>32, <1>33, <1>34, <1>35, <1>36, <1>37,
       <1>38, <1>39, <1>40, <1>41, <1>42, <1>43, <1>44, <1>45, <1>46, <1>47,
       <1>48
       DEF Next, Critique, Debate, Council, Consensus, Retrieval, Alone

\* An answer that is returned says something.
LEMMA PlainStep ==
  ASSUME TypeOK, PlaceInv, TextInv, PlainAnswersSpeak, Next
  PROVE  PlainAnswersSpeak'
  <1> USE DEF Reply, Bill, GoTo, TryNext, End, FallBack, Finish, Trouble, TrySource, work, retrieving,
          PlaceInv, TextInv, PlainAnswersSpeak, CritiqueStages, DebateStages, CouncilStages,
          ConsensusStages, LookingStages
  <1>1. CASE Ask
    BY <1>1 DEF Ask
  <1>2. CASE TurnAway
    BY <1>2 DEF TurnAway
  <1>3. CASE Repair
    BY <1>3 DEF Repair
  <1>4. CASE Draft
    BY <1>4 DEF Draft
  <1>5. CASE DraftAgain
    BY <1>5 DEF DraftAgain
  <1>6. CASE Critic
    BY <1>6 DEF Critic
  <1>7. CASE CriticAgain
    BY <1>7 DEF CriticAgain
  <1>8. CASE Refine
    BY <1>8 DEF Refine
  <1>9. CASE Rewrite
    BY <1>9 DEF Rewrite
  <1>10. CASE Rescue
    BY <1>10 DEF Rescue
  <1>11. CASE RefineStream
    BY <1>11 DEF RefineStream
  <1>12. CASE DraftFails
    BY <1>12 DEF DraftFails
  <1>13. CASE CriticFails
    BY <1>13 DEF CriticFails
  <1>14. CASE RefineFails
    BY <1>14 DEF RefineFails
  <1>15. CASE RefineStreamFails
    BY <1>15 DEF RefineStreamFails
  <1>16. CASE OpenA
    BY <1>16 DEF OpenA
  <1>17. CASE OpenB
    BY <1>17 DEF OpenB
  <1>18. CASE CloseA
    BY <1>18 DEF CloseA
  <1>19. CASE CloseB
    BY <1>19 DEF CloseB
  <1>20. CASE Judge
    BY <1>20 DEF Judge
  <1>21. CASE Synthesize
    BY <1>21 DEF Synthesize
  <1>22. CASE Resynthesize
    BY <1>22 DEF Resynthesize
  <1>23. CASE DebateFails
    BY <1>23 DEF DebateFails
  <1>24. CASE Specialist
    BY <1>24 DEF Specialist
  <1>25. CASE Combine
    BY <1>25 DEF Combine
  <1>26. CASE CouncilFails
    BY <1>26 DEF CouncilFails
  <1>27. CASE Poll
    BY <1>27 DEF Poll
  <1>28. CASE PollEmpty
    BY <1>28 DEF PollEmpty
  <1>29. CASE Search
    BY <1>29 DEF Search
  <1>30. CASE Adjudicate
    BY <1>30 DEF Adjudicate
  <1>31. CASE AdjudicationFails
    BY <1>31 DEF AdjudicationFails
  <1>32. CASE Pages
    BY <1>32 DEF Pages
  <1>33. CASE TimeSource
    BY <1>33 DEF TimeSource
  <1>34. CASE FinanceSource
    BY <1>34 DEF FinanceSource
  <1>35. CASE SportsSource
    BY <1>35 DEF SportsSource
  <1>36. CASE WebSearch
    BY <1>36 DEF WebSearch
  <1>37. CASE WeatherSource
    BY <1>37 DEF WeatherSource
  <1>38. CASE Unsourced
    BY <1>38 DEF Unsourced
  <1>39. CASE Rendered
    BY <1>39 DEF Rendered
  <1>40. CASE Compose
    BY <1>40 DEF Compose
  <1>41. CASE Ground
    BY <1>41 DEF Ground
  <1>42. CASE GroundFails
    BY <1>42 DEF GroundFails
  <1>43. CASE Single
    BY <1>43 DEF Single
  <1>44. CASE SingleFails
    BY <1>44 DEF SingleFails
  <1>45. CASE Abandon
    BY <1>45 DEF Abandon
  <1>46. CASE Verify
    BY <1>46 DEF Verify
  <1>47. CASE Propose
    BY <1>47 DEF Propose
  <1>48. CASE ProposeFails
    BY <1>48 DEF ProposeFails
  <1> QED
    BY <1>1, <1>2, <1>3, <1>4, <1>5, <1>6, <1>7, <1>8, <1>9, <1>10, <1>11, <1>12, <1>13,
       <1>14, <1>15, <1>16, <1>17, <1>18, <1>19, <1>20, <1>21, <1>22, <1>23, <1>24, <1>25,
       <1>26, <1>27, <1>28, <1>29, <1>30, <1>31, <1>32, <1>33, <1>34, <1>35, <1>36, <1>37,
       <1>38, <1>39, <1>40, <1>41, <1>42, <1>43, <1>44, <1>45, <1>46, <1>47,
       <1>48
       DEF Next, Critique, Debate, Council, Consensus, Retrieval, Alone

\* What is said without a model rests on a document, or says there is none.
LEMMA GroundedStep ==
  ASSUME TypeOK, PlaceInv, SourceInv, AnswersAreGrounded, Next
  PROVE  AnswersAreGrounded'
  <1> USE DEF Reply, Bill, GoTo, TryNext, End, FallBack, Finish, Trouble, TrySource, work, retrieving,
          PlaceInv, SourceInv, Structured, AnswersAreGrounded, CritiqueStages, DebateStages,
          CouncilStages, ConsensusStages, LookingStages
  <1>1. CASE Ask
    BY <1>1 DEF Ask
  <1>2. CASE TurnAway
    BY <1>2 DEF TurnAway
  <1>3. CASE Repair
    BY <1>3 DEF Repair
  <1>4. CASE Draft
    BY <1>4 DEF Draft
  <1>5. CASE DraftAgain
    BY <1>5 DEF DraftAgain
  <1>6. CASE Critic
    BY <1>6 DEF Critic
  <1>7. CASE CriticAgain
    BY <1>7 DEF CriticAgain
  <1>8. CASE Refine
    BY <1>8 DEF Refine
  <1>9. CASE Rewrite
    BY <1>9 DEF Rewrite
  <1>10. CASE Rescue
    BY <1>10 DEF Rescue
  <1>11. CASE RefineStream
    BY <1>11 DEF RefineStream
  <1>12. CASE DraftFails
    BY <1>12 DEF DraftFails
  <1>13. CASE CriticFails
    BY <1>13 DEF CriticFails
  <1>14. CASE RefineFails
    BY <1>14 DEF RefineFails
  <1>15. CASE RefineStreamFails
    BY <1>15 DEF RefineStreamFails
  <1>16. CASE OpenA
    BY <1>16 DEF OpenA
  <1>17. CASE OpenB
    BY <1>17 DEF OpenB
  <1>18. CASE CloseA
    BY <1>18 DEF CloseA
  <1>19. CASE CloseB
    BY <1>19 DEF CloseB
  <1>20. CASE Judge
    BY <1>20 DEF Judge
  <1>21. CASE Synthesize
    BY <1>21 DEF Synthesize
  <1>22. CASE Resynthesize
    BY <1>22 DEF Resynthesize
  <1>23. CASE DebateFails
    BY <1>23 DEF DebateFails
  <1>24. CASE Specialist
    BY <1>24 DEF Specialist
  <1>25. CASE Combine
    BY <1>25 DEF Combine
  <1>26. CASE CouncilFails
    BY <1>26 DEF CouncilFails
  <1>27. CASE Poll
    BY <1>27 DEF Poll
  <1>28. CASE PollEmpty
    BY <1>28 DEF PollEmpty
  <1>29. CASE Search
    BY <1>29 DEF Search
  <1>30. CASE Adjudicate
    BY <1>30 DEF Adjudicate
  <1>31. CASE AdjudicationFails
    BY <1>31 DEF AdjudicationFails
  <1>32. CASE Pages
    BY <1>32 DEF Pages
  <1>33. CASE TimeSource
    BY <1>33 DEF TimeSource
  <1>34. CASE FinanceSource
    BY <1>34 DEF FinanceSource
  <1>35. CASE SportsSource
    BY <1>35 DEF SportsSource
  <1>36. CASE WebSearch
    BY <1>36 DEF WebSearch
  <1>37. CASE WeatherSource
    BY <1>37 DEF WeatherSource
  <1>38. CASE Unsourced
    BY <1>38 DEF Unsourced
  <1>39. CASE Rendered
    BY <1>39 DEF Rendered
  <1>40. CASE Compose
    BY <1>40 DEF Compose
  <1>41. CASE Ground
    BY <1>41 DEF Ground
  <1>42. CASE GroundFails
    BY <1>42 DEF GroundFails
  <1>43. CASE Single
    BY <1>43 DEF Single
  <1>44. CASE SingleFails
    BY <1>44 DEF SingleFails
  <1>45. CASE Abandon
    BY <1>45 DEF Abandon
  <1>46. CASE Verify
    BY <1>46 DEF Verify
  <1>47. CASE Propose
    BY <1>47 DEF Propose
  <1>48. CASE ProposeFails
    BY <1>48 DEF ProposeFails
  <1> QED
    BY <1>1, <1>2, <1>3, <1>4, <1>5, <1>6, <1>7, <1>8, <1>9, <1>10, <1>11, <1>12, <1>13,
       <1>14, <1>15, <1>16, <1>17, <1>18, <1>19, <1>20, <1>21, <1>22, <1>23, <1>24, <1>25,
       <1>26, <1>27, <1>28, <1>29, <1>30, <1>31, <1>32, <1>33, <1>34, <1>35, <1>36, <1>37,
       <1>38, <1>39, <1>40, <1>41, <1>42, <1>43, <1>44, <1>45, <1>46, <1>47,
       <1>48
       DEF Next, Critique, Debate, Council, Consensus, Retrieval, Alone

-----------------------------------------------------------------------------
(* The invariant of a question, and what it promises.                       *)

LEMMA QuestionStep ==
  ASSUME QuestionInv, Next
  PROVE  QuestionInv'
  BY TypeStep, PlaceStep, TurnStep, CallStep, BillStep, TextStep, SourceStep, PlainStep,
     GroundedStep DEF QuestionInv

\* A new question, whatever the budget is at.
LEMMA AskedInv ==
  ASSUME NEW q \in Questions, Asked(q), used' \in Nat
  PROVE  QuestionInv'
  <1> USE DEF Asked
  <1>1. TypeOK'
    <2>1. blank' \in BOOLEAN /\ alone' \in BOOLEAN /\ fellBack' \in BOOLEAN
      OBVIOUS
    <2>2. left' \in 0 .. Enabled /\ turn' \in 1 .. 4 /\ asking' \in 1 .. 3
      BY Members
    <2>3. calls' \in Nat /\ spent' \in Nat /\ total' \in Nat
      OBVIOUS
    <2>4. /\ stage' \in Stages /\ draft' \in Texts /\ text' \in Texts /\ outcome' \in Outcomes
          /\ ask' \in Questions /\ source' \in SourceKinds
      BY Members
    <2> QED
      BY <2>1, <2>2, <2>3, <2>4 DEF TypeOK
  <1>2. PlaceInv'
    BY EnabledAssumption DEF PlaceInv, CritiqueStages, DebateStages, CouncilStages, ConsensusStages, LookingStages
  <1>3. TurnInv' /\ CallInv' /\ BillInv'
    BY DEF TurnInv, CallInv, BillInv
  <1>4. TextInv' /\ SourceInv' /\ PlainAnswersSpeak' /\ AnswersAreGrounded'
    BY DEF TextInv, SourceInv, LookingStages, PlainAnswersSpeak, AnswersAreGrounded
  <1> QED
    BY <1>1, <1>2, <1>3, <1>4 DEF QuestionInv

LEMMA InitQuestion == Init => QuestionInv
  <1> SUFFICES ASSUME Init
               PROVE  QuestionInv
    OBVIOUS
  <1> USE DEF Init
  <1>1. TypeOK
    <2>1. blank \in BOOLEAN /\ alone \in BOOLEAN /\ fellBack \in BOOLEAN
      OBVIOUS
    <2>2. left \in 0 .. Enabled /\ turn \in 1 .. 4 /\ asking \in 1 .. 3
      BY Members
    <2>3. calls \in Nat /\ spent \in Nat /\ total \in Nat /\ used \in Nat
      BY BeforeAssumption, CapAssumption
    <2>4. /\ stage \in Stages /\ draft \in Texts /\ text \in Texts /\ outcome \in Outcomes
          /\ ask \in Questions /\ source \in SourceKinds
      BY Members
    <2> QED
      BY <2>1, <2>2, <2>3, <2>4 DEF TypeOK
  <1>2. PlaceInv
    BY EnabledAssumption DEF PlaceInv, CritiqueStages, DebateStages, CouncilStages, ConsensusStages, LookingStages
  <1>3. TurnInv /\ CallInv /\ BillInv
    BY DEF TurnInv, CallInv, BillInv
  <1>4. TextInv /\ SourceInv /\ PlainAnswersSpeak /\ AnswersAreGrounded
    BY DEF TextInv, SourceInv, LookingStages, PlainAnswersSpeak, AnswersAreGrounded
  <1> QED
    BY <1>1, <1>2, <1>3, <1>4 DEF QuestionInv

\* The invariant says of a question what the runs check of it.
LEMMA QuestionOK ==
  ASSUME QuestionInv
  PROVE  AnswersOK /\ CallsAreBounded
  <1>1. AnswersReportTheirBill
    BY DEF QuestionInv, BillInv, AnswersReportTheirBill, TypeOK
  <1>2. CallsAreBounded
    <2>0. TypeOK /\ CallInv
      BY DEF QuestionInv
    <2>1. ask.mode \in Modes /\ calls \in Nat
      BY <2>0 DEF TypeOK, Questions
    <2>2. CallLimit[ask.mode] \in Nat
      BY <2>1, Limits
    <2>3. CASE stage = "asked"
      BY <2>0, <2>2, <2>3 DEF CallInv, CallsAreBounded
    <2>4. CASE stage # "asked"
      <3>1. RoomLeft \in Nat
        BY <2>0, <2>4, RoomIsNat DEF QuestionInv, PlaceInv, TypeOK, RoomLeft
      <3>2. calls + RoomLeft <= CallLimit[ask.mode]
        BY <2>0, <2>4 DEF CallInv
      <3>3. calls <= CallLimit[ask.mode]
        BY <2>1, <2>2, <3>1, <3>2
      <3> QED
        BY <3>3 DEF CallsAreBounded
    <2> QED
      BY <2>3, <2>4
  <1> QED
    BY <1>1, <1>2 DEF QuestionInv, AnswersOK

\* What a question's variables say, and no others.
LEMMA QuestionStays ==
  ASSUME QuestionInv, UNCHANGED vars
  PROVE  QuestionInv'
  <1> USE DEF vars
  <1>1. TypeOK'
    BY DEF QuestionInv, TypeOK
  <1>2. PlaceInv' /\ TurnInv' /\ BillInv'
    BY DEF QuestionInv, PlaceInv, TurnInv, BillInv
  <1>3. CallInv'
    BY DEF QuestionInv, CallInv, RoomLeft, Way, CallLimit
  <1>4. TextInv' /\ SourceInv'
    BY DEF QuestionInv, TextInv, Unfit, SourceInv
  <1>5. PlainAnswersSpeak' /\ AnswersAreGrounded'
    BY DEF QuestionInv, PlainAnswersSpeak, AnswersAreGrounded
  <1> QED
    BY <1>1, <1>2, <1>3, <1>4, <1>5 DEF QuestionInv

\* What a step records stays within the cap, or is the poll of a consensus.
LEMMA UsedStep ==
  ASSUME TypeOK, PlaceInv, Next
  PROVE  \/ used' = used
         \/ used' <= Cap
         \/ ask.mode = "consensus" /\ used' <= Cap + (Enabled - 1)
  <1> DEFINE Within ==
        \/ used' = used
        \/ used' <= Cap
        \/ ask.mode = "consensus" /\ used' <= Cap + (Enabled - 1)
  <1>0. used \in Nat /\ Cap \in Nat /\ Enabled \in Nat /\ Enabled > 0
    BY CapAssumption, EnabledAssumption DEF TypeOK
  <1> SUFFICES Within
    OBVIOUS
  <1> USE DEF Reply, Bill, GoTo, TryNext, End, FallBack, Finish, Trouble, TrySource, work, retrieving,
          Fits
  <1>1. CASE Ask
    BY <1>1, <1>0 DEF Ask
  <1>2. CASE TurnAway
    BY <1>2, <1>0 DEF TurnAway
  <1>3. CASE Repair
    BY <1>3, <1>0 DEF Repair
  <1>4. CASE Draft
    BY <1>4, <1>0 DEF Draft
  <1>5. CASE DraftAgain
    BY <1>5, <1>0 DEF DraftAgain
  <1>6. CASE Critic
    BY <1>6, <1>0 DEF Critic
  <1>7. CASE CriticAgain
    BY <1>7, <1>0 DEF CriticAgain
  <1>8. CASE Refine
    BY <1>8, <1>0 DEF Refine
  <1>9. CASE Rewrite
    BY <1>9, <1>0 DEF Rewrite
  <1>10. CASE Rescue
    BY <1>10, <1>0 DEF Rescue
  <1>11. CASE RefineStream
    BY <1>11, <1>0 DEF RefineStream
  <1>12. CASE DraftFails
    BY <1>12, <1>0 DEF DraftFails
  <1>13. CASE CriticFails
    BY <1>13, <1>0 DEF CriticFails
  <1>14. CASE RefineFails
    BY <1>14, <1>0 DEF RefineFails
  <1>15. CASE RefineStreamFails
    BY <1>15, <1>0 DEF RefineStreamFails
  <1>16. CASE OpenA
    BY <1>16, <1>0 DEF OpenA
  <1>17. CASE OpenB
    BY <1>17, <1>0 DEF OpenB
  <1>18. CASE CloseA
    BY <1>18, <1>0 DEF CloseA
  <1>19. CASE CloseB
    BY <1>19, <1>0 DEF CloseB
  <1>20. CASE Judge
    BY <1>20, <1>0 DEF Judge
  <1>21. CASE Synthesize
    BY <1>21, <1>0 DEF Synthesize
  <1>22. CASE Resynthesize
    BY <1>22, <1>0 DEF Resynthesize
  <1>23. CASE DebateFails
    BY <1>23, <1>0 DEF DebateFails
  <1>24. CASE Specialist
    BY <1>24, <1>0 DEF Specialist
  <1>25. CASE Combine
    BY <1>25, <1>0 DEF Combine
  <1>26. CASE CouncilFails
    BY <1>26, <1>0 DEF CouncilFails
  <1>27. CASE Poll
    <2>1. CASE used' = used
      BY <2>1
    <2>2. CASE used' # used
      <3>1. PICK n \in 1 .. Enabled : used' = used + n
        BY <1>0, <1>27, <2>2 DEF Poll
      <3>2. used < Cap /\ ask.mode = "consensus"
        BY <1>27, <1>0, <2>2 DEF Poll, PlaceInv, ConsensusStages
      <3> QED
        BY <1>0, <3>1, <3>2
    <2> QED
      BY <2>1, <2>2
  <1>28. CASE PollEmpty
    <2>1. PICK n \in 1 .. Enabled : used' = used + n \/ used' = used
      BY <1>28 DEF PollEmpty
    <2>2. used < Cap /\ ask.mode = "consensus"
      BY <1>28 DEF PollEmpty, PlaceInv, ConsensusStages
    <2> QED
      BY <1>0, <2>1, <2>2
  <1>29. CASE Search
    BY <1>29, <1>0 DEF Search
  <1>30. CASE Adjudicate
    BY <1>30, <1>0 DEF Adjudicate
  <1>31. CASE AdjudicationFails
    BY <1>31, <1>0 DEF AdjudicationFails
  <1>32. CASE Pages
    BY <1>32, <1>0 DEF Pages
  <1>33. CASE TimeSource
    BY <1>33, <1>0 DEF TimeSource
  <1>34. CASE FinanceSource
    BY <1>34, <1>0 DEF FinanceSource
  <1>35. CASE SportsSource
    BY <1>35, <1>0 DEF SportsSource
  <1>36. CASE WebSearch
    BY <1>36, <1>0 DEF WebSearch
  <1>37. CASE WeatherSource
    BY <1>37, <1>0 DEF WeatherSource
  <1>38. CASE Unsourced
    BY <1>38, <1>0 DEF Unsourced
  <1>39. CASE Rendered
    BY <1>39, <1>0 DEF Rendered
  <1>40. CASE Compose
    BY <1>40, <1>0 DEF Compose
  <1>41. CASE Ground
    BY <1>41, <1>0 DEF Ground
  <1>42. CASE GroundFails
    BY <1>42, <1>0 DEF GroundFails
  <1>43. CASE Single
    BY <1>43, <1>0 DEF Single
  <1>44. CASE SingleFails
    BY <1>44, <1>0 DEF SingleFails
  <1>45. CASE Abandon
    BY <1>45, <1>0 DEF Abandon
  <1>46. CASE Verify
    BY <1>46, <1>0 DEF Verify, Unfit
  <1>47. CASE Propose
    BY <1>47, <1>0 DEF Propose
  <1>48. CASE ProposeFails
    BY <1>48, <1>0 DEF ProposeFails
  <1> QED
    BY <1>1, <1>2, <1>3, <1>4, <1>5, <1>6, <1>7, <1>8, <1>9, <1>10, <1>11, <1>12, <1>13,
       <1>14, <1>15, <1>16, <1>17, <1>18, <1>19, <1>20, <1>21, <1>22, <1>23, <1>24, <1>25,
       <1>26, <1>27, <1>28, <1>29, <1>30, <1>31, <1>32, <1>33, <1>34, <1>35, <1>36, <1>37,
       <1>38, <1>39, <1>40, <1>41, <1>42, <1>43, <1>44, <1>45, <1>46, <1>47,
       <1>48
       DEF Next, Critique, Debate, Council, Consensus, Retrieval, Alone

-----------------------------------------------------------------------------
(* A batch.                                                                 *)

\* The first of some jobs is one of them.
LEMMA FirstJob ==
  ASSUME NEW S \in SUBSET Jobs, S # {}
  PROVE  First(S) \in S
  <1> DEFINE Below == {pair \in Nat \X Nat : pair[1] < pair[2]}
  <1>1. S \subseteq Nat
    BY CountAssumption DEF Jobs
  <1>2. PICK x \in S : \A y \in S : <<y, x>> \notin Below
    <2>1. IsWellFoundedOn(Below, Nat)
      BY NatLessThanWellFounded DEF OpToRel
    <2> HIDE DEF Below
    <2> QED
      BY <1>1, <2>1, WFMin
  <1>3. ASSUME NEW y \in S
        PROVE  x <= y
    <2>1. x \in Nat /\ y \in Nat /\ ~(y < x)
      BY <1>1, <1>2
    <2> QED
      BY <2>1
  <1> QED
    BY <1>3 DEF First

LEMMA QueryTyped ==
  ASSUME NEW j \in Jobs \ Void
  PROVE  Query[j] \in Questions
  BY QueryAssumption DEF Void, Questions

LEMMA NoJobIsNone == NoJob \notin Jobs
  BY DEF NoJob, Jobs

\* The question in hand stays well formed.
LEMMA QuestionBatchStep ==
  ASSUME QuestionInv, BatchTypeOK, [BatchNext]_all
  PROVE  QuestionInv'
  <1> USE DEF all, pass, output, history
  <1>1. CASE Goes
    BY <1>1, QuestionStep DEF Goes
  <1>2. CASE Begins
    <2>1. CASE UNCHANGED vars
      BY <2>1, QuestionStays
    <2>2. CASE First(todo) \notin Void
      <3>1. First(todo) \in Jobs
        BY <1>2, FirstJob DEF Begins, BatchTypeOK
      <3>2. Asked(Query[First(todo)]) /\ used' = used
        BY <1>2, <2>2 DEF Begins
      <3> QED
        BY <2>2, <3>1, <3>2, QueryTyped, AskedInv DEF QuestionInv, TypeOK
    <2> QED
      BY <1>2, <2>1, <2>2 DEF Begins
  <1>3. CASE Skips
    BY <1>3, QuestionStays DEF Skips
  <1>4. CASE Ends
    BY <1>4, QuestionStays DEF Ends
  <1>5. CASE Over
    BY <1>5, QuestionStays DEF Over
  <1>6. CASE Crash
    BY <1>6, AskedInv DEF Crash, QuestionInv, TypeOK
  <1>7. CASE Resume
    <2>1. used' \in Nat
      BY <1>7, BeforeAssumption, CapAssumption DEF Resume
    <2> QED
      BY <1>7, <2>1, AskedInv DEF Resume, QuestionInv, TypeOK
  <1>8. CASE UNCHANGED all
    BY <1>8, QuestionStays
  <1> QED
    BY <1>1, <1>2, <1>3, <1>4, <1>5, <1>6, <1>7, <1>8 DEF BatchNext, BatchStep

\* A batch stays well formed.
LEMMA BatchTypeStep ==
  ASSUME QuestionInv, BatchTypeOK, CountInv, [BatchNext]_all
  PROVE  BatchTypeOK'
  <1>0. /\ MaxCrashes \in Nat /\ MaxResumes \in Nat /\ BatchTypeOK
        /\ answered \in [Jobs -> 0 .. 1 + MaxResumes] /\ resumes \in 0 .. MaxResumes
        /\ at \in Jobs \cup {NoJob} /\ NoJob \notin Jobs
    BY BoundsAssumption, NoJobIsNone DEF BatchTypeOK
  <1> USE DEF all, pass, output, history, BatchTypeOK
  <1>1. CASE Goes
    <2>1. CASE answered' = answered
      BY <1>1, <1>0, <2>1 DEF Goes, Enters
    <2>2. CASE answered' # answered
      <3>1. answered' = [answered EXCEPT ![at] = @ + 1] /\ batch = "running" /\ at # NoJob
        BY <1>1, <2>2 DEF Goes
      <3>2. at \in Jobs /\ answered[at] <= resumes
        BY <1>1, <1>0, <3>1, KeptStep DEF Goes, CountInv, CountClause, Answered
      <3>3. answered[at] + 1 \in 0 .. 1 + MaxResumes
        BY <1>0, <3>2
      <3>4. answered' \in [Jobs -> 0 .. 1 + MaxResumes]
        BY <1>0, <3>1, <3>3
      <3> QED
        BY <1>1, <1>0, <3>4 DEF Goes, Enters
    <2> QED
      BY <2>1, <2>2
  <1>2. CASE Begins
    BY <1>2, <1>0, FirstJob DEF Begins
  <1>3. CASE Skips
    BY <1>3, <1>0 DEF Skips
  <1>4. CASE Ends
    BY <1>4, <1>0 DEF Ends
  <1>5. CASE Over
    BY <1>5, <1>0 DEF Over
  <1>6. CASE Crash
    <2>1. torn' \in BOOLEAN
      BY <1>6 DEF Crash
    <2>2. crashes' \in 0 .. MaxCrashes
      BY <1>6, <1>0 DEF Crash
    <2>3. /\ batch' = "dead" /\ todo' = todo /\ skipped' = skipped /\ at' = at /\ entered' = entered
          /\ stopped' = stopped /\ rows' = rows /\ answered' = answered /\ resumes' = resumes
      BY <1>6 DEF Crash
    <2> QED
      BY <1>0, <2>1, <2>2, <2>3
  <1>7. CASE Resume
    <2>1. todo' \subseteq Jobs /\ skipped' = {} /\ at' = NoJob /\ batch' = "running"
      BY <1>7 DEF Resume, Unfinished
    <2>2. resumes' \in 0 .. MaxResumes
      BY <1>7, <1>0 DEF Resume
    <2>3. /\ entered' = FALSE /\ stopped' = FALSE /\ rows' = rows /\ torn' = torn
          /\ answered' = answered /\ crashes' = crashes
      BY <1>7 DEF Resume
    <2> QED
      BY <1>0, <2>1, <2>2, <2>3
  <1>8. CASE UNCHANGED all
    BY <1>8, <1>0 DEF vars
  <1> QED
    BY <1>1, <1>2, <1>3, <1>4, <1>5, <1>6, <1>7, <1>8 DEF BatchNext, BatchStep

\* A pass leaves no job without a trace, and asks none that has its row.
LEMMA PassStep ==
  ASSUME QuestionInv, BatchTypeOK, PassInv, [BatchNext]_all
  PROVE  PassInv'
  <1>0. /\ todo \subseteq Jobs /\ at \in Jobs \cup {NoJob} /\ NoJob \notin Jobs
        /\ rows \in [Jobs -> SUBSET {"ok", "failed"}] /\ Named \subseteq Jobs
    BY NamedAssumption, NoJobIsNone DEF BatchTypeOK
  <1> USE DEF all, pass, output, history, PassInv, PassClause
  <1>1. CASE Goes
    BY <1>1, <1>0 DEF Goes, Enters
  <1>2. CASE Begins
    BY <1>2, <1>0, FirstJob DEF Begins
  <1>3. CASE Skips
    BY <1>3, <1>0 DEF Skips
  <1>4. CASE Ends
    BY <1>4, <1>0 DEF Ends
  <1>5. CASE Over
    BY <1>5, <1>0 DEF Over
  <1>6. CASE Crash
    BY <1>6, <1>0 DEF Crash
  <1>7. CASE Resume
    BY <1>7, <1>0 DEF Resume, Unfinished
  <1>8. CASE UNCHANGED all
    BY <1>8, <1>0 DEF vars
  <1> QED
    BY <1>1, <1>2, <1>3, <1>4, <1>5, <1>6, <1>7, <1>8 DEF BatchNext, BatchStep

\* A job is answered once a pass, and a job with an id once, unless the batch is killed.
LEMMA CountStep ==
  ASSUME QuestionInv, BatchTypeOK, PassInv, CountInv, [BatchNext]_all
  PROVE  CountInv'
  <1>0. /\ todo \subseteq Jobs /\ at \in Jobs \cup {NoJob} /\ NoJob \notin Jobs
        /\ rows \in [Jobs -> SUBSET {"ok", "failed"}] /\ Named \subseteq Jobs
        /\ answered \in [Jobs -> Nat] /\ resumes \in Nat /\ crashes \in Nat
    BY NamedAssumption, NoJobIsNone DEF BatchTypeOK
  <1> SUFFICES ASSUME NEW j \in Jobs
               PROVE  CountClause(j)' /\ (j \in Named => NamedClause(j)')
    BY NamedAssumption DEF CountInv
  <1>9. CountClause(j) /\ (j \in Named => NamedClause(j))
    BY DEF CountInv
  <1> USE DEF all, pass, output, history, CountClause, NamedClause
  <1>1. CASE Goes
    <2>1. /\ ~Answered /\ batch' = batch /\ at' = at /\ resumes' = resumes /\ crashes' = crashes
          /\ batch \in {"lone", "running"} /\ (batch = "running" => at \in Jobs)
      BY <1>1, <1>0, KeptStep DEF Goes, Answered
    <2>2. /\ todo' \subseteq todo /\ ("ok" \in rows'[j] <=> "ok" \in rows[j])
          /\ (batch = "lone" => rows' = rows)
      BY <1>1, <1>0 DEF Goes, Enters
    <2>3. CASE batch = "running" /\ Answered' /\ j = at
      <3>1. answered'[j] = answered[j] + 1
        BY <1>1, <1>0, <2>3 DEF Goes
      <3>2. answered[j] <= resumes /\ answered[j] \in Nat
        BY <1>0, <1>9, <2>1, <2>3
      <3>3. j \notin todo'
        BY <1>0, <2>2, <2>3 DEF PassInv
      <3>4. j \in Named => answered[j] <= crashes
        BY <1>0, <1>9, <2>1, <2>3 DEF PassInv, PassClause
      <3>5. /\ answered'[j] <= 1 + resumes /\ answered'[j] > 0
            /\ j \in Named => answered'[j] <= 1 + crashes
        BY <1>0, <3>1, <3>2, <3>4
      <3> QED
        BY <2>1, <2>3, <3>3, <3>5
    <2>4. CASE ~(batch = "running" /\ Answered' /\ j = at)
      <3>1. answered'[j] = answered[j]
        BY <1>1, <1>0, <2>4 DEF Goes
      <3>2. CountClause(j)'
        BY <1>0, <1>9, <2>1, <2>2, <2>4, <3>1
      <3>3. j \in Named => NamedClause(j)'
        BY <1>0, <1>9, <2>1, <2>2, <2>4, <3>1
      <3> QED
        BY <3>2, <3>3
    <2> QED
      BY <2>3, <2>4
  <1>2. CASE Begins
    BY <1>2, <1>0, <1>9, FirstJob DEF Begins, Asked, Answered
  <1>3. CASE Skips
    BY <1>3, <1>0, <1>9 DEF Skips
  <1>4. CASE Ends
    BY <1>4, <1>0, <1>9 DEF Ends
  <1>5. CASE Over
    BY <1>5, <1>0, <1>9 DEF Over
  <1>6. CASE Crash
    BY <1>6, <1>0, <1>9 DEF Crash, Asked, Answered
  <1>7. CASE Resume
    BY <1>7, <1>0, <1>9 DEF Resume, Asked, Answered, Unfinished
  <1>8. CASE UNCHANGED all
    BY <1>8, <1>0, <1>9 DEF vars, Answered
  <1> QED
    BY <1>1, <1>2, <1>3, <1>4, <1>5, <1>6, <1>7, <1>8 DEF BatchNext, BatchStep

\* Only a job of the batch makes it a poll.
LEMMA ModeStep ==
  ASSUME QuestionInv, BatchTypeOK, ModeInv, [BatchNext]_all
  PROVE  ModeInv'
  <1>0. todo \subseteq Jobs
    BY DEF BatchTypeOK
  <1> USE DEF all, pass, output, history, ModeInv
  <1>1. CASE Goes
    BY <1>1, KeptStep DEF Goes
  <1>2. CASE Begins
    BY <1>2, <1>0, FirstJob DEF Begins, Asked, vars
  <1>3. CASE Skips
    BY <1>3, <1>0 DEF Skips, vars
  <1>4. CASE Ends
    BY <1>4, <1>0 DEF Ends, vars
  <1>5. CASE Over
    BY <1>5, <1>0 DEF Over, vars
  <1>6. CASE Crash
    BY <1>6, <1>0 DEF Crash, Asked
  <1>7. CASE Resume
    BY <1>7, <1>0 DEF Resume, Asked
  <1>8. CASE UNCHANGED all
    BY <1>8, <1>0 DEF vars
  <1> QED
    BY <1>1, <1>2, <1>3, <1>4, <1>5, <1>6, <1>7, <1>8 DEF BatchNext, BatchStep

\* Neither a question nor a batch passes the cap, but for the answers of a poll.
LEMMA BudgetStep ==
  ASSUME QuestionInv, BatchTypeOK, ModeInv, BudgetHolds, [BatchNext]_all
  PROVE  BudgetHolds'
  <1> DEFINE Within == used <= Cap \/ (Polls /\ used <= Cap + (Enabled - 1))
  <1>0. /\ used \in Nat /\ used' \in Nat /\ Cap \in Nat /\ Enabled \in Nat /\ Enabled > 0
    BY CapAssumption, EnabledAssumption, QuestionBatchStep DEF QuestionInv, TypeOK
  <1>9. Within
    <2>1. CASE Polls
      BY <1>0, <2>1 DEF BudgetHolds
    <2>2. CASE ~Polls
      BY <1>0, <2>2 DEF BudgetHolds
    <2> QED
      BY <2>1, <2>2
  <1> SUFFICES Within'
    <2>1. CASE Polls'
      BY <1>0, <2>1 DEF BudgetHolds
    <2>2. CASE ~Polls'
      BY <1>0, <2>2 DEF BudgetHolds
    <2> QED
      BY <2>1, <2>2
  <1>10. ASSUME batch' # "lone", batch # "lone" PROVE Polls => Polls'
    BY <1>10 DEF Polls, ModeInv
  <1> USE DEF all, pass, output, history
  <1>1. CASE Goes
    <2>1. Next /\ batch' = batch
      BY <1>1 DEF Goes
    <2>2. Polls' <=> Polls
      BY <2>1, KeptStep DEF Polls
    <2>3. ask.mode = "consensus" => Polls
      BY DEF Polls
    <2>4. \/ used' = used
          \/ used' <= Cap
          \/ ask.mode = "consensus" /\ used' <= Cap + (Enabled - 1)
      BY <2>1, UsedStep DEF QuestionInv
    <2> QED
      BY <1>9, <2>2, <2>3, <2>4
  <1>2. CASE Begins
    BY <1>2, <1>9, <1>10 DEF Begins, vars
  <1>3. CASE Skips
    BY <1>3, <1>9, <1>10 DEF Skips, vars
  <1>4. CASE Ends
    BY <1>4, <1>9, <1>10 DEF Ends, vars
  <1>5. CASE Over
    BY <1>5, <1>9, <1>10 DEF Over, vars
  <1>6. CASE Crash
    BY <1>6, <1>9, <1>10 DEF Crash
  <1>7. CASE Resume
    BY <1>7, <1>0, BeforeAssumption DEF Resume
  <1>8. CASE UNCHANGED all
    BY <1>8, <1>9 DEF vars, Polls
  <1> QED
    BY <1>1, <1>2, <1>3, <1>4, <1>5, <1>6, <1>7, <1>8 DEF BatchNext, BatchStep

\* When a batch is over, every job has a trace.
LEMMA AccountedStep ==
  ASSUME QuestionInv, BatchTypeOK, PassInv, JobsAreAccounted, [BatchNext]_all
  PROVE  JobsAreAccounted'
  <1>0. todo \subseteq Jobs /\ at \in Jobs \cup {NoJob} /\ NoJob \notin Jobs
    BY NoJobIsNone DEF BatchTypeOK
  <1> USE DEF all, pass, output, history, JobsAreAccounted
  <1>1. CASE Goes
    BY <1>1, <1>0 DEF Goes
  <1>2. CASE Begins
    BY <1>2, <1>0 DEF Begins
  <1>3. CASE Skips
    BY <1>3, <1>0 DEF Skips
  <1>4. CASE Ends
    BY <1>4, <1>0 DEF Ends
  <1>5. CASE Over
    BY <1>5, <1>0 DEF Over, PassInv, PassClause
  <1>6. CASE Crash
    BY <1>6, <1>0 DEF Crash
  <1>7. CASE Resume
    BY <1>7, <1>0 DEF Resume
  <1>8. CASE UNCHANGED all
    BY <1>8, <1>0 DEF vars
  <1> QED
    BY <1>1, <1>2, <1>3, <1>4, <1>5, <1>6, <1>7, <1>8 DEF BatchNext, BatchStep
-----------------------------------------------------------------------------
(* The theorems.                                                            *)

LEMMA BatchInvInit == BatchInit => BatchInv
  <1> SUFFICES ASSUME BatchInit PROVE BatchInv
    OBVIOUS
  <1>0. NoJob \notin Jobs /\ Named \subseteq Jobs /\ MaxCrashes \in Nat /\ MaxResumes \in Nat
    BY NoJobIsNone, NamedAssumption, BoundsAssumption
  <1>1. QuestionInv
    BY InitQuestion DEF BatchInit
  <1>2. BatchTypeOK
    <2>1. answered \in [Jobs -> 0 .. 1 + MaxResumes] /\ rows \in [Jobs -> SUBSET {"ok", "failed"}]
      BY <1>0 DEF BatchInit
    <2>2. crashes \in 0 .. MaxCrashes /\ resumes \in 0 .. MaxResumes
      BY <1>0 DEF BatchInit
    <2>3. /\ batch \in {"lone", "running"} /\ todo \subseteq Jobs /\ skipped = {} /\ at = NoJob
          /\ entered = FALSE /\ stopped = FALSE /\ torn = FALSE
      BY DEF BatchInit
    <2> QED
      BY <2>1, <2>2, <2>3 DEF BatchTypeOK
  <1>3. PassInv
    BY <1>0 DEF BatchInit, PassInv, PassClause
  <1>4. CountInv
    BY <1>0 DEF BatchInit, CountInv, CountClause, NamedClause, Init, Answered
  <1>5. ModeInv
    BY DEF BatchInit, ModeInv
  <1>6. BudgetHolds
    <2>1. /\ used \in Nat /\ used <= Cap /\ Cap \in Nat /\ Enabled \in Nat /\ Enabled > 0
      BY CapAssumption, EnabledAssumption, BeforeAssumption DEF BatchInit, Init
    <2>2. CASE Polls
      BY <2>1, <2>2 DEF BudgetHolds
    <2>3. CASE ~Polls
      BY <2>1, <2>3 DEF BudgetHolds
    <2> QED
      BY <2>2, <2>3
  <1>7. JobsAreAccounted
    BY DEF BatchInit, JobsAreAccounted
  <1> QED
    BY <1>1, <1>2, <1>3, <1>4, <1>5, <1>6, <1>7 DEF BatchInv

LEMMA BatchInvStep == BatchInv /\ [BatchNext]_all => BatchInv'
  BY QuestionBatchStep, BatchTypeStep, PassStep, CountStep, ModeStep, BudgetStep, AccountedStep
     DEF BatchInv

LEMMA BatchInvAlways == BatchSpec => []BatchInv
  BY BatchInvInit, BatchInvStep, PTL DEF BatchSpec

\* mmctl ask and the server (src/backend/orchestrator/router.py): whatever fails, is
\* repaired, falls back or is sent back, an answer that is neither streamed nor what a
\* poll said most is not blank, retrieval asks a model only with a document in hand, and
\* a result never reports more than was recorded for it.
THEOREM AnswersAreSound == BatchSpec => []AnswersOK
  <1>1. BatchInv => AnswersOK
    BY QuestionOK DEF BatchInv
  <1> QED
    BY <1>1, BatchInvAlways, PTL

\* For any number of providers, no mode sends more calls than its repairs, fallbacks and
\* fact check allow, and neither a question nor a batch of them records more than the cap,
\* but for the answers of one consensus poll.
THEOREM SpendingStaysBounded == BatchSpec => []SpendingIsBounded
  <1>1. BatchInv => SpendingIsBounded
    BY QuestionOK DEF BatchInv, SpendingIsBounded
  <1> QED
    BY <1>1, BatchInvAlways, PTL

\* mmctl batch: whatever is killed and resumed, a job with an id is answered once more at
\* most for each kill, its "ok" row stands for an answer, and a batch that is over has
\* left a trace of every job.
THEOREM BatchesAreSound == BatchSpec => []BatchOK
  <1>1. BatchInv => NamedJobsAreAnsweredOnce
    BY NamedAssumption DEF BatchInv, CountInv, CountClause, NamedClause,
        NamedJobsAreAnsweredOnce
  <1>2. BatchInv => BatchOK
    BY <1>1 DEF BatchInv, BatchOK
  <1> QED
    BY <1>2, BatchInvAlways, PTL

=============================================================================
