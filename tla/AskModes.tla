------------------------------ MODULE AskModes ------------------------------
(***************************************************************************)
(* One question through Orchestrator.ask or ask_stream: the single answer  *)
(* with its tool proposals and provider fallback, the collaboration        *)
(* workflows (critique, debate, consensus, council), retrieval, their      *)
(* fallback to a single answer, and the fact check.  What an approved tool *)
(* does is in ToolApprovals.  A provider call costs one unit and is      *)
(* estimated at one unit; a text is reduced to how the quality gates class *)
(* it.  How questions that run at the same time share the budget is in     *)
(* BudgetLedger; here earlier ones have left it at some amount.            *)
(***************************************************************************)
EXTENDS Naturals

CONSTANTS
    Enabled,    \* how many providers are enabled
    Cap,        \* the units every budget check allows
    Before      \* what earlier questions may have recorded

ASSUME EnabledAssumption == Enabled \in Nat \ {0}
ASSUME CapAssumption == Cap \in Nat
ASSUME BeforeAssumption == Before \subseteq 0 .. Cap

VARIABLES
    ask,        \* the question: its mode, whether it is streamed and checked, its tools
    source,     \* what the retrieved documents come from
    stage,      \* the stage whose call comes next
    turn,       \* the attempt at this stage, or the specialist's number
    asking,     \* which asking of a structured call this is
    draft,      \* how the critique's draft is classed
    text,       \* how the working answer is classed
    left,       \* the providers a single answer may still try
    blank,      \* the last provider tried answered without content
    alone,      \* the question is on the single-answer path
    fellBack,   \* something billed was given up on the way
    calls,      \* provider calls sent for this question
    spent,      \* units recorded for this question
    used,       \* units recorded in all
    total,      \* the cost the result in progress reports
    outcome     \* how the question ended, and in whose name

vars == <<ask, source, stage, turn, asking, draft, text, left, blank, alone, fellBack,
          calls, spent, used, total, outcome>>
work == <<ask, source, left, blank, alone, fellBack, outcome>>

Modes == {"single", "critique", "debate", "consensus", "council", "retrieval"}
Questions == [mode : Modes, streamed : BOOLEAN, checked : BOOLEAN, tools : BOOLEAN]

\* How quality_gates classes a text: no text, a placeholder, a refusal or a
\* review instead of an answer, a low score, or none of these.
Texts == {"empty", "stub", "beside", "weak", "good"}
Blank == {"empty", "stub"}
LowSignal == Blank \cup {"beside"}

\* The stages that ask through _call_structured_with_retry.
Structured ==
    {"draft", "draftAgain", "critic", "criticAgain", "refine", "rewrite",
     "rescue", "openA", "openB", "closeA", "closeB", "judge", "synthesize",
     "resynthesize", "specialist", "combine", "adjudicate", "tools"}
Stages == Structured \cup
    {"asked", "ended", "single", "poll", "search", "pages", "time", "finance",
     "sports", "web", "weather", "sourced", "ground", "refineStream", "verify"}

\* The index of the workspace's code, a page named in the question, one of the
\* special sources, or a web search.
SourceKinds == {"none", "index", "page", "time", "finance", "sports", "web", "weather"}

Init ==
    /\ ask \in Questions /\ source = "none"
    /\ stage = "asked" /\ turn = 1 /\ asking = 1
    /\ draft = "empty" /\ text = "empty"
    /\ left = Enabled /\ blank = FALSE /\ alone = FALSE /\ fellBack = FALSE
    /\ calls = 0 /\ spent = 0 /\ used \in Before /\ total = 0
    /\ outcome = "none"

Fits == used < Cap

GoTo(s, t) == stage' = s /\ turn' = t

End(o) ==
    /\ outcome' = o
    /\ stage' = "ended" /\ turn' = 1 /\ asking' = 1

-----------------------------------------------------------------------------
(* Taking a question *)

\* All the roles of a collaboration may come down to one provider and model,
\* which with one provider they do; the question is then answered singly.
OneProviderDoesAll(q, alike) ==
    alike /\ q.mode \in {"critique", "debate", "council"}
          /\ ~(q.streamed /\ q.mode = "critique")

MayBeAlike(q, alike) == (Enabled = 1 /\ q.mode # "debate") => alike

FirstStage(q) ==
    CASE q.mode = "single"    -> "single"
      [] q.mode = "critique"  -> "draft"
      [] q.mode = "debate"    -> "openA"
      [] q.mode = "consensus" -> "poll"
      [] q.mode = "council"   -> "specialist"
      [] q.mode = "retrieval" -> "pages"

\* Before each provider's answer to a question with tools, the provider
\* proposes a tool.
TryNext(l) == GoTo(IF ask.tools /\ l > 0 THEN "tools" ELSE "single", 1)

Ask ==
    /\ stage = "asked"
    /\ ask.tools => ask.mode = "single"
    /\ \E alike \in BOOLEAN :
          /\ MayBeAlike(ask, alike)
          /\ alone' = (ask.mode = "single" \/ OneProviderDoesAll(ask, alike))
    /\ IF alone' THEN TryNext(left) ELSE GoTo(FirstStage(ask), 1)
    /\ UNCHANGED <<ask, source, asking, draft, text, left, blank, fellBack, calls, spent,
                   used, total, outcome>>

\* The guardian's preflight, an unknown mode or tools outside single mode
\* refuse a question; a single one may be told to confirm a web search.
TurnAway ==
    /\ stage = "asked"
    /\ \/ End("refused")
       \/ ask.mode = "single" /\ End("confirm")
    /\ UNCHANGED <<ask, source, draft, text, left, blank, alone, fellBack, calls, spent,
                   used, total>>

-----------------------------------------------------------------------------
(* A call of a stage: checked against the budget, sent, and billed *)

Bill(n) ==
    /\ spent' = spent + n
    /\ used' = used + n
    /\ total' = total + n

\* The stage's text arrives and its last asking is billed.
Reply(s) ==
    /\ stage = s
    /\ Fits
    /\ calls' = calls + 1
    /\ Bill(1)
    /\ asking' = 1

\* A structured answer that does not parse is asked for again, twice at most;
\* what the earlier askings cost is not recorded.
Repair ==
    /\ stage \in Structured
    /\ asking < 3
    /\ Fits
    /\ asking' = asking + 1
    /\ calls' = calls + 1
    /\ UNCHANGED <<work, stage, turn, draft, text, spent, used, total>>

\* The budget refuses, the rate limiter refuses, or the provider fails.
Trouble ==
    /\ IF Fits THEN calls' \in {calls, calls + 1} ELSE calls' = calls
    /\ UNCHANGED <<spent, used>>

\* The workflow is given up for a single answer, whose cost is all the
\* result then reports.
FallBack ==
    /\ GoTo("single", 1)
    /\ asking' = 1
    /\ alone' = TRUE
    /\ left' = Enabled /\ blank' = FALSE
    /\ fellBack' = TRUE
    /\ total' = 0

\* The workflow has its answer.
Finish(x) == text' = x /\ GoTo("verify", 1)

-----------------------------------------------------------------------------
(* Draft, critique, refine *)

Draft ==
    /\ Reply("draft")
    /\ \E x \in Texts :
          \* an empty answer becomes the placeholder sentence
          /\ draft' = IF x = "empty" THEN "stub" ELSE x
          /\ \/ x \in LowSignal /\ ~ask.streamed /\ GoTo("draftAgain", 1)
             \/ (x \in Blank => ask.streamed) /\ GoTo("critic", 1)
    /\ UNCHANGED <<work, text>>

\* Mutant of DraftAgain: the second draft is billed and not counted.
DraftAgainUncounted ==
    /\ stage = "draftAgain"
    /\ Fits
    /\ calls' = calls + 1
    /\ spent' = spent + 1 /\ used' = used + 1
    /\ asking' = 1
    /\ \E x \in Texts : draft' = IF x = "empty" THEN draft ELSE x
    /\ GoTo("critic", 1)
    /\ UNCHANGED <<work, text, total>>

DraftAgain ==
    /\ Reply("draftAgain")
    /\ \E x \in Texts : draft' = IF x = "empty" THEN draft ELSE x
    /\ GoTo("critic", 1)
    /\ UNCHANGED <<work, text>>

\* A critique without a single remark is asked for once more.
Critic ==
    /\ Reply("critic")
    /\ \/ ~ask.streamed /\ GoTo("criticAgain", 1)
       \/ GoTo(IF ask.streamed THEN "refineStream" ELSE "refine", 1)
    /\ UNCHANGED <<work, draft, text>>

CriticAgain ==
    /\ Reply("criticAgain")
    /\ GoTo("refine", 1)
    /\ UNCHANGED <<work, draft, text>>

\* The draft with the critique's notes: only the notes when the draft is no
\* answer, which the gates take for a placeholder.
DraftAndNotes == IF draft \in LowSignal THEN "stub" ELSE draft

\* A weak or blank refinement opens the circuit breaker at once: the strict
\* second refinement of the code is never reached.
Refine ==
    /\ Reply("refine")
    /\ \E x \in Texts :
          \/ /\ x \in {"good", "beside"}   \* a refusal may be in order
             /\ Finish(x)
          \/ /\ x \in Blank \cup {"weak"}
             /\ Finish(DraftAndNotes)
          \/ /\ x = "beside"
             /\ IF DraftAndNotes \in LowSignal
                  THEN GoTo("rewrite", 1) /\ UNCHANGED text
                  ELSE Finish(DraftAndNotes)
    /\ UNCHANGED <<work, draft>>

Rewrite ==
    /\ Reply("rewrite")
    /\ GoTo("rescue", 1)
    /\ UNCHANGED <<work, draft, text>>

Rescue ==
    /\ Reply("rescue")
    /\ \E x \in Texts : Finish(IF x \in LowSignal THEN DraftAndNotes ELSE x)
    /\ UNCHANGED <<work, draft>>

\* The streamed critique asks its refiner once and takes what comes.
RefineStream ==
    /\ Reply("refineStream")
    /\ \E x \in Texts : Finish(x)
    /\ UNCHANGED <<work, draft>>

\* Without a draft there is nothing to fall back on but a single answer, or,
\* when streaming, the error.
DraftFails ==
    /\ stage \in {"draft", "draftAgain"}
    /\ Trouble
    /\ IF ask.streamed
         THEN End("error") /\ UNCHANGED <<ask, source, left, blank, alone, fellBack, total>>
         ELSE FallBack /\ UNCHANGED <<ask, source, outcome>>
    /\ UNCHANGED <<draft, text>>

\* Without a critique the draft is the answer; the streamed mode returns it
\* unchecked.
CriticFails ==
    /\ stage \in {"critic", "criticAgain"}
    /\ Trouble
    /\ IF ask.streamed
         THEN End("workflow") /\ text' = draft /\ UNCHANGED <<ask, source, left, blank, alone, fellBack>>
         ELSE Finish(draft) /\ asking' = 1 /\ UNCHANGED work
    /\ UNCHANGED <<draft, total>>

\* Without a refinement the draft and the notes are the answer.  The text
\* starts with the draft, so it is classed as the draft is.
RefineFails ==
    /\ stage \in {"refine", "rewrite", "rescue"}
    /\ Trouble
    /\ Finish(draft)
    /\ asking' = 1
    /\ UNCHANGED <<work, draft, total>>

\* When streaming, a budget refused before the refinement is an error and a
\* failure during it is not.
RefineStreamFails ==
    /\ stage = "refineStream"
    /\ Trouble
    /\ text' = draft
    /\ End(IF Fits THEN "workflow" ELSE "error")
    /\ UNCHANGED <<ask, source, left, blank, alone, fellBack, draft, total>>

-----------------------------------------------------------------------------
(* Debate *)

\* Debater A has two attempts at an argument with substance, B three.
OpenA ==
    /\ Reply("openA")
    /\ \E low \in BOOLEAN :
          IF low /\ turn < 2 THEN GoTo("openA", turn + 1) ELSE GoTo("openB", 1)
    /\ UNCHANGED <<work, draft, text>>

\* Mutant of OpenB: one attempt too many.
OpenBOn ==
    /\ Reply("openB")
    /\ \E low \in BOOLEAN :
          IF low /\ turn <= 3 THEN GoTo("openB", turn + 1) ELSE GoTo("closeA", 1)
    /\ UNCHANGED <<work, draft, text>>

OpenB ==
    /\ Reply("openB")
    /\ \E low \in BOOLEAN :
          IF low /\ turn < 3 THEN GoTo("openB", turn + 1) ELSE GoTo("closeA", 1)
    /\ UNCHANGED <<work, draft, text>>

\* The rebuttals and the verdict are taken as they come.
CloseA == Reply("closeA") /\ GoTo("closeB", 1) /\ UNCHANGED <<work, draft, text>>
CloseB == Reply("closeB") /\ GoTo("judge", 1) /\ UNCHANGED <<work, draft, text>>
Judge  == Reply("judge") /\ GoTo("synthesize", 1) /\ UNCHANGED <<work, draft, text>>

\* A synthesis that is empty or very short is asked for once more.
Synthesize ==
    /\ Reply("synthesize")
    /\ \/ GoTo("resynthesize", 1) /\ UNCHANGED text
       \/ \E x \in Texts \ {"empty"} : Finish(x)
    /\ UNCHANGED <<work, draft>>

\* If it is still empty, the chosen argument and the verdict are the answer.
Resynthesize ==
    /\ Reply("resynthesize")
    /\ \E x \in Texts \ {"empty"} : Finish(x)
    /\ UNCHANGED <<work, draft>>

DebateFails ==
    /\ stage \in {"openA", "openB", "closeA", "closeB", "judge", "synthesize",
                  "resynthesize"}
    /\ Trouble
    /\ FallBack
    /\ UNCHANGED <<ask, source, draft, text, outcome>>

-----------------------------------------------------------------------------
(* Council *)

Specialists == 4

Specialist ==
    /\ Reply("specialist")
    /\ IF turn < Specialists THEN GoTo("specialist", turn + 1) ELSE GoTo("combine", 1)
    /\ UNCHANGED <<work, draft, text>>

Combine ==
    /\ stage = "combine"
    /\ Fits
    /\ calls' = calls + 1
    /\ spent' = spent + 1
    /\ used' = used + 1
    /\ \E x \in Texts :
          \/ /\ x \notin LowSignal
             /\ Finish(x)
             /\ asking' = 1 /\ total' = total + 1
             /\ UNCHANGED work
          \* a synthesis put together from what the specialists said
          \/ /\ x \in LowSignal
             /\ Finish("good")
             /\ asking' = 1 /\ total' = total + 1
             /\ UNCHANGED work
          \* nothing a specialist said can be used either
          \/ /\ x \in LowSignal
             /\ FallBack
             /\ UNCHANGED <<ask, source, text, outcome>>
    /\ UNCHANGED draft

CouncilFails ==
    /\ stage \in {"specialist", "combine"}
    /\ Trouble
    /\ FallBack
    /\ UNCHANGED <<ask, source, draft, text, outcome>>

-----------------------------------------------------------------------------
(* Consensus *)

\* Every provider is asked at once: each passes the budget check before any
\* answer is billed.  One answer is taken as it is, several if they agree.
Poll ==
    /\ stage = "poll"
    /\ \E answered \in 0 .. (IF Fits THEN Enabled ELSE 0) :
          /\ \E sent \in answered .. (IF Fits THEN Enabled ELSE 0) : calls' = calls + sent
          /\ IF answered = 0
               THEN /\ FallBack
                    /\ UNCHANGED <<ask, source, text, outcome, spent, used>>
               ELSE /\ Bill(answered)
                    /\ UNCHANGED <<work, asking>>
                    /\ \/ \E x \in Texts \ {"empty"} : Finish(x)
                       \/ answered > 1 /\ GoTo("search", 1) /\ UNCHANGED text
    /\ UNCHANGED draft

\* An empty answer the providers agree on is no answer.
PollEmpty ==
    /\ stage = "poll"
    /\ Fits
    /\ \E answered \in 1 .. Enabled :
          /\ calls' = calls + answered
          /\ spent' = spent + answered
          /\ used' = used + answered
    /\ FallBack
    /\ UNCHANGED <<ask, source, draft, text, outcome>>

\* Sources for the adjudicator; only the search itself can fail.
Search ==
    /\ stage = "search"
    /\ \/ GoTo("adjudicate", 1) /\ UNCHANGED <<work, asking, total>>
       \/ FallBack /\ UNCHANGED <<ask, source, outcome>>
    /\ UNCHANGED <<draft, text, calls, spent, used>>

Adjudicate ==
    /\ stage = "adjudicate"
    /\ Fits
    /\ calls' = calls + 1
    /\ spent' = spent + 1
    /\ used' = used + 1
    /\ \/ /\ \E x \in Texts \ {"empty"} : Finish(x)
          /\ asking' = 1 /\ total' = total + 1
          /\ UNCHANGED work
       \/ FallBack /\ UNCHANGED <<ask, source, text, outcome>>
    /\ UNCHANGED draft

AdjudicationFails ==
    /\ stage = "adjudicate"
    /\ Trouble
    /\ FallBack
    /\ UNCHANGED <<ask, source, draft, text, outcome>>

-----------------------------------------------------------------------------
(* Retrieval *)

retrieving == <<ask, asking, draft, text, left, blank, alone, fellBack, calls, spent,
                used, total>>

\* One source is asked: it has a document, and no further one is needed, or
\* it has none or fails, which is only a warning.
TrySource(kind, next) ==
    /\ stage = kind
    /\ \/ source' = kind /\ GoTo("sourced", 1)
       \/ GoTo(next, 1) /\ UNCHANGED source
    /\ UNCHANGED <<retrieving, outcome>>

\* For a question about code the index comes first; then the pages that the
\* question names.
Pages ==
    /\ stage = "pages"
    /\ \/ source' \in {"none", "index"} /\ GoTo("time", 1)
       \/ source' = "page" /\ GoTo("sourced", 1)
    /\ UNCHANGED <<retrieving, outcome>>

TimeSource    == TrySource("time", "finance")
FinanceSource == TrySource("finance", "sports")
SportsSource  == TrySource("sports", "web")

\* Pages of a web search or what it says of them; the weather is asked for when
\* there is no document at all.
WebSearch == TrySource("web", IF source = "none" THEN "weather" ELSE "sourced")

WeatherSource == TrySource("weather", "sourced")

\* No document: answered in nobody's name.
Unsourced ==
    /\ stage = "sourced"
    /\ source = "none"
    /\ End("unsourced")
    /\ UNCHANGED <<ask, source, draft, text, left, blank, alone, fellBack, calls,
                   spent, used, total>>

\* A finance or sports document may say it all.
Rendered ==
    /\ stage = "sourced"
    /\ source \in {"finance", "sports"}
    /\ End("rendered")
    /\ UNCHANGED <<ask, source, draft, text, left, blank, alone, fellBack, calls,
                   spent, used, total>>

\* The documents go into the prompt.
Compose ==
    /\ stage = "sourced"
    /\ source # "none"
    /\ GoTo("ground", 1)
    /\ UNCHANGED <<retrieving, source, outcome>>

\* A blank answer is replaced by the list of citations.
Ground ==
    /\ left > 0
    /\ Reply("ground")
    /\ \E x \in Texts : Finish(IF x \in Blank THEN "good" ELSE x)
    /\ UNCHANGED <<work, draft>>

\* The rate limiter's refusal moves on to the next provider; anything else
\* is the caller's error.
GroundFails ==
    /\ stage = "ground"
    /\ \/ /\ Fits /\ left > 0
          /\ left' = left - 1
          /\ UNCHANGED <<calls, stage, turn, asking, outcome>>
       \/ /\ left > 0
          /\ calls' \in {calls, IF Fits THEN calls + 1 ELSE calls}
          /\ End("error")
          /\ UNCHANGED left
       \/ left = 0 /\ End("error") /\ UNCHANGED <<left, calls>>
    /\ UNCHANGED <<ask, source, draft, text, blank, alone, fellBack, spent, used, total>>

-----------------------------------------------------------------------------
(* A single answer, asked for or fallen back to *)

\* The provider proposes a tool or none; what the tool puts out goes into the
\* prompt.  The proposal is recorded, and is no part of the cost reported.
Propose ==
    /\ stage = "tools"
    /\ Fits
    /\ calls' = calls + 1
    /\ spent' = spent + 1
    /\ used' = used + 1
    /\ GoTo("single", 1) /\ asking' = 1
    /\ UNCHANGED <<work, draft, text, total>>

\* A proposal that fails, by the rate limiter too, is the caller's error.
ProposeFails ==
    /\ stage = "tools"
    /\ Trouble
    /\ End("error")
    /\ UNCHANGED <<ask, source, left, blank, alone, fellBack, draft, text, total>>

\* A blank answer is billed and the next provider is tried.  A streamed one
\* has been shown already, and stands.
Single ==
    /\ stage = "single"
    /\ left > 0
    /\ Fits
    /\ calls' = calls + 1
    /\ spent' = spent + 1
    /\ used' = used + 1
    /\ \E x \in Texts :
          IF x \in Blank /\ ~(ask.streamed /\ ask.mode = "single")
            THEN /\ left' = left - 1
                 /\ blank' = TRUE
                 /\ fellBack' = TRUE
                 /\ TryNext(left - 1)
                 /\ UNCHANGED <<text, total>>
            ELSE /\ Finish(IF x = "empty" THEN "stub" ELSE x)
                 /\ total' = 1
                 /\ UNCHANGED <<left, blank, fellBack>>
    /\ UNCHANGED <<ask, source, asking, draft, alone, outcome>>

\* Mutant of SingleFails: the provider the rate limiter refused is tried again.
SingleFailsAgain ==
    /\ stage = "single"
    /\ \/ /\ Fits /\ left > 0
          /\ blank' = ~blank
          /\ UNCHANGED <<calls, stage, turn, asking, outcome, left>>
       \/ /\ left > 0
          /\ calls' \in {calls, IF Fits THEN calls + 1 ELSE calls}
          /\ End("error")
          /\ UNCHANGED <<left, blank>>
       \/ /\ left = 0
          /\ End(IF blank THEN "contentless" ELSE "error")
          /\ UNCHANGED <<left, blank, calls>>
    /\ UNCHANGED <<ask, source, draft, text, alone, fellBack, spent, used, total>>

SingleFails ==
    /\ stage = "single"
    /\ \/ /\ Fits /\ left > 0
          /\ left' = left - 1
          /\ blank' = FALSE
          /\ fellBack' = (fellBack \/ ask.tools)
          /\ TryNext(left - 1)
          /\ UNCHANGED <<calls, asking, outcome>>
       \/ /\ left > 0
          /\ calls' \in {calls, IF Fits THEN calls + 1 ELSE calls}
          /\ End("error")
          /\ UNCHANGED <<left, blank, fellBack>>
       \/ /\ left = 0
          /\ End(IF blank THEN "contentless" ELSE "error")
          /\ UNCHANGED <<left, blank, fellBack, calls>>
    /\ UNCHANGED <<ask, source, draft, text, alone, spent, used, total>>

\* The reader of a stream goes away while a provider is answering: what was
\* sent is not billed.
Abandon ==
    /\ ask.streamed
    /\ stage = "refineStream" \/ (stage \in {"tools", "single"} /\ ask.mode = "single")
    /\ Fits /\ left > 0
    /\ calls' = calls + 1
    /\ End("abandoned")
    /\ UNCHANGED <<ask, source, draft, text, left, blank, alone, fellBack, spent, used,
                   total>>

-----------------------------------------------------------------------------
(* The fact check, and what is done with an answer that says nothing *)

\* What of a workflow's answer sends the question back for a single one.
Unfit ==
    IF alone \/ (ask.streamed /\ ask.mode = "critique") THEN {}
    ELSE CASE ask.mode = "critique" -> Blank
           [] ask.mode = "debate"   -> LowSignal
           [] OTHER                 -> {}

\* The fact check calls a provider without asking the budget or telling it,
\* and before an unfit answer is noticed.
Verify ==
    /\ stage = "verify"
    /\ calls' \in IF ask.checked THEN {calls, calls + 1} ELSE {calls}
    /\ IF text \in Unfit
         THEN FallBack /\ UNCHANGED <<ask, source, outcome>>
         ELSE /\ End(IF alone THEN "single" ELSE "workflow")
              /\ UNCHANGED <<ask, source, left, blank, alone, fellBack, total>>
    /\ UNCHANGED <<draft, text, spent, used>>

-----------------------------------------------------------------------------
Critique == Draft \/ DraftAgain \/ Critic \/ CriticAgain \/ Refine \/ Rewrite
            \/ Rescue \/ RefineStream \/ DraftFails \/ CriticFails
            \/ RefineFails \/ RefineStreamFails
Debate == OpenA \/ OpenB \/ CloseA \/ CloseB \/ Judge \/ Synthesize
          \/ Resynthesize \/ DebateFails
Council == Specialist \/ Combine \/ CouncilFails
Consensus == Poll \/ PollEmpty \/ Search \/ Adjudicate \/ AdjudicationFails
Retrieval == Pages \/ TimeSource \/ FinanceSource \/ SportsSource \/ WebSearch
             \/ WeatherSource \/ Unsourced \/ Rendered \/ Compose \/ Ground \/ GroundFails
Alone == Propose \/ ProposeFails \/ Single \/ SingleFails \/ Abandon

Next == Ask \/ TurnAway \/ Repair \/ Critique \/ Debate \/ Council \/ Consensus \/ Retrieval
            \/ Alone \/ Verify

Spec == Init /\ [][Next]_vars

-----------------------------------------------------------------------------
(* Properties *)

Outcomes == {"none", "refused", "confirm", "error", "unsourced", "rendered",
             "contentless", "abandoned", "single", "workflow"}

TypeOK ==
    /\ ask \in Questions /\ source \in SourceKinds
    /\ stage \in Stages
    /\ turn \in 1 .. 4
    /\ asking \in 1 .. 3
    /\ draft \in Texts /\ text \in Texts
    /\ left \in 0 .. Enabled
    /\ blank \in BOOLEAN /\ alone \in BOOLEAN /\ fellBack \in BOOLEAN
    /\ calls \in Nat /\ spent \in Nat /\ used \in Nat /\ total \in Nat
    /\ outcome \in Outcomes

\* The calls one question can cost at most: three askings a stage, the fact
\* check of a workflow's answer, then a single answer and its fact check.  With
\* tools each provider's answer comes after three askings for a proposal.
CallLimit ==
    [single    |-> (IF ask.tools THEN 4 * Enabled ELSE Enabled) + 1,
     critique  |-> 3 * 7 + 1 + Enabled + 1,
     debate    |-> 3 * 10 + 1 + Enabled + 1,
     council   |-> 3 * 5 + Enabled + 1,
     consensus |-> Enabled + 3 + Enabled + 1,
     retrieval |-> 2]

\* Retries, repairs, rescues and fallbacks of a question never add up to more
\* calls than its mode's limit, whatever the providers answer.
CallsAreBounded == calls <= CallLimit[ask.mode]

\* An answer never reports more than was recorded for its question, and exactly
\* that if nothing was given up on the way: but for the tool proposal, which is
\* recorded (router.py:3284) and not reported (1113).
AnswersReportTheirBill ==
    outcome \in {"single", "workflow"} =>
        /\ total <= spent
        /\ ~fellBack => spent = total + (IF ask.tools THEN 1 ELSE 0)

\* Outside consensus, which returns what most providers said, and streams,
\* which cannot take back what was shown, no answer is blank: not after any
\* combination of failing stages.
PlainAnswersSpeak ==
    (outcome \in {"single", "workflow"} /\ ~ask.streamed /\ ask.mode # "consensus") =>
        text \notin Blank

\* Retrieval asks no model without a document, and says of its own accord only
\* what a document or the lack of any gives it (router.py:1453-1667).
AnswersAreGrounded ==
    /\ (ask.mode = "retrieval" /\ calls > 0) => source # "none"
    /\ outcome = "unsourced" => source = "none" /\ spent = 0
    /\ outcome = "rendered" => source \in {"finance", "sports"} /\ spent = 0

\* The question's bookkeeping is well formed, and an answer that is returned says
\* something, rests on what was found and reports what it cost.
AnswersOK == TypeOK /\ AnswersReportTheirBill /\ PlainAnswersSpeak /\ AnswersAreGrounded
=============================================================================
