------------------------------- MODULE Skills -------------------------------
(***************************************************************************)
(* Installed skills (src/backend/orchestrator/skills/registry.py, the      *)
(* /v1/skills endpoints of server.py, "mmctl skill") and their runs        *)
(* (skills/workflow.py).                                                   *)
(*                                                                         *)
(* A skill is a directory with workflow.yaml and perhaps a signature; what *)
(* the program adds is a row of registry.json.  The server and any mmctl   *)
(* command read and replace that file without a lock, and replace it by    *)
(* truncating and writing it.                                              *)
(***************************************************************************)
EXTENDS Naturals, Sequences, FiniteSets

CONSTANTS
    Names,      \* names of skills
    Processes,  \* the server and mmctl commands, one operation each at a time
    Contents,   \* the workflow files there are
    Policy,     \* approval_policy of each file's manifest
    Declared,   \* those whose manifest declares a medium or high risk
    HighImpact, \* tools that always need a human: high_impact_actions, their manifest
    Signed,     \* those whose source comes with a signature of a trusted key
    FileCap,    \* budget_cap_usd of each file, 0 where it has none
    Options,    \* values of --budget-cap, and its default
    Costs,      \* charges of a model call
    Sittings,   \* what one command or test runs: the skill itself, then test cases
    MaxSteps,   \* bound: steps of a file
    NoFile,     \* no workflow file, no signature
    MaxOps,     \* bound: operations begun
    MaxCrashes  \* bound: processes that die within an operation

Policies == {"draft_only", "auto_execute_low_risk", "approve_actions", "approve_high_risk"}

ASSUME ConstantsAssumption ==
    /\ Declared \subseteq Contents /\ Signed \subseteq Contents
    /\ HighImpact \subseteq {"python_exec", "web_retrieve", "other"}
    /\ NoFile \notin Contents
    /\ Policy \in [Contents -> Policies]
    /\ FileCap \in [Contents -> Nat]
    /\ Sittings \subseteq Seq({"run", "case"}) \ {<<>>}
    /\ Options \subseteq Nat \ {0}
    /\ Costs \subseteq Nat /\ Costs # {}
    /\ MaxSteps \in Nat \ {0}
    /\ MaxOps \in Nat /\ MaxCrashes \in Nat

VARIABLES
    file,       \* file[s]: the workflow.yaml of skill s
    sig,        \* sig[s]: the file that the signature beside it signs
    registry,   \* registry.json, as last written in full
    readable,   \* registry.json parses
    op,         \* op[p]: the operation process p is in
    ops, crashes,
    wanted,     \* history: "enabled" as the last operation that ended well left it
    overlapped, \* history: two processes have been in an operation together
    intruders   \* history: skills without a row whose install was refused after the copy

history == <<wanted, overlapped, intruders>>
skillsVars == <<file, sig, registry, readable, op, ops, crashes, history>>

-----------------------------------------------------------------------------
Files   == Contents \cup {NoFile}
Records == [enabled : BOOLEAN, checksum : Contents, verified : BOOLEAN]
NoRecord == [enabled |-> FALSE, checksum |-> NoFile, verified |-> FALSE]
Rows    == [Names -> Records \cup {NoRecord}]

\* An operation: what it is about, its next step, the registry it loaded and
\* the record it will put in; for a run, what is left to run, whether its user
\* confirmed the shadow run and whether MMO_REQUIRE_SKILL_CERT_FOR_ELEVATED is
\* off, the file it loaded, what is left of its steps, what it has spent and the
\* effects of its tools.
Idle == [at |-> "idle", skill |-> "", signed |-> FALSE, want |-> FALSE,
         rows |-> [s \in Names |-> NoRecord], record |-> NoRecord, clobbered |-> FALSE,
         runs |-> <<>>, confirm |-> FALSE, lax |-> FALSE,
         content |-> NoFile, cap |-> 0, left |-> 0, spent |-> 0, effects |-> {}]

Busy(p) == op[p].at # "idle"
Quiet   == \A p \in Processes : ~Busy(p)

\* discover_skills: of a file that is there the registry adds only "enabled".
Discovered(s) ==
    IF file[s] = NoFile THEN registry[s]
    ELSE [enabled  |-> registry[s] = NoRecord \/ registry[s].enabled,
          checksum |-> file[s],
          verified |-> FALSE]

\* (mutant) the checksum in the signature is not compared with the file's.
SignatureIsThere(s) == sig[s] # NoFile

\* verify_skill_signature with the trusted keys.
SignatureHolds(s) == sig[s] # NoFile /\ sig[s] = file[s]

\* _is_certified_skill
Certified(s) == Discovered(s).enabled /\ Discovered(s).verified

Begin(p, operation) ==
    /\ ~Busy(p) /\ ops < MaxOps
    /\ op' = [op EXCEPT ![p] = operation]
    /\ ops' = ops + 1
    /\ overlapped' = (overlapped \/ ~Quiet)

End(p) == op' = [op EXCEPT ![p] = Idle]

-----------------------------------------------------------------------------
(* install_skill ("mmctl skill install").                                   *)

\* The file is valid and copied over the installed one; so is its signature, if
\* the source has one: otherwise the one of the previous file stays.
Install(p, s, c, require) ==
    /\ Begin(p, [Idle EXCEPT !.at = "checksum", !.skill = s, !.signed = require, !.want = TRUE])
    /\ file' = [file EXCEPT ![s] = c]
    /\ sig' = [sig EXCEPT ![s] = IF c \in Signed THEN c ELSE @]
    /\ UNCHANGED <<registry, readable, crashes, wanted, intruders>>

\* compute_skill_checksum fails when the file has been deleted meanwhile.
Checksum(p) ==
    /\ op[p].at = "checksum"
    /\ LET s == op[p].skill
       IN  IF file[s] = NoFile THEN End(p)
           ELSE op' = [op EXCEPT ![p] = [@ EXCEPT !.at = "verify",
                           !.record = [enabled |-> TRUE, checksum |-> file[s],
                                       verified |-> FALSE]]]
    /\ UNCHANGED <<file, sig, registry, readable, ops, crashes, history>>

\* A refusal leaves the new file where it is, under the old record.
Verify(p) ==
    /\ op[p].at = "verify"
    /\ LET s == op[p].skill
       IN  IF op[p].signed /\ ~SignatureHolds(s)
           THEN /\ End(p)
                /\ intruders' = IF registry[s] = NoRecord THEN intruders \cup {s} ELSE intruders
           ELSE /\ op' = [op EXCEPT ![p] = [@ EXCEPT !.at = "load",
                        !.record = [op[p].record EXCEPT !.verified = op[p].signed]]]
                /\ UNCHANGED intruders
    /\ UNCHANGED <<file, sig, registry, readable, ops, crashes, wanted, overlapped>>

-----------------------------------------------------------------------------
(* set_skill_enabled, delete_skill and the draft and import endpoints.      *)

SetEnabled(p, s, enabled) ==
    /\ Begin(p, [Idle EXCEPT !.at = "discover", !.skill = s, !.want = enabled])
    /\ UNCHANGED <<file, sig, registry, readable, crashes, wanted, intruders>>

\* skills_draft_save: the file first, then set_skill_enabled(name, False), whose
\* exceptions are swallowed.
SaveDraft(p, s, c, overwrite) ==
    /\ file[s] = NoFile \/ overwrite
    /\ Begin(p, [Idle EXCEPT !.at = "discover", !.skill = s, !.want = FALSE])
    /\ file' = [file EXCEPT ![s] = c]
    /\ UNCHANGED <<sig, registry, readable, crashes, wanted, intruders>>

\* The record that set_skill_enabled stores is the discovered one.
Discover(p) ==
    /\ op[p].at = "discover"
    /\ LET s == op[p].skill
       IN  IF ~readable \/ Discovered(s) = NoRecord THEN End(p)
           ELSE op' = [op EXCEPT ![p] = [@ EXCEPT !.at = "load",
                           !.record = [Discovered(s) EXCEPT !.enabled = op[p].want]]]
    /\ UNCHANGED <<file, sig, registry, readable, ops, crashes, history>>

\* delete_skill: the directory, with the signature in it, then the record.
Delete(p, s) ==
    /\ readable
    /\ Discovered(s) # NoRecord
    /\ Begin(p, [Idle EXCEPT !.at = "load", !.skill = s])
    /\ file' = [file EXCEPT ![s] = NoFile]
    /\ sig' = [sig EXCEPT ![s] = NoFile]
    /\ intruders' = intruders \ {s}
    /\ UNCHANGED <<registry, readable, crashes, wanted>>

\* load_registry, once more; a delete without a row to take out saves nothing.
Load(p) ==
    /\ op[p].at = "load"
    /\ IF ~readable \/ (op[p].record = NoRecord /\ registry[op[p].skill] = NoRecord) THEN End(p)
       ELSE op' = [op EXCEPT ![p] = [@ EXCEPT !.at = "truncate", !.rows = registry]]
    /\ UNCHANGED <<file, sig, registry, readable, ops, crashes, history>>

\* save_registry: write_text truncates the file ...
Truncate(p) ==
    /\ op[p].at = "truncate"
    /\ op' = [op EXCEPT ![p] = [@ EXCEPT !.at = "write", !.clobbered = FALSE]]
    /\ readable' = FALSE
    /\ UNCHANGED <<file, sig, registry, ops, crashes, history>>

\* (mutant) a row that is there is not switched off.
SavedEnabled(p) == [op[p].rows EXCEPT ![op[p].skill] =
                        IF op[p].record.enabled \/ @ = NoRecord THEN op[p].record ELSE @]

\* The rows that are saved: those loaded, with the record put in or taken out.
SavedRows(p) == [op[p].rows EXCEPT ![op[p].skill] = op[p].record]

\* ... and writes it: where another process wrote after the truncation, the tail
\* of the longer text may be left behind.
Write(p) ==
    /\ op[p].at = "write"
    /\ registry' = SavedRows(p)
    /\ readable' \in (IF op[p].clobbered THEN BOOLEAN ELSE {TRUE})
    /\ op' = [q \in Processes |->
                 CASE q = p -> Idle
                   [] op[q].at = "write" /\ q # p -> [op[q] EXCEPT !.clobbered = TRUE]
                   [] OTHER -> op[q]]
    /\ wanted' = [wanted EXCEPT ![op[p].skill] = op[p].want]
    /\ intruders' = intruders \ {op[p].skill}
    /\ UNCHANGED <<file, sig, ops, crashes, overlapped>>

\* A process dies within an operation.
Die(p) ==
    /\ Busy(p) /\ crashes < MaxCrashes
    /\ crashes' = crashes + 1
    /\ End(p)
    /\ UNCHANGED <<file, sig, registry, readable, ops, history>>

-----------------------------------------------------------------------------
(* run_workflow_skill, from "mmctl skill run" and the test endpoints, which *)
(* run the skill, then each of the adversarial cases there are.             *)

Run(p, s, c, runs, option, confirm, lax) ==
    /\ Begin(p, [Idle EXCEPT !.at = "run", !.skill = s, !.content = c, !.runs = runs,
                             !.cap = option, !.confirm = confirm, !.lax = lax])
    /\ UNCHANGED <<file, sig, registry, readable, crashes, wanted, intruders>>

\* _resolve_skill_path: the skill is discovered and enabled, its file is there.
Runnable(s) ==
    readable /\ Discovered(s) # NoRecord /\ Discovered(s).enabled /\ file[s] # NoFile

\* skills_test and "mmctl skill".  No later run of the operation asks again whether
\* the skill is enabled.
RunResolve(p, s, runs, option, confirm, lax) ==
    /\ Runnable(s)
    /\ Run(p, s, NoFile, runs, option, confirm, lax)

\* skills_draft_test, or "mmctl skill" with a path: the workflow runs from a file of
\* its own, not an installed one.
RunDraft(p, c, runs, option, confirm, lax) ==
    Run(p, "", c, runs, option, confirm, lax)

\* A case may fail and the next is run; a run that fails ends the operation.
NextRun(p, failed) ==
    IF Len(op[p].runs) = 1 \/ (failed /\ Head(op[p].runs) = "run") THEN End(p)
    ELSE op' = [op EXCEPT ![p] = [@ EXCEPT !.at = "run", !.runs = Tail(op[p].runs)]]

\* _is_elevated_skill_manifest
Elevated(c) == Policy[c] \in {"approve_actions", "approve_high_risk"}

\* The file is read, then checked; an elevated one has to be a certified skill.
RunBegin(p, steps) ==
    /\ op[p].at = "run"
    /\ LET s == op[p].skill
           c == IF s = "" THEN op[p].content ELSE file[s]
           certified == s # "" /\ readable /\ Certified(s)
       IN  IF c = NoFile \/ (Elevated(c) /\ ~op[p].lax /\ ~certified) THEN NextRun(p, TRUE)
           ELSE op' = [op EXCEPT ![p] = [@ EXCEPT !.at = "steps", !.content = c, !.left = steps,
                                                   !.spent = 0, !.effects = {}]]
    /\ UNCHANGED <<file, sig, registry, readable, ops, crashes, history>>

\* The file's own cap goes before the option's.
Cap(p) == IF FileCap[op[p].content] # 0 THEN FileCap[op[p].content] ELSE op[p].cap

\* (mutant) the total is compared without the step at hand.
OverCapBefore(p, cost) == op[p].spent > Cap(p)

\* A model call is paid for before the total is compared with the cap.
OverCap(p, cost) == op[p].spent + cost > Cap(p)

ModelCall(p, cost) ==
    /\ op[p].at = "steps" /\ op[p].left > 0
    /\ op' = [op EXCEPT ![p] = [@ EXCEPT !.at = IF OverCap(p, cost) THEN "over" ELSE "steps",
                                         !.left = op[p].left - 1,
                                         !.spent = op[p].spent + cost]]
    /\ UNCHANGED <<file, sig, registry, readable, ops, crashes, history>>

\* A tool step: its tool, and the markers that its name and arguments contain.
Tools == [name : {"python_exec", "web_retrieve", "other"}, marked : SUBSET {"high", "medium"}]

\* _assess_tool_step_risk
Score(tool, c) ==
      (CASE tool.name = "python_exec" -> 3 [] tool.name = "web_retrieve" -> 1 [] OTHER -> 0)
    + (IF "high" \in tool.marked THEN 2 ELSE 0)
    + (IF "medium" \in tool.marked THEN 1 ELSE 0)
    + (IF c \in Declared THEN 1 ELSE 0)
Risk(tool, c) ==
    CASE Score(tool, c) >= 3 -> "high" [] Score(tool, c) = 2 -> "medium" [] OTHER -> "low"
Impactful(tool) == tool.name = "python_exec" \/ tool.marked # {}

\* _risk_policy_decision, _should_require_shadow_run
ToolDenied(c, risk)    == risk # "low" /\ ~Elevated(c)
HumanRequired(c, risk) == \/ Policy[c] = "approve_actions" /\ risk # "low"
                          \/ Policy[c] = "approve_high_risk" /\ risk = "high"
ShadowFirst(c, risk, tool) == Elevated(c) /\ risk # "low" /\ Impactful(tool)

\* CapabilityBroker.request_capability.  The tool was just put into the allowlist
\* and the plan, and the request id is new, so that no call limit applies; what is
\* left are HumanGate, when it has to be asked, and refusals of the arguments or of
\* the budget (RunFails).
Granted(c, risk, tool, approved) ==
    HumanRequired(c, risk) \/ tool.name \in HighImpact => approved

\* What a tool did that somebody should have agreed to.
Effects(tool, risk, approved) ==
    (IF Impactful(tool) /\ risk # "low" THEN {"impact"} ELSE {})
    \cup (IF risk = "high" /\ ~approved THEN {"unasked"} ELSE {})

\* _run_tool_step, when the tool runs; "approved" when somebody said yes at the
\* console within its 60 seconds.
ToolStep(p, tool, approved) ==
    /\ op[p].at = "steps" /\ op[p].left > 0
    /\ LET c == op[p].content
           risk == Risk(tool, c)
       IN  /\ ShadowFirst(c, risk, tool) => op[p].confirm
           /\ ~ToolDenied(c, risk)
           /\ Granted(c, risk, tool, approved)
           /\ op' = [op EXCEPT ![p] = [@ EXCEPT !.left = op[p].left - 1,
                  !.effects = op[p].effects \cup Effects(tool, risk, approved)]]
    /\ UNCHANGED <<file, sig, registry, readable, ops, crashes, history>>

\* A step fails: a tool refused, or nobody approved it, or the total is over the
\* cap.  What the earlier steps did stays done.
RunFails(p) ==
    /\ op[p].at = "over" \/ (op[p].at = "steps" /\ op[p].left > 0)
    /\ NextRun(p, TRUE)
    /\ UNCHANGED <<file, sig, registry, readable, ops, crashes, history>>

RunEnds(p) ==
    /\ op[p].at = "steps" /\ op[p].left = 0
    /\ NextRun(p, FALSE)
    /\ UNCHANGED <<file, sig, registry, readable, ops, crashes, history>>

-----------------------------------------------------------------------------
SkillsInit ==
    /\ file = [s \in Names |-> NoFile]
    /\ sig = [s \in Names |-> NoFile]
    /\ registry = [s \in Names |-> NoRecord]
    /\ readable = TRUE
    /\ op = [p \in Processes |-> Idle]
    /\ ops = 0 /\ crashes = 0
    /\ wanted = [s \in Names |-> FALSE]
    /\ overlapped = FALSE
    /\ intruders = {}

SkillsNext ==
    \/ \E p \in Processes, s \in Names, c \in Contents, require \in BOOLEAN :
          Install(p, s, c, require)
    \/ \E p \in Processes, s \in Names, enabled \in BOOLEAN : SetEnabled(p, s, enabled)
    \/ \E p \in Processes, s \in Names, c \in Contents, overwrite \in BOOLEAN :
          SaveDraft(p, s, c, overwrite)
    \/ \E p \in Processes, s \in Names : Delete(p, s)
    \/ \E p \in Processes, runs \in Sittings, option \in Options, confirm, lax \in BOOLEAN :
          \/ \E s \in Names : RunResolve(p, s, runs, option, confirm, lax)
          \/ \E c \in Contents : RunDraft(p, c, runs, option, confirm, lax)
    \/ \E p \in Processes, steps \in 1..MaxSteps : RunBegin(p, steps)
    \/ \E p \in Processes, cost \in Costs : ModelCall(p, cost)
    \/ \E p \in Processes, tool \in Tools, approved \in BOOLEAN : ToolStep(p, tool, approved)
    \/ \E p \in Processes :
          \/ Checksum(p) \/ Verify(p) \/ Discover(p) \/ Load(p) \/ Truncate(p) \/ Write(p)
          \/ RunFails(p) \/ RunEnds(p) \/ Die(p)

SkillsSpec == SkillsInit /\ [][SkillsNext]_skillsVars

-----------------------------------------------------------------------------
(* Properties.                                                              *)

Operations ==
    [at : {"idle", "checksum", "verify", "discover", "load", "truncate", "write",
           "run", "steps", "over"},
     skill : Names \cup {""}, signed : BOOLEAN, want : BOOLEAN, rows : Rows,
     record : Records \cup {NoRecord}, clobbered : BOOLEAN,
     runs : {<<>>} \cup UNION {{SubSeq(r, n, Len(r)) : n \in 1..Len(r)} : r \in Sittings},
     confirm : BOOLEAN, lax : BOOLEAN,
     content : Files, cap : Nat, left : 0..MaxSteps, spent : Nat,
     effects : SUBSET {"impact", "unasked"}]

SkillsTypeOK ==
    /\ file \in [Names -> Files]
    /\ sig \in [Names -> Files]
    /\ registry \in Rows
    /\ readable \in BOOLEAN
    /\ op \in [Processes -> Operations]
    /\ ops \in 0..MaxOps /\ crashes \in 0..MaxCrashes
    /\ wanted \in [Names -> BOOLEAN]
    /\ overlapped \in BOOLEAN
    /\ intruders \subseteq Names

\* When processes take turns and none dies in an operation, the registry can be
\* read and a skill is enabled, disabled or gone as the last operation on it said,
\* whatever others were added, replaced, refused or deleted meanwhile; but a new
\* skill whose install was refused is there, enabled (registry.py:232-330).
SerialChangesStick ==
    ~overlapped /\ crashes = 0 /\ Quiet =>
        /\ readable
        /\ \A s \in Names \ intruders : Discovered(s).enabled = wanted[s]

\* A row that says "verified" is of a file that was signed, whatever signature an
\* earlier file of the skill left behind (registry.py:232-291).
VerifiedWasSigned ==
    ~overlapped => \A s \in Names : registry[s].verified => registry[s].checksum \in Signed

\* A run goes over its cap by its last call at most (workflow.py:96-101).
RunOverspendsOneCall ==
    \A p \in Processes :
        op[p].content # NoFile => \E cost \in Costs : op[p].spent <= Cap(p) + cost

\* A tool that destroys or opens access, at a medium or high risk, has run only
\* for a user who confirmed its shadow run, and a high risk only with somebody's
\* approval (workflow.py:147-188).
ImpactIsConsented ==
    \A p \in Processes :
        /\ "impact" \in op[p].effects => op[p].confirm /\ Elevated(op[p].content)
        /\ "unasked" \notin op[p].effects

\* The registry is well formed and trusts no file that was not signed, and no run
\* of a skill does what nobody agreed to.
RegistryOK == SkillsTypeOK /\ VerifiedWasSigned /\ ImpactIsConsented
=============================================================================
