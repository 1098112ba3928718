--------------------------- MODULE SettingsProofs ---------------------------
(***************************************************************************)
(* Theorems about what an administrator keeps in files: Access, for any    *)
(* number of clients, any limit on failed passwords and any length of the  *)
(* lockout; ProviderRoutes, for any number of providers, any roles and any *)
(* shipped configuration; and Skills, for any skills, files, policies and  *)
(* processes.  The three share no variable; the initial states, the steps  *)
(* and the types of the last two carry the name of their subject           *)
(* (RoutesInit, SkillsInit).                                               *)
(***************************************************************************)
EXTENDS Access, ProviderRoutes, Skills, TLAPS, WellFoundedInduction, SequenceTheorems

-----------------------------------------------------------------------------
(* What an action does to the counter of failures is one of two things, so *)
(* the cases of a proof are the kinds of step and not the endpoints.       *)

LEMMA PasswordsOnly ==
    ASSUME Next
    PROVE  \/ UNCHANGED <<adminVars, clock>>
           \/ \E ok \in BOOLEAN : PasswordChecked(ok) /\ clock' = clock
           \/ Restart
           \/ Tick
<1>1. ASSUME NEW c \in Clients, RotateToken(c) \/ EnterToken(c) \/ SetPassword(c)
                                \/ LoadSettings(c) \/ SaveSettings(c)
      PROVE  UNCHANGED <<adminVars, clock>>
    BY <1>1 DEF RotateToken, EnterToken, SetPassword, LoadSettings, SaveSettings, adminVars
<1>2. ASSUME NEW c \in Clients, RecoverToken(c)
      PROVE  PasswordChecked(TRUE) /\ clock' = clock
    BY <1>2 DEF RecoverToken
<1>3. ASSUME NEW c \in Clients, NEW endpoint \in Endpoints, WrongPassword(c, endpoint)
      PROVE  PasswordChecked(FALSE) /\ clock' = clock
    BY <1>3 DEF WrongPassword
<1>4. ASSUME NEW c \in Clients, RightPassword(c) \/ ConfigureRemote(c) \/ RevokeRemote(c)
      PROVE  \/ UNCHANGED <<adminVars, clock>>
             \/ PasswordChecked(TRUE) /\ clock' = clock
    BY <1>4 DEF RightPassword, ConfigureRemote, RevokeRemote, PasswordGiven, Decide
<1> QED BY <1>1, <1>2, <1>3, <1>4 DEF Next

-----------------------------------------------------------------------------
(* Access: type correctness.                                                *)

\* The counter of failures, the part of TypeOK that is not evident.
AdminTypeOK ==
    /\ clock \in 0..MaxClock
    /\ attempts \in 0..(MaxFailed - 1)
    /\ lockedUntil \in 0..(MaxClock + Lockout)
    /\ fails \in Nat /\ since \in 0..clock

LEMMA NextAdminTypeOK == AdminTypeOK /\ [Next]_vars => AdminTypeOK'
<1> SUFFICES ASSUME AdminTypeOK, [Next]_vars PROVE AdminTypeOK'
    OBVIOUS
<1> USE AccessAssumption DEF AdminTypeOK
<1>1. CASE UNCHANGED <<adminVars, clock>>
    BY <1>1 DEF adminVars
<1>2. ASSUME NEW ok \in BOOLEAN, PasswordChecked(ok), clock' = clock PROVE AdminTypeOK'
    <2>1. CASE ok
        BY <1>2, <2>1 DEF PasswordChecked, RecordResult
    <2>2. CASE ~ok
        BY <1>2, <2>2 DEF PasswordChecked, RecordResult
    <2> QED BY <2>1, <2>2
<1>3. CASE Restart
    BY <1>3 DEF Restart
<1>4. CASE Tick
    BY <1>4 DEF Tick, adminVars
<1>5. CASE UNCHANGED vars
    BY <1>1, <1>5 DEF vars, adminVars
<1> QED BY <1>1, <1>2, <1>3, <1>4, <1>5, PasswordsOnly

\* The rest of the state.
FilesTypeOK ==
    /\ envToken \in EnvTokens /\ token \in 0..Torn /\ tokenFile \in 0..Torn
    /\ issued \in 0..MaxToken /\ lost \in BOOLEAN
    /\ known \in [Clients -> 0..Torn]
    /\ password \in {"none", "set", "lost"}
    /\ remote \in Copies /\ remoteFile \in Copies /\ copy \in [Clients -> Copies]
    /\ decided \in Plans
    /\ restarts \in 0..MaxRestarts /\ saves \in 0..MaxSaves /\ faults \in 0..MaxFaults

\* A copy of the plan stays one.
LEMMA CopiesTyped ==
    /\ \A rec \in Copies : Overtaken(rec) \in Copies /\ rec.plan \in Plans
    /\ \A rec \in Copies : Overtaken(rec).plan = rec.plan /\ ~Overtaken(rec).current
    /\ \A plan \in Plans : \A now \in BOOLEAN : [plan |-> plan, current |-> now] \in Copies
    /\ NoPlan \in Copies /\ NoPlan.current
    /\ {"absent", "enabled", "disabled"} \subseteq Plans
BY DEF Copies, Overtaken, NoPlan, Plans

LEMMA TokensTyped ==
    /\ Torn \in Nat /\ 0 \in 0..Torn /\ Torn \in 0..Torn
    /\ \A n \in 0..MaxToken : n \in 0..Torn
    /\ \A e \in EnvTokens : e \in 0..MaxToken
BY AccessAssumption DEF Torn

LEMMA SavePlanTyped ==
    ASSUME FilesTypeOK, NEW rec \in Copies, SavePlan(rec, remoteFile)
    PROVE  remote' \in Copies /\ remoteFile' \in Copies /\ faults' \in 0..MaxFaults
<1> USE AccessAssumption DEF FilesTypeOK
<1>1. remote' \in Copies
    BY DEF SavePlan
<1>2. remoteFile' \in Copies
    BY CopiesTyped DEF SavePlan
<1>3. faults' \in 0..MaxFaults
    BY DEF SavePlan
<1> QED BY <1>1, <1>2, <1>3

LEMMA NextFilesTypeOK == FilesTypeOK /\ [Next]_vars => FilesTypeOK'
<1> SUFFICES ASSUME FilesTypeOK, [Next]_vars PROVE FilesTypeOK'
    OBVIOUS
<1> USE AccessAssumption, TokensTyped, CopiesTyped DEF FilesTypeOK
<1>1. ASSUME NEW c \in Clients, NewToken(c) \/ TokenNotWritten,
             UNCHANGED <<password, remoteVars, restarts>>
      PROVE  FilesTypeOK'
    <2>1. CASE NewToken(c)
        <3>1. issued' \in 0..MaxToken /\ token' = issued' /\ tokenFile' = issued'
            BY <2>1 DEF NewToken
        <3>2. known' \in [Clients -> 0..Torn]
            BY <2>1, <3>1 DEF NewToken
        <3>3. UNCHANGED <<envToken, faults>> /\ lost' = FALSE
            BY <2>1 DEF NewToken
        <3> QED BY <1>1, <3>1, <3>2, <3>3 DEF remoteVars
    <2>2. CASE TokenNotWritten
        BY <1>1, <2>2 DEF TokenNotWritten, remoteVars
    <2> QED BY <1>1, <2>1, <2>2
<1>2. ASSUME NEW c \in Clients, RotateToken(c) \/ RecoverToken(c) PROVE FilesTypeOK'
    BY <1>1, <1>2 DEF RotateToken, RecoverToken
<1>3. ASSUME NEW c \in Clients, EnterToken(c) PROVE FilesTypeOK'
    BY <1>3 DEF EnterToken, remoteVars
<1>4. ASSUME NEW c \in Clients, SetPassword(c) PROVE FilesTypeOK'
    BY <1>4 DEF SetPassword, tokenVars, remoteVars
<1>5. ASSUME NEW c \in Clients, RightPassword(c) \/ \E e \in Endpoints : WrongPassword(c, e)
      PROVE  FilesTypeOK'
    BY <1>5 DEF RightPassword, WrongPassword, tokenVars, remoteVars
<1>6. ASSUME NEW c \in Clients, ConfigureRemote(c) \/ RevokeRemote(c) PROVE FilesTypeOK'
    <2>1. PICK plan \in Plans : Decide(plan)
        BY <1>6 DEF ConfigureRemote, RevokeRemote
    <2>2. remote' \in Copies /\ remoteFile' \in Copies /\ faults' \in 0..MaxFaults
        BY <2>1, SavePlanTyped DEF Decide
    <2>3. copy' \in [Clients -> Copies]
        BY <2>1 DEF Decide
    <2> QED BY <2>1, <2>2, <2>3 DEF Decide, tokenVars
<1>7. ASSUME NEW c \in Clients, LoadSettings(c) PROVE FilesTypeOK'
    BY <1>7 DEF LoadSettings, tokenVars
<1>8. ASSUME NEW c \in Clients, SaveSettings(c) PROVE FilesTypeOK'
    <2>1. PICK rec \in {copy[c]} \cup [plan : Plans \ {"absent"}, current : {FALSE}] :
              SavePlan(KeptPlan(rec), remoteFile)
        BY <1>8 DEF SaveSettings
    <2>2. rec \in Copies
        <3>1. [plan : Plans \ {"absent"}, current : {FALSE}] \subseteq Copies
            BY Zenon DEF Copies
        <3> QED BY <3>1
    <2>3. remote' \in Copies /\ remoteFile' \in Copies /\ faults' \in 0..MaxFaults
        BY <2>1, <2>2, SavePlanTyped DEF KeptPlan
    <2> QED BY <1>8, <2>3 DEF SaveSettings, tokenVars
<1>9. CASE Restart
    BY <1>9 DEF Restart, LoadedToken
<1>10. CASE Tick \/ UNCHANGED vars
    BY <1>10 DEF Tick, vars, tokenVars, remoteVars
<1> QED BY <1>2, <1>3, <1>4, <1>5, <1>6, <1>7, <1>8, <1>9, <1>10 DEF Next

\* Every variable keeps its type; above all the counter of failures never
\* reaches the limit that locks, because locking sets it back.
THEOREM AccessTypes == Spec => []TypeOK
<1>1. Init => AdminTypeOK
    BY AccessAssumption DEF Init, AdminTypeOK
<1>2. Init => FilesTypeOK
    <2> SUFFICES ASSUME Init PROVE FilesTypeOK
        OBVIOUS
    <2>1. envToken \in EnvTokens /\ tokenFile = 0 /\ token = envToken /\ issued = envToken /\ lost = FALSE
        BY DEF Init, LoadedToken
    <2>2. token \in 0..Torn /\ tokenFile \in 0..Torn /\ issued \in 0..MaxToken
        BY <2>1, TokensTyped
    <2>3. known \in [Clients -> 0..Torn] /\ copy \in [Clients -> Copies]
        BY TokensTyped, CopiesTyped DEF Init
    <2>4. remote \in Copies /\ remoteFile \in Copies /\ decided \in Plans
        BY CopiesTyped DEF Init
    <2>5. restarts \in 0..MaxRestarts /\ saves \in 0..MaxSaves /\ faults \in 0..MaxFaults
        BY AccessAssumption DEF Init
    <2> QED BY <2>1, <2>2, <2>3, <2>4, <2>5 DEF FilesTypeOK, Init
<1>3. AdminTypeOK /\ FilesTypeOK => TypeOK
    BY DEF AdminTypeOK, FilesTypeOK, TypeOK
<1> QED BY <1>1, <1>2, <1>3, NextAdminTypeOK, NextFilesTypeOK, PTL DEF Spec

-----------------------------------------------------------------------------
(* The token.                                                               *)

\* As long as its file could be written, what is in force is what was issued last,
\* and a start now would load it: from the file, or, with none issued yet, from the
\* environment.
TokenInv ==
    /\ issued \in Nat /\ envToken \in Nat
    /\ ~lost => token = issued /\ LoadedToken(tokenFile) = issued

LEMMA NextTokenInv == TokenInv /\ [Next]_vars => TokenInv'
<1> SUFFICES ASSUME TokenInv, [Next]_vars PROVE TokenInv'
    OBVIOUS
<1> USE DEF TokenInv, LoadedToken
<1>1. ASSUME UNCHANGED <<envToken, token, tokenFile, issued, lost>> PROVE TokenInv'
    BY <1>1
<1>2. ASSUME NEW c \in Clients, RotateToken(c) \/ RecoverToken(c) PROVE TokenInv'
    <2>1. CASE NewToken(c)
        <3>1. /\ issued' = issued + 1 /\ tokenFile' = issued' /\ token' = issued'
              /\ envToken' = envToken
            BY <2>1 DEF NewToken
        <3>2. issued' \in Nat /\ issued' # 0
            BY <3>1
        <3> QED BY <3>1, <3>2
    <2>2. CASE TokenNotWritten
        BY <2>2 DEF TokenNotWritten
    <2> QED BY <1>2, <2>1, <2>2 DEF RotateToken, RecoverToken
<1>3. ASSUME NEW c \in Clients,
             \/ EnterToken(c) \/ SetPassword(c) \/ RightPassword(c)
             \/ \E e \in Endpoints : WrongPassword(c, e)
      PROVE  TokenInv'
    BY <1>1, <1>3 DEF EnterToken, SetPassword, RightPassword, WrongPassword, tokenVars
<1>4. ASSUME NEW c \in Clients,
             ConfigureRemote(c) \/ RevokeRemote(c) \/ LoadSettings(c) \/ SaveSettings(c)
      PROVE  TokenInv'
    BY <1>1, <1>4 DEF ConfigureRemote, RevokeRemote, Decide, LoadSettings, SaveSettings, tokenVars
<1>5. CASE Restart
    BY <1>5 DEF Restart
<1>6. CASE Tick \/ UNCHANGED vars
    BY <1>1, <1>6 DEF Tick, vars, tokenVars
<1> QED BY <1>2, <1>3, <1>4, <1>5, <1>6 DEF Next

\* For any number of clients that rotate and recover, and restarts among them, no
\* token comes back that another has replaced, until its file could not be written.
THEOREM RotationsAreKept == Spec => []RotationsStick
<1>1. Init => TokenInv
    BY AccessAssumption DEF Init, TokenInv, LoadedToken
<1>2. TokenInv => RotationsStick
    BY DEF TokenInv, RotationsStick
<1> QED BY <1>1, <1>2, NextTokenInv, PTL DEF Spec

-----------------------------------------------------------------------------
(* The remote access plan.                                                  *)

\* A copy that says it is current holds what was decided.
AsDecided(rec, d) == rec \in Copies /\ (rec.current => rec.plan = d)

\* The same of the plan in force, the plan on file and the copies that have a plan.
PlanInv ==
    /\ AsDecided(remote, decided) /\ AsDecided(remoteFile, decided)
    /\ copy \in [Clients -> Copies]
    /\ \A c \in Clients : copy[c].plan # "absent" => AsDecided(copy[c], decided)
    /\ decided = "enabled" => password # "none"

LEMMA SavedAsDecided ==
    ASSUME PlanInv, NEW d, NEW rec, SavePlan(rec, remoteFile), AsDecided(rec, d)
    PROVE  AsDecided(remote', d) /\ AsDecided(remoteFile', d)
<1>1. \A f \in Copies : AsDecided(Overtaken(f), d)
    BY CopiesTyped DEF AsDecided
<1>2. AsDecided([plan |-> "absent", current |-> FALSE], d)
    BY CopiesTyped DEF AsDecided
<1>3. remoteFile \in Copies
    BY DEF PlanInv, AsDecided
<1> QED BY <1>1, <1>2, <1>3 DEF SavePlan

LEMMA NextPlanInv == PlanInv /\ [Next]_vars => PlanInv'
<1> SUFFICES ASSUME PlanInv, [Next]_vars PROVE PlanInv'
    OBVIOUS
<1> USE DEF PlanInv
<1>1. ASSUME UNCHANGED <<remote, remoteFile, copy, decided, password>> PROVE PlanInv'
    BY <1>1
<1>2. ASSUME NEW c \in Clients,
             \/ RotateToken(c) \/ RecoverToken(c) \/ EnterToken(c) \/ RightPassword(c)
             \/ \E e \in Endpoints : WrongPassword(c, e)
      PROVE  PlanInv'
    BY <1>1, <1>2
    DEF RotateToken, RecoverToken, EnterToken, RightPassword, WrongPassword, remoteVars
<1>3. ASSUME NEW c \in Clients, SetPassword(c) PROVE PlanInv'
    BY <1>3 DEF SetPassword, remoteVars
<1>4. ASSUME NEW plan \in Plans, Decide(plan), plan = "enabled" => password = "set" PROVE PlanInv'
    <2> DEFINE rec == [plan |-> plan, current |-> TRUE]
    <2>1. AsDecided(rec, plan)
        BY CopiesTyped DEF AsDecided
    <2>2. SavePlan(rec, remoteFile) /\ decided' = plan /\ password' = password
        BY <1>4 DEF Decide
    <2> HIDE DEF rec
    <2>3. AsDecided(remote', plan) /\ AsDecided(remoteFile', plan)
        BY <2>1, <2>2, SavedAsDecided
    <2>5. copy' = [c \in Clients |-> IF copy[c].plan = "absent" THEN copy[c] ELSE Overtaken(copy[c])]
        BY <1>4 DEF Decide
    <2>6. ASSUME NEW c \in Clients, copy'[c].plan # "absent" PROVE AsDecided(copy'[c], plan)
        BY <2>5, <2>6, CopiesTyped DEF AsDecided
    <2>7. copy' \in [Clients -> Copies]
        BY <2>5, CopiesTyped
    <2> QED BY <1>4, <2>2, <2>3, <2>6, <2>7
<1>5. ASSUME NEW c \in Clients, ConfigureRemote(c) \/ RevokeRemote(c) PROVE PlanInv'
    BY <1>4, <1>5, CopiesTyped DEF ConfigureRemote, RevokeRemote
<1>6. ASSUME NEW c \in Clients, LoadSettings(c) PROVE PlanInv'
    <2>1. UNCHANGED <<remote, remoteFile, decided, password>>
        BY <1>6 DEF LoadSettings
    <2>2. copy' = [copy EXCEPT ![c] = IF remote.plan = "absent" THEN @ ELSE remote]
        BY <1>6 DEF LoadSettings
    <2>3. ASSUME NEW d \in Clients, copy'[d].plan # "absent" PROVE AsDecided(copy'[d], decided)
        BY <2>2, <2>3
    <2>4. copy' \in [Clients -> Copies]
        BY <2>2 DEF AsDecided
    <2> QED BY <2>1, <2>3, <2>4
<1>7. ASSUME NEW c \in Clients, SaveSettings(c) PROVE PlanInv'
    <2>1. PICK rec \in {copy[c]} \cup [plan : Plans \ {"absent"}, current : {FALSE}] :
              SavePlan(KeptPlan(rec), remoteFile)
        BY <1>7 DEF SaveSettings
    <2>2. AsDecided(KeptPlan(rec), decided)
        <3>1. CASE rec.plan = "absent"
            BY <3>1 DEF KeptPlan
        <3>2. CASE rec.plan # "absent" /\ rec = copy[c]
            BY <3>2 DEF KeptPlan
        <3>3. CASE rec.plan # "absent" /\ rec # copy[c]
            BY <3>3 DEF KeptPlan, AsDecided, Copies
        <3> QED BY <3>1, <3>2, <3>3
    <2>3. AsDecided(remote', decided) /\ AsDecided(remoteFile', decided)
        BY <2>1, <2>2, SavedAsDecided
    <2> QED BY <1>7, <2>3 DEF SaveSettings
<1>8. CASE Restart
    BY <1>8 DEF Restart
<1>9. CASE Tick \/ UNCHANGED vars
    BY <1>1, <1>9 DEF Tick, vars, remoteVars
<1> QED BY <1>2, <1>3, <1>5, <1>6, <1>7, <1>8, <1>9 DEF Next

\* Whatever the dashboards save and whichever write fails, a plan that nobody sent
\* and no file lost is the one that was last decided, and enabled only where a
\* password has been set.
THEOREM DecisionsAreKept == Spec => []DecisionsStick
<1>1. Init => PlanInv
    BY CopiesTyped DEF Init, PlanInv, AsDecided, NoPlan
<1>2. PlanInv => DecisionsStick
    BY DEF PlanInv, AsDecided, DecisionsStick
<1> QED BY <1>1, <1>2, NextPlanInv, PTL DEF Spec

-----------------------------------------------------------------------------
(* The lockout.                                                             *)

\* b lockouts have begun since the counting started: each of them took MaxFailed
\* wrong passwords, none began in the time of another, and the wrong passwords
\* after the last one were checked when it was over.
LocksSoFar(b) ==
    /\ fails = MaxFailed * b + attempts
    /\ b > 0 => lockedUntil >= since + b * Lockout /\ lockedUntil <= clock + Lockout
    /\ attempts > 0 => clock >= lockedUntil

FailsInv == AdminTypeOK /\ \E b \in Nat : LocksSoFar(b)

\* One more lockout.
LEMMA OneMore ==
    ASSUME NEW m \in Nat, NEW b \in Nat
    PROVE  m * (b + 1) = m * b + m /\ (b + 1) * m = b * m + m /\ m * b \in Nat /\ b * m \in Nat
    OBVIOUS

LEMMA WrongCounts ==
    ASSUME FailsInv, PasswordChecked(FALSE), clock' = clock
    PROVE  \E b \in Nat : LocksSoFar(b)'
<1> USE AccessAssumption DEF AdminTypeOK
<1>1. PICK b \in Nat : LocksSoFar(b)
    BY DEF FailsInv
<1>2. AdminTypeOK /\ NotLocked
    BY DEF FailsInv, PasswordChecked
<1>3. fails' = fails + 1 /\ since' = since
    BY DEF PasswordChecked, RecordResult
<1>4. CASE attempts + 1 >= MaxFailed
    <2>1. attempts' = 0 /\ lockedUntil' = clock + Lockout /\ attempts + 1 = MaxFailed
        BY <1>2, <1>4 DEF PasswordChecked, RecordResult
    <2>2. fails' = MaxFailed * (b + 1) + attempts'
        BY <1>1, <1>2, <1>3, <2>1, OneMore DEF LocksSoFar
    <2>3. clock >= since + b * Lockout
        BY <1>1, <1>2 DEF LocksSoFar, NotLocked
    <2>4. lockedUntil' >= since' + (b + 1) * Lockout
        BY <1>2, <1>3, <2>1, <2>3, OneMore
    <2> QED BY <1>2, <2>1, <2>2, <2>4 DEF LocksSoFar
<1>5. CASE ~(attempts + 1 >= MaxFailed)
    <2>1. attempts' = attempts + 1 /\ lockedUntil' = lockedUntil
        BY <1>2, <1>5 DEF PasswordChecked, RecordResult
    <2>2. fails' = MaxFailed * b + attempts'
        BY <1>1, <1>2, <1>3, <2>1, OneMore DEF LocksSoFar
    <2>3. LocksSoFar(b)'
        BY <1>1, <1>2, <1>3, <2>1, <2>2 DEF LocksSoFar, NotLocked
    <2> QED BY <2>3
<1> QED BY <1>4, <1>5

LEMMA NextFailsInv == FailsInv /\ [Next]_vars => FailsInv'
<1> SUFFICES ASSUME FailsInv, [Next]_vars PROVE \E b \in Nat : LocksSoFar(b)'
    BY NextAdminTypeOK DEF FailsInv
<1>1. PICK b \in Nat : LocksSoFar(b)
    BY DEF FailsInv
<1>2. ASSUME UNCHANGED <<adminVars, clock>> PROVE LocksSoFar(b)'
    BY <1>1, <1>2 DEF LocksSoFar, adminVars
<1>3. ASSUME attempts' = 0, fails' = 0 PROVE LocksSoFar(0)'
    BY <1>3, AccessAssumption DEF LocksSoFar
<1>4. CASE PasswordChecked(TRUE)
    BY <1>3, <1>4 DEF PasswordChecked, RecordResult
<1>5. CASE Restart
    BY <1>3, <1>5 DEF Restart
<1>6. CASE Tick
    <2>1. clock' = clock + 1 /\ UNCHANGED adminVars
        BY <1>6 DEF Tick
    <2> QED BY <1>1, <2>1, AccessAssumption DEF FailsInv, AdminTypeOK, LocksSoFar, adminVars
<1>7. CASE UNCHANGED vars
    BY <1>2, <1>7 DEF vars, adminVars
<1> QED BY <1>2, <1>4, <1>5, <1>6, <1>7, WrongCounts, PasswordsOnly

LEMMA LocksBoundFailures == FailsInv => FailuresAreBounded
<1> SUFFICES ASSUME FailsInv PROVE FailuresAreBounded
    OBVIOUS
<1> USE AccessAssumption DEF AdminTypeOK
<1>1. PICK b \in Nat : LocksSoFar(b)
    BY DEF FailsInv
<1>2. AdminTypeOK
    BY DEF FailsInv
<1>3. ASSUME NEW n \in Nat, n * Lockout <= clock - since, fails <= MaxFailed * (n + 1)
      PROVE  FailuresAreBounded
    <2>1. n <= n * Lockout
        BY OneMore
    <2>2. n \in 0..(clock - since)
        BY <1>2, <1>3, <2>1
    <2> QED BY <1>3, <2>2 DEF FailuresAreBounded
<1>4. CASE attempts > 0
    <2>1. b * Lockout <= clock - since
        BY <1>1, <1>2, <1>4, OneMore DEF LocksSoFar
    <2>2. fails <= MaxFailed * (b + 1)
        BY <1>1, <1>2, OneMore DEF LocksSoFar
    <2> QED BY <1>3, <2>1, <2>2
<1>5. CASE attempts = 0 /\ b > 0
    <2> DEFINE n == b - 1
    <2>1. n \in Nat /\ b = n + 1
        BY <1>5
    <2>2. b * Lockout = n * Lockout + Lockout
        BY <2>1, OneMore
    <2>3. n * Lockout <= clock - since
        BY <1>1, <1>2, <1>5, <2>1, <2>2, OneMore DEF LocksSoFar
    <2>4. fails <= MaxFailed * (n + 1)
        BY <1>1, <1>2, <1>5, <2>1, OneMore DEF LocksSoFar
    <2> QED BY <1>3, <2>1, <2>3, <2>4
<1>6. CASE attempts = 0 /\ b = 0
    <2>1. fails = 0
        BY <1>1, <1>6 DEF LocksSoFar
    <2>2. 0 * Lockout <= clock - since /\ fails <= MaxFailed * (0 + 1)
        BY <1>2, <2>1
    <2> QED BY <1>3, <2>2
<1> QED BY <1>2, <1>4, <1>5, <1>6

\* However the endpoints that check the password are mixed, at most MaxFailed wrong
\* ones are checked in a lockout's time, for any limit and any length of lockout.
THEOREM FailuresBounded == Spec => []FailuresAreBounded
<1>1. Init => FailsInv
    <2> SUFFICES ASSUME Init PROVE FailsInv
        OBVIOUS
    <2>1. AdminTypeOK
        BY AccessAssumption DEF Init, AdminTypeOK
    <2>2. LocksSoFar(0)
        BY AccessAssumption DEF Init, LocksSoFar
    <2> QED BY <2>1, <2>2 DEF FailsInv
<1> QED BY <1>1, NextFailsInv, LocksBoundFailures, PTL DEF Spec

-----------------------------------------------------------------------------
(* ProviderRoutes: type correctness.                                        *)

\* A nonempty set of providers has a first one.
LEMMA FirstProvider ==
    ASSUME NEW S \in SUBSET Providers, S # {}
    PROVE  Min(S) \in S
<1> DEFINE Below == {pair \in Nat \X Nat : pair[1] < pair[2]}
<1>1. S \subseteq Nat
    BY CountAssumption DEF Providers
<1>2. PICK x \in S : \A y \in S : <<y, x>> \notin Below
    <2>1. IsWellFoundedOn(Below, Nat)
        BY NatLessThanWellFounded DEF OpToRel
    <2> HIDE DEF Below
    <2> QED BY <1>1, <2>1, WFMin
<1>3. ASSUME NEW y \in S PROVE x <= y
    <2>1. x \in Nat /\ y \in Nat /\ ~(y < x)
        BY <1>1, <1>2
    <2> QED BY <2>1
<1> QED BY <1>3 DEF Min

LEMMA FallbackIsAllowed ==
    ASSUME NEW on \in SUBSET Providers
    PROVE  Fallback(on) \in Allowed(on)
<1>1. Allowed(on) \in SUBSET Providers /\ Allowed(on) # {}
    BY CountAssumption DEF Allowed, Providers
<1> QED BY <1>1, FirstProvider DEF Fallback

LEMMA ReconciledType ==
    ASSUME NEW r, NEW on \in SUBSET Providers
    PROVE  Reconciled(r, on) \in Routes
<1>1. Allowed(on) \subseteq Providers /\ Fallback(on) \in Providers
    BY FallbackIsAllowed DEF Allowed
<1> QED BY <1>1 DEF Reconciled, Routes

\* What a file may hold.
EnabledFiles == {Absent, Garbled} \cup {Holds(on) : on \in SUBSET Providers}
RouteFiles == {Absent, Garbled} \cup {Holds(r) : r \in Routes}

LEMMA LoadedType ==
    /\ \A f \in EnabledFiles : LoadedEnabled(f) \in SUBSET Providers
    /\ \A f \in RouteFiles : \A on : LoadedRoutes(f, on) \in Routes
    /\ \A on \in SUBSET Providers : Holds(on) \in EnabledFiles /\ LoadedEnabled(Holds(on)) = on
    /\ \A r \in Routes : Holds(r) \in RouteFiles
<1>1. ASSUME NEW f \in EnabledFiles PROVE LoadedEnabled(f) \in SUBSET Providers
    BY ShippedAssumption DEF EnabledFiles, LoadedEnabled, Absent, Garbled, Holds
<1>2. ASSUME NEW f \in RouteFiles, NEW on PROVE LoadedRoutes(f, on) \in Routes
    BY ShippedAssumption DEF RouteFiles, LoadedRoutes, Absent, Garbled, Holds
<1>3. ASSUME NEW on \in SUBSET Providers
      PROVE  Holds(on) \in EnabledFiles /\ LoadedEnabled(Holds(on)) = on
    BY DEF EnabledFiles, LoadedEnabled, Holds
<1>4. ASSUME NEW r \in Routes PROVE Holds(r) \in RouteFiles
    BY DEF RouteFiles
<1> QED BY <1>1, <1>2, <1>3, <1>4

\* The part of RoutesTypeOK that Rebuild concerns, and the rest.
RuntimeTypeOK ==
    /\ enabled \in SUBSET Providers /\ runtime \in SUBSET Providers
    /\ env \in SUBSET Providers /\ stored \in SUBSET Providers
    /\ unbuilt \in SUBSET Providers
SettingsTypeOK ==
    /\ pc \in {"idle", "applying", "down"}
    /\ routes \in Routes
    /\ fileEnabled \in EnabledFiles
    /\ fileRoutes \in RouteFiles
    /\ backup \in [enabled : SUBSET Providers, routes : Routes]
    /\ astray \in BOOLEAN

LEMMA RoutesTypeParts == RoutesTypeOK <=> RuntimeTypeOK /\ SettingsTypeOK
BY DEF RoutesTypeOK, RuntimeTypeOK, SettingsTypeOK, EnabledFiles, RouteFiles

LEMMA RebuildType ==
    ASSUME NEW on \in SUBSET Providers, NEW e \in SUBSET Providers,
           NEW kept \in SUBSET Providers, RebuildLenient(on, e, kept) \/ Rebuild(on, e, kept, {})
    PROVE  /\ env' \in SUBSET Providers /\ runtime' \in SUBSET Providers
           /\ unbuilt' \in SUBSET Providers
BY ShippedAssumption DEF RebuildLenient, Rebuild, EnvAfter

LEMMA InitRoutesTypeOK == RoutesInit => RoutesTypeOK
<1> SUFFICES ASSUME RoutesInit PROVE RuntimeTypeOK /\ SettingsTypeOK
    BY RoutesTypeParts
<1>1. RuntimeTypeOK
    BY ShippedAssumption DEF RoutesInit, RuntimeTypeOK
<1>2. backup \in [enabled : SUBSET Providers, routes : Routes]
    BY ShippedAssumption DEF RoutesInit, NoBackup
<1>3. fileEnabled \in EnabledFiles /\ fileRoutes \in RouteFiles
    BY DEF RoutesInit, EnabledFiles, RouteFiles
<1>4. pc \in {"idle", "applying", "down"} /\ routes \in Routes /\ astray \in BOOLEAN
    BY ShippedAssumption DEF RoutesInit
<1> QED BY <1>1, <1>2, <1>3, <1>4 DEF SettingsTypeOK

LEMMA NextRoutesTypeOK == RoutesTypeOK /\ [RoutesNext]_routesVars => RoutesTypeOK'
<1> SUFFICES ASSUME RuntimeTypeOK, SettingsTypeOK, [RoutesNext]_routesVars
             PROVE  RuntimeTypeOK' /\ SettingsTypeOK'
    BY RoutesTypeParts, PTL
<1> USE DEF RuntimeTypeOK, SettingsTypeOK
<1>1. NoBackup \in [enabled : SUBSET Providers, routes : Routes]
    BY ShippedAssumption DEF NoBackup
<1>2. ASSUME NEW on \in SUBSET Providers, Apply(on)
      PROVE  RuntimeTypeOK' /\ SettingsTypeOK'
    <2>1. routes' \in Routes /\ fileRoutes' \in RouteFiles
        BY <1>2, ReconciledType, LoadedType DEF Apply
    <2> QED BY <1>2, <2>1 DEF Apply
<1>3. CASE Accept
    <2>1. env' \in SUBSET Providers /\ runtime' \in SUBSET Providers /\ unbuilt' \in SUBSET Providers
        BY <1>3, RebuildType DEF Accept
    <2>2. fileEnabled' \in EnabledFiles
        BY <1>3, LoadedType DEF Accept
    <2>3. astray' \in BOOLEAN
        BY <1>3 DEF Accept
    <2> QED BY <1>1, <1>3, <2>1, <2>2, <2>3 DEF Accept
<1>4. CASE Refuse
    <2>1. backup.enabled \in SUBSET Providers /\ backup.routes \in Routes
        OBVIOUS
    <2>2. Fetched \in SUBSET Providers
        BY DEF Fetched, EnvAfter
    <2>3. env' \in SUBSET Providers /\ runtime' \in SUBSET Providers /\ unbuilt' \in SUBSET Providers
        BY <1>4, <2>1, <2>2, RebuildType DEF Refuse
    <2>4. fileRoutes' \in RouteFiles
        BY <1>4, <2>1, LoadedType DEF Refuse
    <2> QED BY <1>1, <1>4, <2>1, <2>3, <2>4 DEF Refuse
<1>5. ASSUME NEW r \in Routes, PutRoutes(r) \/ PutRoutesElsewhere(r)
      PROVE  RuntimeTypeOK' /\ SettingsTypeOK'
    BY <1>5, LoadedType DEF PutRoutes, PutRoutesElsewhere, memory
<1>6. ASSUME NEW p \in Providers, KeyStep(p) PROVE RuntimeTypeOK' /\ SettingsTypeOK'
    <2>1. stored' \in SUBSET Providers
        BY <1>6 DEF KeyStep, SetKey, SetKeyElsewhere, DeleteKey, TestProvider
    <2>2. env' \in SUBSET Providers /\ runtime' \in SUBSET Providers /\ unbuilt' \in SUBSET Providers
        BY <1>6, <2>1, RebuildType DEF KeyStep, SetKey, SetKeyElsewhere, DeleteKey, TestProvider
    <2> QED BY <1>6, <2>1, <2>2 DEF KeyStep, SetKey, SetKeyElsewhere, DeleteKey, TestProvider, files
<1>7. CASE Crash
    <2>1. fileEnabled' \in EnabledFiles /\ fileRoutes' \in RouteFiles
        BY <1>7 DEF Crash, files, EnabledFiles, RouteFiles
    <2>2. astray' \in BOOLEAN
        BY <1>7 DEF Crash
    <2> QED BY <1>7, <2>1, <2>2 DEF Crash, memory
<1>8. CASE Reload
    <2>1. enabled' \in SUBSET Providers /\ routes' \in Routes
        BY <1>8, LoadedType DEF Reload, Started
    <2>2. RebuildLenient(enabled', EnvKeys, stored)
        BY <1>8 DEF Reload, Started
    <2>3. env' \in SUBSET Providers /\ runtime' \in SUBSET Providers /\ unbuilt' \in SUBSET Providers
        BY <2>1, <2>2, ShippedAssumption, RebuildType
    <2> QED BY <1>1, <1>8, <2>1, <2>3 DEF Reload, files
<1>9. CASE UNCHANGED routesVars
    BY <1>9 DEF routesVars, memory, files
<1> QED BY <1>2, <1>3, <1>4, <1>5, <1>6, <1>7, <1>8, <1>9 DEF RoutesNext

\* Every variable keeps its type; above all the provider a role falls back to
\* exists (apply_provider_overrides, _reconcile_role_routes).
THEOREM SettingsTypes == RoutesSpec => []RoutesTypeOK
BY InitRoutesTypeOK, NextRoutesTypeOK, PTL DEF RoutesSpec

-----------------------------------------------------------------------------
(* What runs is what is on and has a key.                                   *)

LEMMA RebuildMatches ==
    ASSUME NEW on, NEW e, NEW kept, RebuildLenient(on, e, kept) \/ Rebuild(on, e, kept, {})
    PROVE  runtime' = (on \cap (env' \cup kept)) \ unbuilt'
BY DEF RebuildLenient, Rebuild, EnvAfter

LEMMA NextRuntime == RoutesTypeOK /\ RuntimeMatches /\ [RoutesNext]_routesVars => RuntimeMatches'
<1> SUFFICES ASSUME RuntimeMatches, [RoutesNext]_routesVars PROVE RuntimeMatches'
    OBVIOUS
<1> USE DEF RuntimeMatches
<1>1. ASSUME pc' # "idle" PROVE RuntimeMatches'
    BY <1>1
<1>2. ASSUME pc = "idle", UNCHANGED <<enabled, runtime, env, stored, unbuilt>> PROVE RuntimeMatches'
    BY <1>2
<1>3. CASE Accept
    BY <1>3, RebuildMatches DEF Accept
<1>4. CASE Refuse
    BY <1>4, RebuildMatches DEF Refuse
<1>5. ASSUME NEW r, PutRoutes(r) \/ PutRoutesElsewhere(r) PROVE RuntimeMatches'
    BY <1>2, <1>5 DEF PutRoutes, PutRoutesElsewhere, memory
<1>6. ASSUME NEW p, SetKey(p) \/ DeleteKey(p) PROVE RuntimeMatches'
    BY <1>6, RebuildMatches DEF SetKey, DeleteKey
<1>7. ASSUME NEW p, TestProvider(p) \/ SetKeyElsewhere(p) PROVE RuntimeMatches'
    BY <1>7 DEF TestProvider, SetKeyElsewhere
<1>8. CASE Reload
    <2>1. RebuildLenient(enabled', EnvKeys, stored') /\ stored' = stored
        BY <1>8 DEF Reload, Started
    <2> QED BY <2>1, RebuildMatches
<1>9. CASE UNCHANGED routesVars
    BY <1>9 DEF routesVars, memory
<1> QED BY <1>1, <1>3, <1>4, <1>5, <1>6, <1>7, <1>8, <1>9 DEF RoutesNext, KeyStep, Apply, Crash

\* An adapter is in use for exactly the enabled providers whose key can be had and
\* whose adapter could be built, or will be when the key comes from another process.
THEOREM WhatRunsIsWhatIsOn == RoutesSpec => []RuntimeMatches
<1>1. RoutesInit => RuntimeMatches
    BY DEF RoutesInit, RuntimeMatches
<1> QED BY <1>1, InitRoutesTypeOK, NextRoutesTypeOK, NextRuntime, PTL DEF RoutesSpec

-----------------------------------------------------------------------------
(* The settings, the two files and what a restart makes of them.            *)

\* The settings a refusal returns to.
SettledEnabled == IF pc = "applying" THEN backup.enabled ELSE enabled
SettledRoutes == IF pc = "applying" THEN backup.routes ELSE routes

\* A process that is down after a quiet crash still has what it will load.
InOrder == pc = "down" => ~astray

\* provider_overrides.json is written last, so it holds the settled enablement.
EnabledOnFile == InOrder => LoadedEnabled(fileEnabled) = SettledEnabled

\* Routes are on file as they are, or not at all and as shipped.
OnFile(r) == fileRoutes = Holds(r) \/ (fileRoutes.is # "json" /\ r = ShippedRoutes)

\* routing_overrides.json is written by a change before it is accepted.
RoutesOnFile ==
    /\ pc = "applying" /\ routes # backup.routes => fileRoutes = Holds(routes)
    /\ ~astray /\ ~(pc = "applying" /\ routes # backup.routes) => OnFile(SettledRoutes)

\* Settled routes pass the validation of a start, unless they are the shipped
\* ones, which it takes as they are.
RoutesAreLoaded ==
    InOrder => ValidRoutes(SettledRoutes, SettledEnabled) \/ SettledRoutes = ShippedRoutes

FilesInv == EnabledOnFile /\ RoutesOnFile /\ RoutesAreLoaded

\* What a start makes of routes that are on file.
LEMMA LoadedIsOnFile ==
    ASSUME NEW r, NEW on, OnFile(r), ValidRoutes(r, on) \/ r = ShippedRoutes
    PROVE  LoadedRoutes(fileRoutes, on) = r
BY DEF OnFile, LoadedRoutes, Holds

LEMMA LoadedRoutesFit ==
    ASSUME NEW f, NEW on
    PROVE  ValidRoutes(LoadedRoutes(f, on), on) \/ LoadedRoutes(f, on) = ShippedRoutes
BY DEF LoadedRoutes

LEMMA FilesInvMeaning == FilesInv => RestartKeepsSettings
<1> SUFFICES ASSUME FilesInv, pc = "idle", ~astray
             PROVE  LET on == LoadedEnabled(fileEnabled)
                    IN on = enabled /\ LoadedRoutes(fileRoutes, on) = routes
    BY DEF RestartKeepsSettings
<1>1. LoadedEnabled(fileEnabled) = enabled
    BY DEF FilesInv, EnabledOnFile, InOrder, SettledEnabled
<1>2. OnFile(routes) /\ (ValidRoutes(routes, enabled) \/ routes = ShippedRoutes)
    BY DEF FilesInv, RoutesOnFile, RoutesAreLoaded, InOrder, SettledEnabled, SettledRoutes
<1> QED BY <1>1, <1>2, LoadedIsOnFile

LEMMA InitFilesInv == RoutesInit => FilesInv
BY DEF RoutesInit, FilesInv, EnabledOnFile, RoutesOnFile, RoutesAreLoaded, OnFile, InOrder,
       SettledEnabled, SettledRoutes, LoadedEnabled, Absent

\* A step that leaves the files, the enablement and the routes alone.
LEMMA FilesInvStutter ==
    ASSUME FilesInv, UNCHANGED <<pc, enabled, routes, files, backup, astray>>
    PROVE  FilesInv'
BY DEF FilesInv, EnabledOnFile, RoutesOnFile, RoutesAreLoaded, OnFile, InOrder,
       SettledEnabled, SettledRoutes, files

LEMMA ApplyKeepsFiles ==
    ASSUME FilesInv, NEW on, Apply(on)
    PROVE  FilesInv'
<1>1. SettledEnabled' = SettledEnabled /\ SettledRoutes' = SettledRoutes
    BY DEF Apply, SettledEnabled, SettledRoutes
<1>2. EnabledOnFile' /\ RoutesAreLoaded'
    BY <1>1 DEF FilesInv, EnabledOnFile, RoutesAreLoaded, InOrder, Apply
<1>3. RoutesOnFile'
    BY <1>1 DEF FilesInv, RoutesOnFile, OnFile, Apply, SettledRoutes
<1> QED BY <1>2, <1>3 DEF FilesInv

LEMMA AcceptKeepsFiles ==
    ASSUME RoutesTypeOK, FilesInv, Accept
    PROVE  FilesInv'
<1>1. pc' = "idle" /\ SettledEnabled' = enabled /\ SettledRoutes' = routes
    BY DEF Accept, SettledEnabled, SettledRoutes
<1>2. EnabledOnFile'
    BY <1>1, LoadedType DEF EnabledOnFile, Accept, RoutesTypeOK
<1>3. RoutesOnFile'
    BY <1>1 DEF FilesInv, RoutesOnFile, OnFile, Accept, SettledRoutes
<1>4. RoutesAreLoaded'
    BY <1>1 DEF RoutesAreLoaded, Accept, Buildable, ValidRoutes
<1> QED BY <1>2, <1>3, <1>4 DEF FilesInv

LEMMA RefuseKeepsFiles ==
    ASSUME FilesInv, Refuse
    PROVE  FilesInv'
<1>1. SettledEnabled' = SettledEnabled /\ SettledRoutes' = SettledRoutes
    BY DEF Refuse, SettledEnabled, SettledRoutes
<1>2. EnabledOnFile' /\ RoutesAreLoaded'
    BY <1>1 DEF FilesInv, EnabledOnFile, RoutesAreLoaded, InOrder, Refuse
<1>3. RoutesOnFile'
    BY <1>1 DEF RoutesOnFile, OnFile, Refuse, SettledRoutes
<1> QED BY <1>2, <1>3 DEF FilesInv

LEMMA PutRoutesKeepsFiles ==
    ASSUME FilesInv, NEW r, PutRoutes(r) \/ PutRoutesElsewhere(r)
    PROVE  FilesInv'
<1>1. CASE PutRoutes(r)
    <2>1. pc' = "idle" /\ SettledEnabled' = SettledEnabled /\ SettledRoutes' = r
        BY <1>1 DEF PutRoutes, SettledEnabled, SettledRoutes
    <2>2. EnabledOnFile'
        BY <1>1, <2>1 DEF FilesInv, EnabledOnFile, InOrder, PutRoutes
    <2>3. RoutesOnFile'
        BY <1>1, <2>1 DEF RoutesOnFile, OnFile, PutRoutes
    <2>4. RoutesAreLoaded'
        BY <1>1, <2>1 DEF RoutesAreLoaded, PutRoutes, ValidRoutes, SettledEnabled
    <2> QED BY <2>2, <2>3, <2>4 DEF FilesInv
<1>2. CASE PutRoutesElsewhere(r)
    BY <1>2 DEF PutRoutesElsewhere, FilesInv, EnabledOnFile, RoutesOnFile, RoutesAreLoaded,
                InOrder, SettledEnabled, SettledRoutes, memory
<1> QED BY <1>1, <1>2

LEMMA CrashKeepsFiles ==
    ASSUME FilesInv, RoutesTypeOK, Crash
    PROVE  FilesInv'
<1>1. CASE astray'
    BY <1>1 DEF Crash, FilesInv, EnabledOnFile, RoutesOnFile, RoutesAreLoaded, InOrder
<1>2. CASE ~astray'
    <2>1. pc = "idle" /\ ~astray /\ UNCHANGED <<files, memory>> /\ pc' = "down"
        BY <1>2 DEF Crash, RoutesTypeOK
    <2> QED BY <2>1 DEF FilesInv, EnabledOnFile, RoutesOnFile, RoutesAreLoaded, OnFile, InOrder,
                        SettledEnabled, SettledRoutes, files, memory
<1> QED BY <1>1, <1>2

LEMMA RestartKeepsFiles ==
    ASSUME FilesInv, Reload
    PROVE  FilesInv'
<1>1. /\ pc = "down" /\ pc' = "idle" /\ UNCHANGED <<files, astray>>
      /\ enabled' = LoadedEnabled(fileEnabled)
      /\ routes' = LoadedRoutes(fileRoutes, enabled')
    BY DEF Reload, Started
<1>2. SettledEnabled' = enabled' /\ SettledRoutes' = routes'
    BY <1>1 DEF SettledEnabled, SettledRoutes
<1>3. EnabledOnFile'
    BY <1>1, <1>2 DEF EnabledOnFile, files
<1>4. RoutesAreLoaded'
    BY <1>1, <1>2, LoadedRoutesFit DEF RoutesAreLoaded, ValidRoutes
<1>5. ASSUME ~astray PROVE OnFile(routes) /\ routes' = routes
    <2>1. enabled' = enabled
        BY <1>1, <1>5 DEF FilesInv, EnabledOnFile, InOrder, SettledEnabled
    <2>2. OnFile(routes) /\ (ValidRoutes(routes, enabled) \/ routes = ShippedRoutes)
        BY <1>1, <1>5 DEF FilesInv, RoutesOnFile, RoutesAreLoaded, InOrder, SettledEnabled,
                          SettledRoutes
    <2> QED BY <1>1, <2>1, <2>2, LoadedIsOnFile
<1>6. RoutesOnFile'
    BY <1>1, <1>2, <1>5 DEF RoutesOnFile, OnFile, files
<1> QED BY <1>3, <1>4, <1>6 DEF FilesInv

LEMMA NextFilesInv == RoutesTypeOK /\ FilesInv /\ [RoutesNext]_routesVars => FilesInv'
<1> SUFFICES ASSUME RoutesTypeOK, FilesInv, [RoutesNext]_routesVars PROVE FilesInv'
    OBVIOUS
<1>1. ASSUME NEW p, KeyStep(p) PROVE FilesInv'
    BY <1>1, FilesInvStutter DEF KeyStep, SetKey, SetKeyElsewhere, DeleteKey, TestProvider
<1>2. CASE UNCHANGED routesVars
    BY <1>2, FilesInvStutter DEF routesVars, memory
<1> QED BY <1>1, <1>2, ApplyKeepsFiles, AcceptKeepsFiles, RefuseKeepsFiles,
           PutRoutesKeepsFiles, CrashKeepsFiles, RestartKeepsFiles DEF RoutesNext

\* What a restart would find is what is in use (the settings endpoints of
\* server.py save before they answer).
THEOREM RestartFindsSettings == RoutesSpec => []RestartKeepsSettings
BY InitRoutesTypeOK, NextRoutesTypeOK, InitFilesInv, NextFilesInv, FilesInvMeaning, PTL
    DEF RoutesSpec

-----------------------------------------------------------------------------
(* No role is routed to a provider that is off: the shipped routes fit the   *)
(* shipped enablement (ShippedFit), and every change is validated.           *)

Fits(r, on) == on = {} \/ ValidRoutes(r, on)

SettledFit == ~astray => Fits(SettledRoutes, SettledEnabled)

LEMMA NextSettledFit ==
    RoutesTypeOK /\ FilesInv /\ SettledFit /\ [RoutesNext]_routesVars => SettledFit'
<1> SUFFICES ASSUME RoutesTypeOK, FilesInv, SettledFit, [RoutesNext]_routesVars, ~astray'
             PROVE  SettledFit'
    BY DEF SettledFit
<1> USE DEF SettledFit
<1>1. ASSUME ~astray, SettledEnabled' = SettledEnabled, SettledRoutes' = SettledRoutes
      PROVE  SettledFit'
    BY <1>1 DEF Fits, ValidRoutes
<1>2. ASSUME NEW on, Apply(on) PROVE SettledFit'
    BY <1>1, <1>2 DEF Apply, SettledEnabled, SettledRoutes
<1>3. CASE Accept
    BY <1>3 DEF Accept, Buildable, Fits, ValidRoutes, SettledEnabled, SettledRoutes
<1>4. CASE Refuse
    BY <1>1, <1>4 DEF Refuse, SettledEnabled, SettledRoutes
<1>5. ASSUME NEW r, PutRoutes(r) PROVE SettledFit'
    BY <1>5 DEF PutRoutes, Fits, ValidRoutes, SettledEnabled, SettledRoutes
<1>6. ASSUME NEW r, PutRoutesElsewhere(r) PROVE SettledFit'
    BY <1>6 DEF PutRoutesElsewhere
<1>7. ASSUME NEW p, KeyStep(p) PROVE SettledFit'
    BY <1>1, <1>7 DEF KeyStep, SetKey, SetKeyElsewhere, DeleteKey, TestProvider, SettledEnabled, SettledRoutes
<1>8. CASE Crash
    BY <1>1, <1>8 DEF Crash, RoutesTypeOK, SettledEnabled, SettledRoutes, memory
<1>9. CASE Reload
    <2>1. /\ pc = "down" /\ pc' = "idle" /\ ~astray
          /\ enabled' = LoadedEnabled(fileEnabled)
          /\ routes' = LoadedRoutes(fileRoutes, enabled')
        BY <1>9 DEF Reload, Started
    <2>2. /\ LoadedEnabled(fileEnabled) = enabled
          /\ OnFile(routes) /\ (ValidRoutes(routes, enabled) \/ routes = ShippedRoutes)
        BY <2>1 DEF FilesInv, EnabledOnFile, RoutesOnFile, RoutesAreLoaded, InOrder,
                    SettledEnabled, SettledRoutes
    <2>3. enabled' = enabled /\ routes' = routes
        BY <2>1, <2>2, LoadedIsOnFile
    <2> QED BY <1>1, <2>1, <2>3 DEF SettledEnabled, SettledRoutes
<1>10. CASE UNCHANGED routesVars
    BY <1>1, <1>10 DEF routesVars, memory, SettledEnabled, SettledRoutes
<1> QED BY <1>2, <1>3, <1>4, <1>5, <1>6, <1>7, <1>8, <1>9, <1>10 DEF RoutesNext

LEMMA SettledFitMeaning == SettledFit => RoutesNameEnabled
<1> SUFFICES ASSUME ValidRoutes(routes, enabled)
             PROVE  /\ \A role \in Required : routes[role] \in enabled
                    /\ \A role \in Optional : routes[role] \in enabled \cup {Blank}
    BY DEF SettledFit, Fits, RoutesNameEnabled, SettledEnabled, SettledRoutes
<1> QED BY RolesAssumption DEF ValidRoutes, Roles

\* Through accepted and refused changes, restarts and lost keys the settings
\* are well formed, name providers that are on, and are what runs.
THEOREM SettingsStayOK == RoutesSpec => []SettingsOK
<1>1. RoutesInit => SettledFit
    BY ShippedFit DEF Fits, RoutesInit, SettledFit, SettledEnabled, SettledRoutes
<1>2. RoutesInit => RuntimeMatches
    BY DEF RoutesInit, RuntimeMatches
<1>3. RoutesTypeOK /\ SettledFit /\ RuntimeMatches => SettingsOK
    BY SettledFitMeaning DEF SettingsOK
<1> QED BY <1>1, <1>2, <1>3, InitRoutesTypeOK, NextRoutesTypeOK, NextRuntime,
           InitFilesInv, NextFilesInv, NextSettledFit, PTL DEF RoutesSpec

-----------------------------------------------------------------------------
(* Skills: what a command or test has left to run. *)

\* What is left to run of a command or test.
Runs == {<<>>} \cup UNION {{SubSeq(r, n, Len(r)) : n \in 1..Len(r)} : r \in Sittings}

LEMMA SittingsAreRuns == \A r \in Sittings : r \in Runs /\ r # <<>>
<1> SUFFICES ASSUME NEW r \in Sittings PROVE r \in Runs /\ r # <<>>
    OBVIOUS
<1>1. r \in Seq({"run", "case"}) /\ r # <<>>
    BY ConstantsAssumption
<1>2. r = SubSeq(r, 1, Len(r))
    BY <1>1, SubSeqFull
<1>3. 1 \in 1..Len(r)
    BY <1>1
<1> QED BY <1>1, <1>2, <1>3 DEF Runs

LEMMA TailsAreRuns == \A r \in Runs : r # <<>> /\ Len(r) # 1 => Tail(r) \in Runs /\ Tail(r) # <<>>
<1> SUFFICES ASSUME NEW r \in Runs, r # <<>>, Len(r) # 1 PROVE Tail(r) \in Runs /\ Tail(r) # <<>>
    OBVIOUS
<1>1. PICK whole \in Sittings : \E n \in 1..Len(whole) : r = SubSeq(whole, n, Len(whole))
    BY DEF Runs
<1>0. PICK n \in 1..Len(whole) : r = SubSeq(whole, n, Len(whole))
    BY <1>1
<1>2. whole \in Seq({"run", "case"})
    BY ConstantsAssumption
<1> DEFINE len == Len(whole)
<1>3. len \in Nat /\ n \in 1..len
    BY <1>0, <1>2
<1>4. \A i \in n..len : whole[i] \in {"run", "case"}
    BY <1>2, <1>3
<1>5. r \in Seq({"run", "case"}) /\ Len(r) = len - n + 1
    BY <1>0, <1>3, <1>4, SubSeqProperties
<1>6. Tail(r) = SubSeq(whole, n + 1, len)
    BY <1>0, <1>2, <1>3, len \in n..len, HeadTailOfSubSeq
<1>7. n + 1 \in 1..len
    BY <1>3, <1>5
<1>8. Len(Tail(r)) = Len(r) - 1
    BY <1>5, r # <<>>, HeadTailProperties
<1>9. Len(r) - 1 # 0
    BY <1>3, <1>5, Len(r) # 1
<1>10. Tail(r) # <<>>
    BY <1>8, <1>9
<1>11. Tail(r) \in {SubSeq(whole, m, Len(whole)) : m \in 1..Len(whole)}
    BY <1>6, <1>7, Zenon
<1>12. Tail(r) \in Runs
    BY <1>11, Zenon DEF Runs
<1> QED BY <1>10, <1>12

-----------------------------------------------------------------------------
(* One operation. *)

Edits == {"checksum", "verify", "discover", "load", "truncate", "write"}
RunsAt == {"run", "steps", "over"}

CapOf(k) == IF FileCap[k.content] # 0 THEN FileCap[k.content] ELSE k.cap

\* What is spent is within the cap before every call, so that a call passes it
\* by its own cost at most; and what an elevated file did was agreed to.
OpOK(k) ==
    /\ k \in Operations
    /\ k.at \in Edits => k.skill \in Names
    /\ k.at = "verify" => k.record \in Records
    /\ k.at \in RunsAt => k.runs # <<>>
    /\ k.at \in {"steps", "over"} => k.content # NoFile /\ (Elevated(k.content) => k.lax)
    /\ k.at = "steps" => k.spent <= CapOf(k)
    /\ k.content # NoFile => \E cost \in Costs : k.spent <= CapOf(k) + cost
    /\ "impact" \in k.effects => k.confirm /\ k.lax /\ Elevated(k.content)
    /\ "unasked" \notin k.effects

OpsOK == \A p \in Processes : OpOK(op[p])

LEMMA RecordFacts ==
    /\ NoRecord \in Records \cup {NoRecord}
    /\ \A r \in Records : r # NoRecord
    /\ \A r \in Records \cup {NoRecord} :
          r.enabled \in BOOLEAN /\ r.verified \in BOOLEAN /\ r.checksum \in Files
<1>1. NoFile \notin Contents
    BY ConstantsAssumption
<1>2. NoRecord.checksum = NoFile /\ NoRecord.enabled = FALSE /\ NoRecord.verified = FALSE
    BY DEF NoRecord
<1>3. \A r \in Records :
          r.enabled \in BOOLEAN /\ r.verified \in BOOLEAN /\ r.checksum \in Contents
    BY DEF Records
<1>4. \A r \in Records : r # NoRecord
    BY <1>1, <1>2, <1>3
<1> QED BY <1>2, <1>3, <1>4 DEF Files

LEMMA IdleOK == OpOK(Idle)
<1>1. Idle.rows \in Rows /\ Idle.record \in Records \cup {NoRecord}
    BY DEF Idle, Rows
<1>2. Idle.runs \in {<<>>} \cup UNION {{SubSeq(r, n, Len(r)) : n \in 1..Len(r)} : r \in Sittings}
    BY DEF Idle
<1>3. 0 \in 0..MaxSteps /\ NoFile \in Files
    BY ConstantsAssumption DEF Files
<1>4. Idle \in Operations
    BY <1>1, <1>2, <1>3 DEF Idle, Operations
<1>5. Idle.at = "idle" /\ Idle.content = NoFile /\ Idle.effects = {}
    BY DEF Idle
<1> QED BY <1>4, <1>5 DEF OpOK, Edits, RunsAt

\* An operation that has begun nothing yet but to edit the registry.
LEMMA FreshOK ==
    ASSUME NEW at \in Edits \ {"verify"}, NEW s \in Names,
           NEW signed \in BOOLEAN, NEW want \in BOOLEAN
    PROVE  OpOK([Idle EXCEPT !.at = at, !.skill = s, !.signed = signed, !.want = want])
<1> DEFINE k == [Idle EXCEPT !.at = at, !.skill = s, !.signed = signed, !.want = want]
<1>1. Idle \in Operations
    BY IdleOK DEF OpOK
<1>2. k \in Operations
    BY <1>1 DEF Operations, Edits
<1>3. /\ k.at = at /\ k.skill = s /\ k.content = Idle.content /\ k.effects = Idle.effects
    BY <1>1 DEF Operations
<1>4. Idle.content = NoFile /\ Idle.effects = {}
    BY DEF Idle
<1> HIDE DEF k
<1>5. k.at \notin RunsAt /\ k.at \notin {"steps", "over"} /\ k.at # "steps"
    BY <1>3 DEF Edits, RunsAt
<1>6. OpOK(k)
    BY <1>2, <1>3, <1>4, <1>5 DEF OpOK
<1> QED BY <1>6 DEF k

\* A step of one operation leaves the others alone.
LEMMA OneOp ==
    ASSUME NEW p \in Processes, NEW k, OpOK(k), OpsOK,
           op \in [Processes -> Operations], op' = [op EXCEPT ![p] = k]
    PROVE  op' \in [Processes -> Operations] /\ OpsOK'
<1>1. k \in Operations
    BY DEF OpOK
<1>2. ASSUME NEW q \in Processes PROVE OpOK(op[q])'
    <2> DEFINE x == op'[q]
    <2>1. x = op[q] \/ x = k
        OBVIOUS
    <2> HIDE DEF x
    <2>2. OpOK(x)
        BY <2>1 DEF OpsOK
    <2> QED BY <2>2 DEF x, OpOK, CapOf
<1> QED BY <1>1, <1>2 DEF OpsOK

\* A process that edits the registry takes along what it knows of its run: nothing.
LEMMA EditOp ==
    ASSUME NEW k \in Operations, NEW j, OpOK(j), k.at \in Edits, k.skill \in Names,
           k.at = "verify" => k.record \in Records,
           k.content = j.content, k.cap = j.cap, k.spent = j.spent,
           k.confirm = j.confirm, k.lax = j.lax, k.effects = j.effects
    PROVE  OpOK(k)
<1>1. k.at \notin RunsAt /\ k.at \notin {"steps", "over"} /\ k.at # "steps"
    BY DEF Edits, RunsAt
<1>2. CapOf(k) = CapOf(j)
    BY DEF CapOf
<1>3. k.content # NoFile => \E cost \in Costs : k.spent <= CapOf(k) + cost
    BY <1>2 DEF OpOK
<1>4. "impact" \in k.effects => k.confirm /\ k.lax /\ Elevated(k.content)
    BY DEF OpOK
<1>5. "unasked" \notin k.effects
    BY DEF OpOK
<1> QED BY <1>1, <1>3, <1>4, <1>5 DEF OpOK

LEMMA DiscoveredRecord ==
    ASSUME SkillsTypeOK, NEW s \in Names
    PROVE  /\ Discovered(s) \in Records \cup {NoRecord}
           /\ file[s] # NoFile => Discovered(s) \in Records /\ ~Discovered(s).verified
           /\ file[s] = NoFile => Discovered(s) = registry[s]
<1>1. file[s] \in Files /\ registry[s] \in Records \cup {NoRecord}
    BY DEF SkillsTypeOK, Rows
<1>2. registry[s].enabled \in BOOLEAN
    BY <1>1, RecordFacts
<1>3. ASSUME file[s] # NoFile
      PROVE  Discovered(s) \in Records /\ ~Discovered(s).verified
    <2>1. file[s] \in Contents
        BY <1>1, <1>3 DEF Files
    <2>2. (registry[s] = NoRecord \/ registry[s].enabled) \in BOOLEAN
        BY <1>2
    <2> QED BY <1>3, <2>1, <2>2 DEF Discovered, Records
<1>4. ASSUME file[s] = NoFile PROVE Discovered(s) = registry[s]
    BY <1>4 DEF Discovered
<1> QED BY <1>1, <1>3, <1>4

LEMMA BeginOps ==
    ASSUME SkillsTypeOK, OpsOK, NEW p \in Processes, NEW k, OpOK(k), Begin(p, k)
    PROVE  /\ op' \in [Processes -> Operations] /\ OpsOK'
           /\ ops' \in 0..MaxOps /\ overlapped' \in BOOLEAN
<1>1. op' \in [Processes -> Operations] /\ OpsOK'
    BY OneOp DEF Begin, SkillsTypeOK
<1>2. ops' \in 0..MaxOps
    BY ConstantsAssumption DEF Begin, SkillsTypeOK
<1>3. overlapped' \in BOOLEAN
    BY DEF Begin, SkillsTypeOK
<1> QED BY <1>1, <1>2, <1>3

LEMMA EndOps ==
    ASSUME SkillsTypeOK, OpsOK, NEW p \in Processes, End(p)
    PROVE  op' \in [Processes -> Operations] /\ OpsOK'
<1> QED BY OneOp, IdleOK DEF End, SkillsTypeOK

LEMMA NextRunOps ==
    ASSUME SkillsTypeOK, OpsOK, NEW p \in Processes, NEW failed \in BOOLEAN,
           op[p].at \in RunsAt, NextRun(p, failed)
    PROVE  op' \in [Processes -> Operations] /\ OpsOK'
<1>1. CASE End(p)
    BY <1>1, EndOps
<1>2. CASE /\ Len(op[p].runs) # 1
           /\ op' = [op EXCEPT ![p] = [@ EXCEPT !.at = "run", !.runs = Tail(op[p].runs)]]
    <2> DEFINE j == op[p]
               k == [j EXCEPT !.at = "run", !.runs = Tail(j.runs)]
    <2>1. j \in Operations /\ OpOK(j) /\ j.runs \in Runs /\ j.runs # <<>>
        BY DEF SkillsTypeOK, OpsOK, OpOK, Operations, Runs
    <2>2. Tail(j.runs) \in Runs /\ Tail(j.runs) # <<>>
        BY <1>2, <2>1, TailsAreRuns
    <2>3. op' = [op EXCEPT ![p] = k]
        BY <1>2
    <2> HIDE DEF j
    <2>4. k \in Operations
        BY <2>1, <2>2 DEF Operations, Runs
    <2>5. /\ k.at = "run" /\ k.runs = Tail(j.runs) /\ k.content = j.content /\ k.cap = j.cap
          /\ k.spent = j.spent /\ k.confirm = j.confirm /\ k.lax = j.lax
          /\ k.effects = j.effects
        BY <2>1 DEF Operations
    <2> HIDE DEF k
    <2>6. CapOf(k) = CapOf(j)
        BY <2>5 DEF CapOf
    <2>7. k.content # NoFile => \E cost \in Costs : k.spent <= CapOf(k) + cost
        BY <2>1, <2>5, <2>6 DEF OpOK
    <2>8. /\ "impact" \in k.effects => k.confirm /\ k.lax /\ Elevated(k.content)
          /\ "unasked" \notin k.effects
        BY <2>1, <2>5 DEF OpOK
    <2>9. OpOK(k)
        BY <2>2, <2>4, <2>5, <2>7, <2>8 DEF OpOK, Edits, RunsAt
    <2> QED BY <2>3, <2>9, OneOp DEF SkillsTypeOK
<1> QED BY <1>1, <1>2 DEF NextRun

-----------------------------------------------------------------------------
(* The steps of an edit keep the operation in order. *)

LEMMA ChecksumOps ==
    ASSUME SkillsTypeOK, OpsOK, NEW p \in Processes, Checksum(p)
    PROVE  op' \in [Processes -> Operations] /\ OpsOK'
<1>1. CASE End(p)
    BY <1>1, EndOps
<1>2. CASE ~End(p)
    <2> DEFINE j == op[p]
               r == [enabled |-> TRUE, checksum |-> file[j.skill], verified |-> FALSE]
               k == [j EXCEPT !.at = "verify", !.record = r]
    <2>1. j \in Operations /\ OpOK(j) /\ j.at = "checksum" /\ j.skill \in Names
        BY DEF SkillsTypeOK, OpsOK, OpOK, Edits, Checksum
    <2>2. file[j.skill] # NoFile /\ op' = [op EXCEPT ![p] = k]
        BY <1>2 DEF Checksum
    <2>3. r \in Records
        BY <2>1, <2>2 DEF SkillsTypeOK, Files, Records
    <2> HIDE DEF j, r
    <2>4. k \in Operations
        BY <2>1, <2>3 DEF Operations
    <2>5. /\ k.at = "verify" /\ k.record = r
          /\ k.skill = j.skill /\ k.content = j.content /\ k.cap = j.cap
          /\ k.spent = j.spent /\ k.confirm = j.confirm /\ k.lax = j.lax
          /\ k.effects = j.effects
        BY <2>1 DEF Operations
    <2> HIDE DEF k
    <2>6. OpOK(k)
        BY <2>1, <2>3, <2>4, <2>5, EditOp DEF Edits
    <2> QED BY <2>2, <2>6, OneOp DEF SkillsTypeOK
<1> QED BY <1>1, <1>2

LEMMA VerifyOps ==
    ASSUME SkillsTypeOK, OpsOK, NEW p \in Processes, Verify(p)
    PROVE  op' \in [Processes -> Operations] /\ OpsOK'
<1>1. CASE End(p)
    BY <1>1, EndOps
<1>2. CASE ~End(p)
    <2> DEFINE j == op[p]
               r == [j.record EXCEPT !.verified = j.signed]
               k == [j EXCEPT !.at = "load", !.record = r]
    <2>1. j \in Operations /\ OpOK(j) /\ j.at = "verify" /\ j.skill \in Names
        BY DEF SkillsTypeOK, OpsOK, OpOK, Edits, Verify
    <2>2. op' = [op EXCEPT ![p] = k]
        BY <1>2 DEF Verify
    <2>3. r \in Records
        BY <2>1 DEF Operations, OpOK, Records
    <2> HIDE DEF j, r
    <2>4. k \in Operations
        BY <2>1, <2>3 DEF Operations
    <2>5. /\ k.at = "load" /\ k.skill = j.skill /\ k.content = j.content /\ k.cap = j.cap
          /\ k.spent = j.spent /\ k.confirm = j.confirm /\ k.lax = j.lax
          /\ k.effects = j.effects
        BY <2>1 DEF Operations
    <2> HIDE DEF k
    <2>6. OpOK(k)
        BY <2>1, <2>4, <2>5, EditOp DEF Edits
    <2> QED BY <2>2, <2>6, OneOp DEF SkillsTypeOK
<1> QED BY <1>1, <1>2

LEMMA DiscoverOps ==
    ASSUME SkillsTypeOK, OpsOK, NEW p \in Processes, Discover(p)
    PROVE  op' \in [Processes -> Operations] /\ OpsOK'
<1>1. CASE End(p)
    BY <1>1, EndOps
<1>2. CASE ~End(p)
    <2> DEFINE j == op[p]
               r == [Discovered(j.skill) EXCEPT !.enabled = j.want]
               k == [j EXCEPT !.at = "load", !.record = r]
    <2>1. j \in Operations /\ OpOK(j) /\ j.at = "discover" /\ j.skill \in Names
        BY DEF SkillsTypeOK, OpsOK, OpOK, Edits, Discover
    <2>2. Discovered(j.skill) # NoRecord /\ op' = [op EXCEPT ![p] = k]
        BY <1>2 DEF Discover
    <2>3. r \in Records
        <3>1. Discovered(j.skill) \in Records
            BY <2>1, <2>2, DiscoveredRecord
        <3>2. j.want \in BOOLEAN
            BY <2>1 DEF Operations
        <3> QED BY <3>1, <3>2 DEF Records
    <2> HIDE DEF j, r
    <2>4. k \in Operations
        BY <2>1, <2>3 DEF Operations
    <2>5. /\ k.at = "load" /\ k.skill = j.skill /\ k.content = j.content /\ k.cap = j.cap
          /\ k.spent = j.spent /\ k.confirm = j.confirm /\ k.lax = j.lax
          /\ k.effects = j.effects
        BY <2>1 DEF Operations
    <2> HIDE DEF k
    <2>6. OpOK(k)
        BY <2>1, <2>4, <2>5, EditOp DEF Edits
    <2> QED BY <2>2, <2>6, OneOp DEF SkillsTypeOK
<1> QED BY <1>1, <1>2

LEMMA LoadOps ==
    ASSUME SkillsTypeOK, OpsOK, NEW p \in Processes, Load(p)
    PROVE  op' \in [Processes -> Operations] /\ OpsOK'
<1>1. CASE End(p)
    BY <1>1, EndOps
<1>2. CASE ~End(p)
    <2> DEFINE j == op[p]
               r == registry
               k == [j EXCEPT !.at = "truncate", !.rows = r]
    <2>1. j \in Operations /\ OpOK(j) /\ j.at = "load" /\ j.skill \in Names
        BY DEF SkillsTypeOK, OpsOK, OpOK, Edits, Load
    <2>2. op' = [op EXCEPT ![p] = k]
        BY <1>2 DEF Load
    <2>3. r \in Rows
        BY DEF SkillsTypeOK
    <2> HIDE DEF j, r
    <2>4. k \in Operations
        BY <2>1, <2>3 DEF Operations
    <2>5. /\ k.at = "truncate" /\ k.skill = j.skill /\ k.content = j.content /\ k.cap = j.cap
          /\ k.spent = j.spent /\ k.confirm = j.confirm /\ k.lax = j.lax
          /\ k.effects = j.effects
        BY <2>1 DEF Operations
    <2> HIDE DEF k
    <2>6. OpOK(k)
        BY <2>1, <2>4, <2>5, EditOp DEF Edits
    <2> QED BY <2>2, <2>6, OneOp DEF SkillsTypeOK
<1> QED BY <1>1, <1>2

LEMMA TruncateOps ==
    ASSUME SkillsTypeOK, OpsOK, NEW p \in Processes, Truncate(p)
    PROVE  op' \in [Processes -> Operations] /\ OpsOK'
<1> DEFINE j == op[p]
           k == [j EXCEPT !.at = "write", !.clobbered = FALSE]
<1>1. j \in Operations /\ OpOK(j) /\ j.at = "truncate" /\ j.skill \in Names
    BY DEF SkillsTypeOK, OpsOK, OpOK, Edits, Truncate
<1>2. op' = [op EXCEPT ![p] = k]
    BY DEF Truncate
<1> HIDE DEF j
<1>3. k \in Operations
    BY <1>1 DEF Operations
<1>4. /\ k.at = "write" /\ k.skill = j.skill /\ k.content = j.content /\ k.cap = j.cap
      /\ k.spent = j.spent /\ k.confirm = j.confirm /\ k.lax = j.lax
      /\ k.effects = j.effects
    BY <1>1 DEF Operations
<1> HIDE DEF k
<1>5. OpOK(k)
    BY <1>1, <1>3, <1>4, EditOp DEF Edits
<1> QED BY <1>2, <1>5, OneOp DEF SkillsTypeOK

LEMMA WriteOps ==
    ASSUME SkillsTypeOK, OpsOK, NEW p \in Processes, Write(p)
    PROVE  op' \in [Processes -> Operations] /\ OpsOK'
<1>1. ASSUME NEW q \in Processes PROVE op'[q] \in Operations /\ OpOK(op[q])'
    <2> DEFINE j == op[q]
               k == [j EXCEPT !.clobbered = TRUE]
               x == op'[q]
    <2>1. j \in Operations /\ OpOK(j)
        BY DEF SkillsTypeOK, OpsOK
    <2>2. x = Idle \/ x = j \/ (x = k /\ j.at = "write")
        BY DEF Write
    <2> HIDE DEF j
    <2>3. ASSUME x = k, j.at = "write" PROVE OpOK(k)
        <3>1. k \in Operations
            BY <2>1 DEF Operations
        <3>2. /\ k.at = "write" /\ k.skill = j.skill /\ k.content = j.content /\ k.cap = j.cap
              /\ k.spent = j.spent /\ k.confirm = j.confirm /\ k.lax = j.lax
              /\ k.effects = j.effects
            BY <2>1, <2>3 DEF Operations
        <3>3. k.skill \in Names
            BY <2>1, <2>3, <3>2 DEF OpOK, Edits
        <3> HIDE DEF k
        <3> QED BY <2>1, <3>1, <3>2, <3>3, EditOp DEF Edits
    <2> HIDE DEF x, k
    <2>4. OpOK(x)
        BY <2>1, <2>2, <2>3, IdleOK
    <2> QED BY <2>4 DEF x, OpOK, CapOf
<1>2. op' = [q \in Processes |-> op'[q]]
    BY DEF Write
<1> QED BY <1>1, <1>2 DEF OpsOK

-----------------------------------------------------------------------------
(* The steps of a run. *)

\* The cap of the file goes before the option's, and both are amounts.
LEMMA CapType == \A k \in Operations : k.content # NoFile => CapOf(k) \in Nat
<1> SUFFICES ASSUME NEW k \in Operations, k.content # NoFile PROVE CapOf(k) \in Nat
    OBVIOUS
<1>1. k.content \in Contents /\ k.cap \in Nat
    BY DEF Operations, Files
<1>2. FileCap[k.content] \in Nat
    BY <1>1, ConstantsAssumption
<1> QED BY <1>1, <1>2 DEF CapOf

LEMMA NothingSpent == \A cap \in Nat : \E cost \in Costs : 0 <= cap + cost
<1>1. PICK cost \in Costs : cost \in Nat
    BY ConstantsAssumption
<1> QED BY <1>1

\* A file has a step left.
LEMMA OneLess == \A k \in Operations : k.left > 0 => k.left - 1 \in 0..MaxSteps
<1> SUFFICES ASSUME NEW k \in Operations PROVE k.left > 0 => k.left - 1 \in 0..MaxSteps
    OBVIOUS
<1>1. k.left \in 0..MaxSteps /\ MaxSteps \in Nat
    BY ConstantsAssumption DEF Operations
<1> QED BY <1>1

LEMMA RunOps ==
    ASSUME SkillsTypeOK, OpsOK, NEW p \in Processes, NEW s \in Names \cup {""},
           NEW c \in Files, NEW runs \in Sittings, NEW option \in Options,
           NEW confirm \in BOOLEAN, NEW lax \in BOOLEAN,
           Run(p, s, c, runs, option, confirm, lax)
    PROVE  /\ op' \in [Processes -> Operations] /\ OpsOK'
           /\ ops' \in 0..MaxOps /\ overlapped' \in BOOLEAN
<1> DEFINE k == [Idle EXCEPT !.at = "run", !.skill = s, !.content = c, !.runs = runs,
                             !.cap = option, !.confirm = confirm, !.lax = lax]
<1>1. Idle \in Operations
    BY IdleOK DEF OpOK
<1>2. option \in Nat /\ runs \in Runs /\ runs # <<>>
    BY ConstantsAssumption, SittingsAreRuns
<1>3. k \in Operations
    BY <1>1, <1>2 DEF Operations, Runs
<1>4. /\ k.at = "run" /\ k.runs = runs /\ k.spent = Idle.spent /\ k.effects = Idle.effects
    BY <1>1 DEF Operations
<1>5. Idle.spent = 0 /\ Idle.effects = {}
    BY DEF Idle
<1>6. Begin(p, k)
    BY DEF Run
<1> HIDE DEF k
<1>7. k.content # NoFile => \E cost \in Costs : k.spent <= CapOf(k) + cost
    BY <1>3, <1>4, <1>5, CapType, NothingSpent
<1>8. OpOK(k)
    BY <1>2, <1>3, <1>4, <1>5, <1>7 DEF OpOK, Edits
<1> QED BY <1>6, <1>8, BeginOps

LEMMA RunBeginOps ==
    ASSUME SkillsTypeOK, OpsOK, NEW p \in Processes, NEW steps \in 1..MaxSteps,
           RunBegin(p, steps)
    PROVE  op' \in [Processes -> Operations] /\ OpsOK'
<1> DEFINE j == op[p]
           c == IF j.skill = "" THEN j.content ELSE file[j.skill]
           k == [j EXCEPT !.at = "steps", !.content = c, !.left = steps,
                          !.spent = 0, !.effects = {}]
<1>1. j \in Operations /\ OpOK(j) /\ j.at = "run" /\ j.runs # <<>>
    BY DEF SkillsTypeOK, OpsOK, OpOK, RunsAt, RunBegin
<1>2. CASE NextRun(p, TRUE)
    BY <1>1, <1>2, NextRunOps DEF RunsAt
<1>3. CASE ~NextRun(p, TRUE)
    <2>1. c \in Files
        BY <1>1 DEF Operations, SkillsTypeOK
    <2>2. c # NoFile /\ op' = [op EXCEPT ![p] = k]
        BY <1>3 DEF RunBegin
    <2>3. ASSUME j.skill # "" PROVE ~Certified(j.skill)
        <3>1. j.skill \in Names
            BY <1>1, <2>3 DEF Operations
        <3> QED BY <2>2, <2>3, <3>1, DiscoveredRecord DEF Certified
    <2>4. Elevated(c) => j.lax
        BY <1>3, <2>3 DEF RunBegin
    <2>5. 0 \in Nat /\ steps \in 0..MaxSteps
        BY ConstantsAssumption
    <2> HIDE DEF j, c
    <2>6. k \in Operations
        BY <1>1, <2>1, <2>5 DEF Operations
    <2>7. /\ k.at = "steps" /\ k.runs = j.runs /\ k.content = c /\ k.lax = j.lax
          /\ k.spent = 0 /\ k.effects = {}
        BY <1>1 DEF Operations
    <2> HIDE DEF k
    <2>8. CapOf(k) \in Nat
        BY <2>2, <2>6, <2>7, CapType
    <2>9. k.spent <= CapOf(k) /\ \E cost \in Costs : k.spent <= CapOf(k) + cost
        BY <2>7, <2>8, NothingSpent
    <2>10. OpOK(k)
        BY <1>1, <2>2, <2>4, <2>6, <2>7, <2>9 DEF OpOK, Edits, RunsAt
    <2> QED BY <2>2, <2>10, OneOp DEF SkillsTypeOK
<1> QED BY <1>2, <1>3

LEMMA ModelCallOps ==
    ASSUME SkillsTypeOK, OpsOK, NEW p \in Processes, NEW cost \in Costs, ModelCall(p, cost)
    PROVE  op' \in [Processes -> Operations] /\ OpsOK'
<1> DEFINE j == op[p]
           at == IF OverCap(p, cost) THEN "over" ELSE "steps"
           k == [j EXCEPT !.at = at, !.left = j.left - 1, !.spent = j.spent + cost]
<1>1. j \in Operations /\ OpOK(j) /\ j.at = "steps" /\ j.runs # <<>> /\ j.left > 0
    BY DEF SkillsTypeOK, OpsOK, OpOK, RunsAt, ModelCall
<1>2. op' = [op EXCEPT ![p] = k]
    BY DEF ModelCall
<1>3. at \in {"steps", "over"} /\ (at = "steps" => j.spent + cost <= CapOf(j))
    <2>1. CapOf(j) = Cap(p)
        BY DEF CapOf, Cap
    <2>2. CapOf(j) \in Nat /\ j.spent \in Nat /\ cost \in Nat
        BY <1>1, CapType, ConstantsAssumption DEF OpOK, Operations
    <2>3. ASSUME ~OverCap(p, cost) PROVE j.spent + cost <= CapOf(j)
        BY <2>1, <2>2, <2>3 DEF OverCap
    <2> QED BY <2>3
<1> HIDE DEF j, at
<1>4. j.left - 1 \in 0..MaxSteps /\ j.spent + cost \in Nat
    <2>1. j.spent \in Nat /\ cost \in Nat
        BY <1>1, ConstantsAssumption DEF Operations
    <2> QED BY <1>1, <2>1, OneLess
<1>5. k \in Operations
    BY <1>1, <1>3, <1>4 DEF Operations
<1>6. /\ k.at = at /\ k.runs = j.runs /\ k.content = j.content /\ k.cap = j.cap
      /\ k.spent = j.spent + cost /\ k.confirm = j.confirm /\ k.lax = j.lax
      /\ k.effects = j.effects
    BY <1>1 DEF Operations
<1> HIDE DEF k
<1>7. CapOf(k) = CapOf(j)
    BY <1>6 DEF CapOf
<1>8. k.spent <= CapOf(k) + cost
    <2>1. CapOf(j) \in Nat /\ j.spent \in Nat /\ cost \in Nat
        BY <1>1, CapType, ConstantsAssumption DEF OpOK, Operations
    <2>2. j.spent <= CapOf(j)
        BY <1>1 DEF OpOK
    <2> QED BY <1>6, <1>7, <2>1, <2>2
<1>9. /\ "impact" \in k.effects => k.confirm /\ k.lax /\ Elevated(k.content)
      /\ "unasked" \notin k.effects
      /\ k.content # NoFile /\ (Elevated(k.content) => k.lax)
    BY <1>1, <1>6 DEF OpOK
<1>10. k.at = "steps" => k.spent <= CapOf(k)
    BY <1>3, <1>6, <1>7
<1>11. k.at \notin Edits /\ k.at # "verify" /\ k.runs # <<>>
    BY <1>1, <1>3, <1>6 DEF Edits
<1>12. OpOK(k)
    BY <1>5, <1>8, <1>9, <1>10, <1>11 DEF OpOK
<1> QED BY <1>2, <1>12, OneOp DEF SkillsTypeOK

\* An elevated file's risky tools are asked for, and a plain file has none.
LEMMA EffectsAreConsented ==
    ASSUME NEW c \in Contents, NEW tool \in Tools, NEW approved \in BOOLEAN,
           ~ToolDenied(c, Risk(tool, c)), Granted(c, Risk(tool, c), tool, approved)
    PROVE  /\ Effects(tool, Risk(tool, c), approved) \subseteq {"impact"}
           /\ "impact" \in Effects(tool, Risk(tool, c), approved) =>
                 /\ Elevated(c)
                 /\ ShadowFirst(c, Risk(tool, c), tool)
<1> DEFINE risk == Risk(tool, c)
<1>1. risk \in {"low", "medium", "high"}
    BY DEF Risk
<1> HIDE DEF risk
<1>2. risk # "low" => Elevated(c)
    BY DEF ToolDenied, risk
<1>3. risk = "high" => approved
    BY <1>2 DEF Granted, HumanRequired, Elevated, risk
<1>4. Effects(tool, risk, approved) \subseteq {"impact"}
    BY <1>3 DEF Effects
<1>5. "impact" \in Effects(tool, risk, approved) => risk # "low" /\ Impactful(tool)
    BY DEF Effects
<1> QED BY <1>2, <1>4, <1>5 DEF ShadowFirst, risk

LEMMA ToolStepOps ==
    ASSUME SkillsTypeOK, OpsOK, NEW p \in Processes, NEW tool \in Tools,
           NEW approved \in BOOLEAN, ToolStep(p, tool, approved)
    PROVE  op' \in [Processes -> Operations] /\ OpsOK'
<1> DEFINE j == op[p]
           e == Effects(tool, Risk(tool, j.content), approved)
           k == [j EXCEPT !.left = j.left - 1, !.effects = j.effects \cup e]
<1>1. j \in Operations /\ OpOK(j) /\ j.at = "steps" /\ j.left > 0
    BY DEF SkillsTypeOK, OpsOK, ToolStep
<1>2. op' = [op EXCEPT ![p] = k]
    BY DEF ToolStep
<1>3. j.content \in Contents
    BY <1>1 DEF OpOK, Operations, Files
<1>4. /\ e \subseteq {"impact"}
      /\ "impact" \in e => Elevated(j.content) /\ j.confirm
    BY <1>3, EffectsAreConsented DEF ToolStep
<1> HIDE DEF j, e
<1>5. j.left - 1 \in 0..MaxSteps /\ j.effects \cup e \in SUBSET {"impact", "unasked"}
    <2>1. j.effects \in SUBSET {"impact", "unasked"}
        BY <1>1 DEF Operations
    <2> QED BY <1>1, <1>4, <2>1, OneLess
<1>6. k \in Operations
    BY <1>1, <1>5 DEF Operations
<1>7. /\ k.at = "steps" /\ k.runs = j.runs /\ k.content = j.content /\ k.cap = j.cap
      /\ k.spent = j.spent /\ k.confirm = j.confirm /\ k.lax = j.lax
      /\ k.effects = j.effects \cup e
    BY <1>1 DEF Operations
<1> HIDE DEF k
<1>8. CapOf(k) = CapOf(j)
    BY <1>7 DEF CapOf
<1>9. k.spent <= CapOf(k) /\ \E cost \in Costs : k.spent <= CapOf(k) + cost
    BY <1>1, <1>3, <1>7, <1>8, ConstantsAssumption DEF OpOK
<1>10. k.content # NoFile /\ (Elevated(k.content) => k.lax) /\ k.runs # <<>>
    BY <1>1, <1>7 DEF OpOK, RunsAt
<1>11. "impact" \in k.effects => k.confirm /\ k.lax /\ Elevated(k.content)
    BY <1>1, <1>4, <1>7 DEF OpOK
<1>12. "unasked" \notin k.effects
    BY <1>1, <1>4, <1>7 DEF OpOK
<1>13. OpOK(k)
    BY <1>6, <1>7, <1>9, <1>10, <1>11, <1>12 DEF OpOK, Edits
<1> QED BY <1>2, <1>13, OneOp DEF SkillsTypeOK

-----------------------------------------------------------------------------
(* Every state is well typed and every operation in order. *)

LEMMA InstallOps ==
    ASSUME SkillsTypeOK, OpsOK, NEW p \in Processes, NEW s \in Names, NEW c \in Contents,
           NEW require \in BOOLEAN, Install(p, s, c, require)
    PROVE  SkillsTypeOK' /\ OpsOK'
<1>1. OpOK([Idle EXCEPT !.at = "checksum", !.skill = s, !.signed = require, !.want = TRUE])
    BY FreshOK DEF Edits
<1>2. /\ op' \in [Processes -> Operations] /\ OpsOK'
      /\ ops' \in 0..MaxOps /\ overlapped' \in BOOLEAN
    BY <1>1, BeginOps DEF Install
<1>3. file' \in [Names -> Files] /\ sig' \in [Names -> Files]
    BY DEF Install, SkillsTypeOK, Files
<1> QED BY <1>2, <1>3 DEF Install, SkillsTypeOK

LEMMA DiscoveringOK ==
    ASSUME NEW s \in Names, NEW want \in BOOLEAN
    PROVE  OpOK([Idle EXCEPT !.at = "discover", !.skill = s, !.want = want])
<1> DEFINE k == [Idle EXCEPT !.at = "discover", !.skill = s, !.want = want]
<1>1. Idle \in Operations
    BY IdleOK DEF OpOK
<1>2. k \in Operations
    BY <1>1 DEF Operations
<1>3. /\ k.at = "discover" /\ k.skill = s /\ k.content = Idle.content /\ k.cap = Idle.cap
      /\ k.spent = Idle.spent /\ k.confirm = Idle.confirm /\ k.lax = Idle.lax
      /\ k.effects = Idle.effects
    BY <1>1 DEF Operations
<1> HIDE DEF k
<1>4. OpOK(k)
    BY <1>2, <1>3, IdleOK, EditOp DEF Edits
<1> QED BY <1>4 DEF k

LEMMA DeletingOK ==
    ASSUME NEW s \in Names
    PROVE  OpOK([Idle EXCEPT !.at = "load", !.skill = s])
<1> DEFINE k == [Idle EXCEPT !.at = "load", !.skill = s]
<1>1. Idle \in Operations
    BY IdleOK DEF OpOK
<1>2. k \in Operations
    BY <1>1 DEF Operations
<1>3. /\ k.at = "load" /\ k.skill = s /\ k.content = Idle.content /\ k.cap = Idle.cap
      /\ k.spent = Idle.spent /\ k.confirm = Idle.confirm /\ k.lax = Idle.lax
      /\ k.effects = Idle.effects
    BY <1>1 DEF Operations
<1> HIDE DEF k
<1>4. OpOK(k)
    BY <1>2, <1>3, IdleOK, EditOp DEF Edits
<1> QED BY <1>4 DEF k

LEMMA WriteTypes ==
    ASSUME SkillsTypeOK, OpsOK, NEW p \in Processes, Write(p)
    PROVE  SkillsTypeOK'
<1>1. op' \in [Processes -> Operations]
    BY WriteOps
<1>2. op[p] \in Operations /\ op[p].skill \in Names
    BY DEF SkillsTypeOK, OpsOK, OpOK, Edits, Write
<1>3. op[p].rows \in Rows /\ op[p].record \in Records \cup {NoRecord} /\ op[p].want \in BOOLEAN
    BY <1>2 DEF Operations
<1>4. registry' \in Rows
    BY <1>2, <1>3 DEF Write, SavedRows, Rows
<1>5. wanted' \in [Names -> BOOLEAN]
    BY <1>2, <1>3 DEF Write, SkillsTypeOK
<1>6. readable' \in BOOLEAN /\ intruders' \subseteq Names
    BY DEF Write, SkillsTypeOK
<1> QED BY <1>1, <1>4, <1>5, <1>6 DEF Write, SkillsTypeOK

LEMMA NextOps == SkillsTypeOK /\ OpsOK /\ [SkillsNext]_skillsVars => SkillsTypeOK' /\ OpsOK'
<1> SUFFICES ASSUME SkillsTypeOK, OpsOK, [SkillsNext]_skillsVars
             PROVE  SkillsTypeOK' /\ OpsOK'
    OBVIOUS
<1>1. CASE UNCHANGED skillsVars
    BY <1>1 DEF skillsVars, history, SkillsTypeOK, OpsOK, OpOK, CapOf
<1>2. ASSUME NEW p \in Processes, NEW s \in Names, NEW c \in Contents, NEW require \in BOOLEAN,
             Install(p, s, c, require)
      PROVE  SkillsTypeOK' /\ OpsOK'
    BY <1>2, InstallOps
<1>3. ASSUME NEW p \in Processes, NEW s \in Names, NEW on \in BOOLEAN,
             SetEnabled(p, s, on)
      PROVE  SkillsTypeOK' /\ OpsOK'
    <2>1. /\ op' \in [Processes -> Operations] /\ OpsOK'
          /\ ops' \in 0..MaxOps /\ overlapped' \in BOOLEAN
        BY <1>3, DiscoveringOK, BeginOps DEF SetEnabled
    <2> QED BY <1>3, <2>1 DEF SetEnabled, SkillsTypeOK
<1>4. ASSUME NEW p \in Processes, NEW s \in Names, NEW c \in Contents, NEW overwrite \in BOOLEAN,
             SaveDraft(p, s, c, overwrite)
      PROVE  SkillsTypeOK' /\ OpsOK'
    <2>1. /\ op' \in [Processes -> Operations] /\ OpsOK'
          /\ ops' \in 0..MaxOps /\ overlapped' \in BOOLEAN
        BY <1>4, DiscoveringOK, BeginOps DEF SaveDraft
    <2>2. file' \in [Names -> Files]
        BY <1>4 DEF SaveDraft, SkillsTypeOK, Files
    <2> QED BY <1>4, <2>1, <2>2 DEF SaveDraft, SkillsTypeOK
<1>5. ASSUME NEW p \in Processes, NEW s \in Names, Delete(p, s)
      PROVE  SkillsTypeOK' /\ OpsOK'
    <2>1. /\ op' \in [Processes -> Operations] /\ OpsOK'
          /\ ops' \in 0..MaxOps /\ overlapped' \in BOOLEAN
        BY <1>5, DeletingOK, BeginOps DEF Delete
    <2>2. file' \in [Names -> Files] /\ sig' \in [Names -> Files] /\ intruders' \subseteq Names
        BY <1>5 DEF Delete, SkillsTypeOK, Files
    <2> QED BY <1>5, <2>1, <2>2 DEF Delete, SkillsTypeOK
<1>6. ASSUME NEW p \in Processes, NEW runs \in Sittings, NEW option \in Options,
             NEW confirm \in BOOLEAN, NEW lax \in BOOLEAN,
             \/ \E s \in Names : RunResolve(p, s, runs, option, confirm, lax)
             \/ \E c \in Contents : RunDraft(p, c, runs, option, confirm, lax)
      PROVE  SkillsTypeOK' /\ OpsOK'
    <2>1. PICK s \in Names \cup {""}, c \in Files : Run(p, s, c, runs, option, confirm, lax)
        BY <1>6 DEF RunResolve, RunDraft, Files
    <2>2. /\ op' \in [Processes -> Operations] /\ OpsOK'
          /\ ops' \in 0..MaxOps /\ overlapped' \in BOOLEAN
        BY <2>1, RunOps
    <2> QED BY <2>1, <2>2 DEF Run, SkillsTypeOK
<1>7. ASSUME NEW p \in Processes, NEW steps \in 1..MaxSteps, RunBegin(p, steps)
      PROVE  SkillsTypeOK' /\ OpsOK'
    <2>1. op' \in [Processes -> Operations] /\ OpsOK'
        BY <1>7, RunBeginOps
    <2> QED BY <1>7, <2>1 DEF RunBegin, history, SkillsTypeOK
<1>8. ASSUME NEW p \in Processes, NEW cost \in Costs, ModelCall(p, cost)
      PROVE  SkillsTypeOK' /\ OpsOK'
    <2>1. op' \in [Processes -> Operations] /\ OpsOK'
        BY <1>8, ModelCallOps
    <2> QED BY <1>8, <2>1 DEF ModelCall, history, SkillsTypeOK
<1>9. ASSUME NEW p \in Processes, NEW tool \in Tools, NEW approved \in BOOLEAN,
             ToolStep(p, tool, approved)
      PROVE  SkillsTypeOK' /\ OpsOK'
    <2>1. op' \in [Processes -> Operations] /\ OpsOK'
        BY <1>9, ToolStepOps
    <2> QED BY <1>9, <2>1 DEF ToolStep, history, SkillsTypeOK
<1>10. ASSUME NEW p \in Processes, Checksum(p) \/ Discover(p) \/ Load(p)
       PROVE  SkillsTypeOK' /\ OpsOK'
    <2>1. op' \in [Processes -> Operations] /\ OpsOK'
        BY <1>10, ChecksumOps, DiscoverOps, LoadOps
    <2> QED BY <1>10, <2>1 DEF Checksum, Discover, Load, history, SkillsTypeOK
<1>11. ASSUME NEW p \in Processes, Verify(p)
       PROVE  SkillsTypeOK' /\ OpsOK'
    <2>1. op' \in [Processes -> Operations] /\ OpsOK'
        BY <1>11, VerifyOps
    <2>2. op[p].skill \in Names
        BY <1>11 DEF OpsOK, OpOK, Edits, Verify
    <2>3. intruders' \subseteq Names
        BY <1>11, <2>2 DEF Verify, SkillsTypeOK
    <2> QED BY <1>11, <2>1, <2>3 DEF Verify, SkillsTypeOK
<1>12. ASSUME NEW p \in Processes, Truncate(p)
       PROVE  SkillsTypeOK' /\ OpsOK'
    <2>1. op' \in [Processes -> Operations] /\ OpsOK'
        BY <1>12, TruncateOps
    <2> QED BY <1>12, <2>1 DEF Truncate, history, SkillsTypeOK
<1>13. ASSUME NEW p \in Processes, Write(p)
       PROVE  SkillsTypeOK' /\ OpsOK'
    BY <1>13, WriteOps, WriteTypes
<1>14. ASSUME NEW p \in Processes, RunFails(p) \/ RunEnds(p)
       PROVE  SkillsTypeOK' /\ OpsOK'
    <2>1. op[p].at \in RunsAt
        BY <1>14 DEF RunFails, RunEnds, RunsAt
    <2>2. op' \in [Processes -> Operations] /\ OpsOK'
        BY <1>14, <2>1, NextRunOps DEF RunFails, RunEnds
    <2> QED BY <1>14, <2>2 DEF RunFails, RunEnds, history, SkillsTypeOK
<1>15. ASSUME NEW p \in Processes, Die(p)
       PROVE  SkillsTypeOK' /\ OpsOK'
    <2>1. op' \in [Processes -> Operations] /\ OpsOK'
        BY <1>15, EndOps DEF Die
    <2>2. crashes' \in 0..MaxCrashes
        BY <1>15, ConstantsAssumption DEF Die, SkillsTypeOK
    <2> QED BY <1>15, <2>1, <2>2 DEF Die, history, SkillsTypeOK
<1> QED BY <1>1, <1>2, <1>3, <1>4, <1>5, <1>6, <1>7, <1>8, <1>9, <1>10, <1>11, <1>12, <1>13,
           <1>14, <1>15 DEF SkillsNext

LEMMA InitOps == SkillsInit => SkillsTypeOK /\ OpsOK
<1> SUFFICES ASSUME SkillsInit PROVE SkillsTypeOK /\ OpsOK
    OBVIOUS
<1>1. Idle \in Operations
    BY IdleOK DEF OpOK
<1>2. registry \in Rows
    BY DEF SkillsInit, Rows
<1>3. 0 \in 0..MaxOps /\ 0 \in 0..MaxCrashes
    BY ConstantsAssumption
<1>4. SkillsTypeOK
    BY <1>1, <1>2, <1>3 DEF SkillsInit, SkillsTypeOK, Files
<1>5. OpsOK
    BY IdleOK DEF SkillsInit, OpsOK
<1> QED BY <1>4, <1>5

LEMMA SpecOps == SkillsSpec => [](SkillsTypeOK /\ OpsOK)
<1> QED BY InitOps, NextOps, PTL DEF SkillsSpec

\* A run goes over its cap by its last call at most, whatever the caps, the charges
\* and the files, and whatever the registry does meanwhile (workflow.py:96-101).
THEOREM RunsOverspendOneCall == SkillsSpec => []RunOverspendsOneCall
<1>1. OpsOK => RunOverspendsOneCall
    BY DEF OpsOK, OpOK, RunOverspendsOneCall, CapOf, Cap
<1> QED BY <1>1, SpecOps, PTL

-----------------------------------------------------------------------------
(* Processes that take turns. *)

Trusted(r) == r.verified => r.checksum \in Signed

\* A signature is there only for a file that was signed.
SignedOK == \A s \in Names : sig[s] # NoFile => sig[s] \in Signed

\* What an edit has found out still holds while nobody else is in an operation:
\* its record is of the file that is there, its rows are the registry's.
EditIn(k, texts, rows) ==
    /\ k.at = "checksum" => k.want
    /\ k.at = "verify" =>
          k.want /\ k.record.enabled /\ ~k.record.verified /\ k.record.checksum = texts[k.skill]
    /\ k.at \in {"load", "truncate", "write"} =>
          /\ Trusted(k.record) /\ k.record.enabled = k.want
          /\ k.record = NoRecord => texts[k.skill] = NoFile
    /\ k.at \in {"truncate", "write"} => k.rows = rows
    /\ k.at = "write" => ~k.clobbered

Alone(p) == \A q \in Processes : Busy(q) => q = p

\* As far as the registry is concerned, p has the system for itself.
Neat(p) ==
    /\ Alone(p)
    /\ \A s \in Names : Trusted(registry[s])
    /\ EditIn(op[p], file, registry)

\* What is still to be done to the registry, p is about to do.
Tidy(p) ==
    /\ readable \/ op[p].at = "write"
    /\ \A s \in Names : wanted[s] = registry[s].enabled
    /\ \A s \in Names \ intruders :
          registry[s] = NoRecord /\ file[s] # NoFile => op[p].at \in Edits /\ op[p].skill = s

\* Without overlap one process at most is in an operation; a file without a row
\* is one whose row is being made, or its install was refused.
SerialInv ==
    ~overlapped =>
        /\ \A p, q \in Processes : Busy(p) /\ Busy(q) => p = q
        /\ \A s \in Names : Trusted(registry[s])
        /\ \A p \in Processes : EditIn(op[p], file, registry)
StickInv ==
    ~overlapped /\ crashes = 0 =>
        /\ readable \/ \E p \in Processes : op[p].at = "write"
        /\ \A s \in Names : wanted[s] = registry[s].enabled
        /\ \A s \in Names \ intruders : registry[s] = NoRecord /\ file[s] # NoFile =>
              \E p \in Processes : op[p].at \in Edits /\ op[p].skill = s

\* Seen from the process whose turn it is, and back.
LEMMA TurnIn ==
    ASSUME SerialInv, ~overlapped, NEW p \in Processes, Busy(p) \/ Quiet
    PROVE  Neat(p) /\ (StickInv /\ crashes = 0 => Tidy(p))
<1>1. Alone(p)
    BY DEF SerialInv, Alone, Quiet
<1>2. Neat(p)
    BY <1>1 DEF Neat, SerialInv
<1>3. ASSUME StickInv, crashes = 0 PROVE Tidy(p)
    <2>1. \A q \in Processes : op[q].at # "idle" => q = p
        BY <1>1 DEF Alone, Busy
    <2>2. \A q \in Processes : op[q].at \in Edits => q = p
        BY <2>1 DEF Edits
    <2>3. readable \/ op[p].at = "write"
        BY <1>3, <2>1 DEF StickInv
    <2>4. \A s \in Names \ intruders :
             registry[s] = NoRecord /\ file[s] # NoFile => op[p].at \in Edits /\ op[p].skill = s
        BY <1>3, <2>2 DEF StickInv
    <2> QED BY <1>3, <2>3, <2>4 DEF StickInv, Tidy
<1> QED BY <1>2, <1>3

LEMMA TurnOut ==
    ASSUME NEW p \in Processes, Neat(p)'
    PROVE  SerialInv' /\ (Tidy(p)' => StickInv')
<1>1. \A q \in Processes : q # p => op'[q].at = "idle"
    BY DEF Neat, Alone, Busy
<1>2. \A q \in Processes : EditIn(op[q], file, registry)'
    <2> SUFFICES ASSUME NEW q \in Processes PROVE EditIn(op[q], file, registry)'
        OBVIOUS
    <2>1. CASE q = p
        BY <2>1 DEF Neat
    <2>2. CASE q # p
        BY <1>1, <2>2 DEF EditIn
    <2> QED BY <2>1, <2>2
<1>3. SerialInv'
    BY <1>2 DEF Neat, Alone, SerialInv
<1>4. Tidy(p)' => StickInv'
    BY DEF Tidy, StickInv
<1> QED BY <1>3, <1>4

LEMMA StayAlone ==
    ASSUME NEW p \in Processes, Alone(p), \A q \in Processes \ {p} : op'[q] = op[q]
    PROVE  Alone(p)'
<1> QED BY DEF Alone, Busy

\* A step within a run, or the beginning or the end of one.
LEMMA NoEdit ==
    ASSUME NEW p \in Processes, Neat(p), op[p].at \notin Edits, op'[p].at \notin Edits,
           \A q \in Processes \ {p} : op'[q] = op[q],
           UNCHANGED <<file, registry, readable, wanted, intruders>>
    PROVE  Neat(p)' /\ (Tidy(p) => Tidy(p)')
<1>1. Alone(p)'
    BY StayAlone DEF Neat
<1>2. EditIn(op[p], file, registry)'
    BY DEF EditIn, Edits
<1>3. Neat(p)'
    BY <1>1, <1>2 DEF Neat
<1>4. Tidy(p) => Tidy(p)'
    <2>1. op[p].at # "write"
        BY DEF Edits
    <2> QED BY <2>1 DEF Tidy
<1> QED BY <1>3, <1>4

\* An edit that ends without writing: its skill has a row or no file, or was refused.
LEMMA EditEnds ==
    ASSUME SkillsTypeOK, NEW p \in Processes, Neat(p), End(p),
           UNCHANGED <<file, registry, readable, wanted>>
    PROVE  /\ Neat(p)'
           /\ /\ Tidy(p) /\ op[p].at # "write" /\ intruders \subseteq intruders'
              /\ op[p].at \in Edits =>
                    LET s == op[p].skill
                    IN  s \in intruders' \/ registry[s] # NoRecord \/ file[s] = NoFile
              => Tidy(p)'
<1>1. op'[p] = Idle /\ \A q \in Processes \ {p} : op'[q] = op[q]
    BY DEF End, SkillsTypeOK
<1>2. op'[p].at = "idle"
    <2>1. Idle.at = "idle"
        BY DEF Idle
    <2> QED BY <1>1, <2>1
<1>3. Alone(p)'
    BY <1>1, StayAlone DEF Neat
<1>4. EditIn(op[p], file, registry)'
    BY <1>2 DEF EditIn
<1>5. Neat(p)'
    BY <1>3, <1>4 DEF Neat
<1>6. ASSUME Tidy(p), op[p].at # "write", intruders \subseteq intruders',
             op[p].at \in Edits =>
                LET s == op[p].skill
                IN  s \in intruders' \/ registry[s] # NoRecord \/ file[s] = NoFile
      PROVE  Tidy(p)'
    BY <1>6 DEF Tidy
<1> QED BY <1>5, <1>6

LEMMA ChecksumTurn ==
    ASSUME SkillsTypeOK, OpsOK, NEW p \in Processes, Neat(p), Checksum(p)
    PROVE  Neat(p)' /\ (Tidy(p) => Tidy(p)')
<1> DEFINE j == op[p]
<1>1. j \in Operations /\ j.at = "checksum" /\ j.skill \in Names /\ j.want
    BY DEF SkillsTypeOK, OpsOK, OpOK, Edits, Checksum, Neat, EditIn
<1>2. CASE file[j.skill] = NoFile
    BY <1>1, <1>2, EditEnds DEF Checksum, history
<1>3. CASE file[j.skill] # NoFile
    <2> DEFINE r == [enabled |-> TRUE, checksum |-> file[j.skill], verified |-> FALSE]
               k == [j EXCEPT !.at = "verify", !.record = r]
    <2>1. op' = [op EXCEPT ![p] = k]
        BY <1>3 DEF Checksum
    <2>2. k.at = "verify" /\ k.record = r /\ k.skill = j.skill /\ k.want = j.want
        BY <1>1 DEF Operations
    <2>3. r.enabled /\ ~r.verified /\ r.checksum = file[j.skill]
        OBVIOUS
    <2> HIDE DEF r, k
    <2>4. op'[p] = k /\ \A q \in Processes \ {p} : op'[q] = op[q]
        BY <2>1 DEF SkillsTypeOK
    <2>5. Alone(p)'
        BY <2>4, StayAlone DEF Neat
    <2>6. EditIn(k, file, registry)
        BY <1>1, <2>2, <2>3 DEF EditIn
    <2>7. Neat(p)'
        BY <2>4, <2>5, <2>6 DEF Neat, Checksum
    <2>8. Tidy(p) => Tidy(p)'
        BY <1>1, <2>2, <2>4 DEF Tidy, Checksum, history, Edits
    <2> QED BY <2>7, <2>8
<1> QED BY <1>2, <1>3

LEMMA VerifyTurn ==
    ASSUME SkillsTypeOK, OpsOK, SignedOK, NEW p \in Processes, Neat(p), Verify(p)
    PROVE  Neat(p)' /\ (Tidy(p) => Tidy(p)')
<1> DEFINE j == op[p]
<1>1. /\ j \in Operations /\ j.at = "verify" /\ j.skill \in Names /\ j.record \in Records
      /\ j.want /\ j.record.enabled /\ j.record.checksum = file[j.skill]
    BY DEF SkillsTypeOK, OpsOK, OpOK, Edits, Verify, Neat, EditIn
<1>2. CASE j.signed /\ ~SignatureHolds(j.skill)
    <2>1. End(p) /\ UNCHANGED <<file, registry, readable, wanted>>
        BY <1>2 DEF Verify
    <2>2. /\ intruders \subseteq intruders'
          /\ j.skill \in intruders' \/ registry[j.skill] # NoRecord
        BY <1>2 DEF Verify
    <2> QED BY <1>1, <2>1, <2>2, EditEnds
<1>3. CASE ~(j.signed /\ ~SignatureHolds(j.skill))
    <2> DEFINE r == [j.record EXCEPT !.verified = j.signed]
               k == [j EXCEPT !.at = "load", !.record = r]
    <2>1. op' = [op EXCEPT ![p] = k]
        BY <1>3 DEF Verify
    <2>2. k.at = "load" /\ k.record = r /\ k.skill = j.skill /\ k.want = j.want
        BY <1>1 DEF Operations
    <2>3. r \in Records /\ r.enabled /\ r.verified = j.signed /\ r.checksum = file[j.skill]
        BY <1>1 DEF Records, Operations
    <2>4. Trusted(r)
        BY <1>1, <1>3, <2>3 DEF Trusted, SignatureHolds, SignedOK
    <2> HIDE DEF r, k
    <2>5. op'[p] = k /\ \A q \in Processes \ {p} : op'[q] = op[q]
        BY <2>1 DEF SkillsTypeOK
    <2>6. Alone(p)'
        BY <2>5, StayAlone DEF Neat
    <2>7. EditIn(k, file, registry)
        BY <1>1, <2>2, <2>3, <2>4, RecordFacts DEF EditIn
    <2>8. Neat(p)'
        BY <2>5, <2>6, <2>7 DEF Neat, Verify
    <2>9. UNCHANGED <<file, registry, readable, wanted, intruders>>
        BY <1>3 DEF Verify
    <2>10. Tidy(p) => Tidy(p)'
        BY <1>1, <2>2, <2>5, <2>9 DEF Tidy, Edits
    <2> QED BY <2>8, <2>10
<1> QED BY <1>2, <1>3

LEMMA DiscoverTurn ==
    ASSUME SkillsTypeOK, OpsOK, NEW p \in Processes, Neat(p), Discover(p)
    PROVE  Neat(p)' /\ (Tidy(p) => Tidy(p)')
<1> DEFINE j == op[p]
           d == Discovered(j.skill)
<1>1. j \in Operations /\ j.at = "discover" /\ j.skill \in Names
    BY DEF SkillsTypeOK, OpsOK, OpOK, Edits, Discover
<1>2. CASE ~readable \/ d = NoRecord
    <2>1. End(p) /\ UNCHANGED <<file, registry, readable, wanted, intruders>>
        BY <1>2 DEF Discover, history
    <2>2. d = NoRecord => file[j.skill] = NoFile
        BY <1>1, DiscoveredRecord, RecordFacts
    <2>3. Tidy(p) => readable
        BY <1>1 DEF Tidy
    <2> QED BY <1>1, <1>2, <2>1, <2>2, <2>3, EditEnds
<1>3. CASE readable /\ d # NoRecord
    <2> DEFINE r == [d EXCEPT !.enabled = j.want]
               k == [j EXCEPT !.at = "load", !.record = r]
    <2>1. op' = [op EXCEPT ![p] = k]
        BY <1>3 DEF Discover
    <2>2. k.at = "load" /\ k.record = r /\ k.skill = j.skill /\ k.want = j.want
        BY <1>1 DEF Operations
    <2>3. d \in Records /\ Trusted(d)
        BY <1>1, <1>3, DiscoveredRecord DEF Trusted, Neat
    <2> HIDE DEF d
    <2>4. r \in Records /\ r.enabled = j.want /\ Trusted(r)
        BY <1>1, <2>3 DEF Operations, Records, Trusted
    <2> HIDE DEF r, k
    <2>5. op'[p] = k /\ \A q \in Processes \ {p} : op'[q] = op[q]
        BY <2>1 DEF SkillsTypeOK
    <2>6. Alone(p)'
        BY <2>5, StayAlone DEF Neat
    <2>7. EditIn(k, file, registry)
        BY <2>2, <2>4, RecordFacts DEF EditIn
    <2>8. Neat(p)'
        BY <2>5, <2>6, <2>7 DEF Neat, Discover
    <2>9. Tidy(p) => Tidy(p)'
        BY <1>1, <2>2, <2>5 DEF Tidy, Edits, Discover, history
    <2> QED BY <2>8, <2>9
<1> QED BY <1>2, <1>3

LEMMA LoadTurn ==
    ASSUME SkillsTypeOK, OpsOK, NEW p \in Processes, Neat(p), Load(p)
    PROVE  Neat(p)' /\ (Tidy(p) => Tidy(p)')
<1> DEFINE j == op[p]
<1>1. /\ j \in Operations /\ j.at = "load" /\ j.skill \in Names
      /\ Trusted(j.record) /\ j.record.enabled = j.want
      /\ j.record = NoRecord => file[j.skill] = NoFile
    BY DEF SkillsTypeOK, OpsOK, OpOK, Edits, Load, Neat, EditIn
<1>2. CASE ~readable \/ (j.record = NoRecord /\ registry[j.skill] = NoRecord)
    <2>1. End(p) /\ UNCHANGED <<file, registry, readable, wanted, intruders>>
        BY <1>2 DEF Load, history
    <2>2. Tidy(p) => readable
        BY <1>1 DEF Tidy
    <2> QED BY <1>1, <1>2, <2>1, <2>2, EditEnds
<1>3. CASE ~(~readable \/ (j.record = NoRecord /\ registry[j.skill] = NoRecord))
    <2> DEFINE k == [j EXCEPT !.at = "truncate", !.rows = registry]
    <2>1. op' = [op EXCEPT ![p] = k]
        BY <1>3 DEF Load
    <2>2. /\ k.at = "truncate" /\ k.rows = registry
          /\ k.record = j.record /\ k.skill = j.skill /\ k.want = j.want
        BY <1>1 DEF Operations
    <2> HIDE DEF k
    <2>3. op'[p] = k /\ \A q \in Processes \ {p} : op'[q] = op[q]
        BY <2>1 DEF SkillsTypeOK
    <2>4. Alone(p)'
        BY <2>3, StayAlone DEF Neat
    <2>5. EditIn(k, file, registry)
        BY <1>1, <2>2 DEF EditIn
    <2>6. Neat(p)'
        BY <2>3, <2>4, <2>5 DEF Neat, Load
    <2>7. Tidy(p) => Tidy(p)'
        BY <1>1, <2>2, <2>3 DEF Tidy, Edits, Load, history
    <2> QED BY <2>6, <2>7
<1> QED BY <1>2, <1>3

LEMMA TruncateTurn ==
    ASSUME SkillsTypeOK, OpsOK, NEW p \in Processes, Neat(p), Truncate(p)
    PROVE  Neat(p)' /\ (Tidy(p) => Tidy(p)')
<1> DEFINE j == op[p]
           k == [j EXCEPT !.at = "write", !.clobbered = FALSE]
<1>1. /\ j \in Operations /\ j.at = "truncate" /\ j.skill \in Names
      /\ Trusted(j.record) /\ j.record.enabled = j.want
      /\ j.record = NoRecord => file[j.skill] = NoFile
      /\ j.rows = registry
    BY DEF SkillsTypeOK, OpsOK, OpOK, Edits, Truncate, Neat, EditIn
<1>2. op' = [op EXCEPT ![p] = k]
    BY DEF Truncate
<1>3. /\ k.at = "write" /\ k.rows = j.rows /\ ~k.clobbered
      /\ k.record = j.record /\ k.skill = j.skill /\ k.want = j.want
    BY <1>1 DEF Operations
<1> HIDE DEF k
<1>4. op'[p] = k /\ \A q \in Processes \ {p} : op'[q] = op[q]
    BY <1>2 DEF SkillsTypeOK
<1>5. Alone(p)'
    BY <1>4, StayAlone DEF Neat
<1>6. EditIn(k, file, registry)
    BY <1>1, <1>3 DEF EditIn
<1>7. Neat(p)'
    BY <1>4, <1>5, <1>6 DEF Neat, Truncate
<1>8. Tidy(p) => Tidy(p)'
    BY <1>1, <1>3, <1>4 DEF Tidy, Edits, Truncate, history
<1> QED BY <1>7, <1>8

LEMMA WriteTurn ==
    ASSUME SkillsTypeOK, OpsOK, NEW p \in Processes, Neat(p), Write(p)
    PROVE  Neat(p)' /\ (Tidy(p) => Tidy(p)')
<1> DEFINE j == op[p]
<1>1. /\ j \in Operations /\ j.at = "write" /\ j.skill \in Names
      /\ Trusted(j.record) /\ j.record.enabled = j.want
      /\ j.record = NoRecord => file[j.skill] = NoFile
      /\ j.rows = registry /\ ~j.clobbered
    BY DEF SkillsTypeOK, OpsOK, OpOK, Edits, Write, Neat, EditIn
<1>2. op'[p].at = "idle"
    <2>1. op'[p] = Idle
        BY DEF Write
    <2>2. Idle.at = "idle"
        BY DEF Idle
    <2> QED BY <2>1, <2>2
<1>3. \A q \in Processes \ {p} : op'[q] = op[q]
    <2> SUFFICES ASSUME NEW q \in Processes \ {p} PROVE op'[q] = op[q]
        OBVIOUS
    <2>1. op[q].at = "idle"
        BY DEF Neat, Alone, Busy
    <2> QED BY <2>1 DEF Write
<1>4. Alone(p)'
    BY <1>3, StayAlone DEF Neat
<1>5. EditIn(op[p], file, registry)'
    BY <1>2 DEF EditIn
<1>6. \A s \in Names : registry'[s] = IF s = j.skill THEN j.record ELSE registry[s]
    BY <1>1 DEF Write, SavedRows, SkillsTypeOK, Rows
<1>7. \A s \in Names : Trusted(registry[s])'
    BY <1>1, <1>6 DEF Neat, Trusted
<1>8. Neat(p)'
    BY <1>4, <1>5, <1>7 DEF Neat
<1>9. ASSUME Tidy(p) PROVE Tidy(p)'
    <2>1. readable'
        BY <1>1 DEF Write
    <2>2. \A s \in Names : wanted'[s] = registry'[s].enabled
        BY <1>1, <1>6, <1>9 DEF Write, Tidy, SkillsTypeOK
    <2>3. ASSUME NEW s \in Names \ intruders', registry'[s] = NoRecord, file'[s] # NoFile
          PROVE  FALSE
        <3>1. file'[s] = file[s]
            BY DEF Write
        <3>2. s # j.skill
            BY <1>1, <1>6, <2>3, <3>1
        <3>3. s \in Names \ intruders /\ registry[s] = NoRecord
            BY <1>6, <2>3, <3>2 DEF Write
        <3> QED BY <1>9, <2>3, <3>1, <3>2, <3>3 DEF Tidy
    <2> QED BY <2>1, <2>2, <2>3 DEF Tidy
<1> QED BY <1>8, <1>9

\* An operation begins while nobody is in one.
LEMMA BeginTurn ==
    ASSUME SkillsTypeOK, Quiet, NEW p \in Processes, NEW k, Begin(p, k)
    PROVE  /\ op'[p] = k /\ \A q \in Processes \ {p} : op'[q] = op[q]
           /\ op[p].at = "idle"
           /\ Tidy(p) => readable /\ \A s \in Names \ intruders :
                            ~(registry[s] = NoRecord /\ file[s] # NoFile)
<1>1. op'[p] = k /\ \A q \in Processes \ {p} : op'[q] = op[q]
    BY DEF Begin, SkillsTypeOK
<1>2. op[p].at = "idle"
    BY DEF Quiet, Busy
<1>3. Tidy(p) => readable /\ \A s \in Names \ intruders :
                    ~(registry[s] = NoRecord /\ file[s] # NoFile)
    BY <1>2 DEF Tidy, Edits
<1> QED BY <1>1, <1>2, <1>3

LEMMA InstallTurn ==
    ASSUME SkillsTypeOK, Quiet, NEW p \in Processes, Neat(p), NEW s \in Names,
           NEW c \in Contents, NEW require \in BOOLEAN, Install(p, s, c, require)
    PROVE  Neat(p)' /\ (Tidy(p) => Tidy(p)')
<1> DEFINE k == [Idle EXCEPT !.at = "checksum", !.skill = s, !.signed = require, !.want = TRUE]
<1>1. Begin(p, k)
    BY DEF Install
<1>2. k.at = "checksum" /\ k.skill = s /\ k.want
    BY DEF Idle
<1> HIDE DEF k
<1>3. Alone(p)'
    BY <1>1, BeginTurn, StayAlone DEF Neat
<1>4. EditIn(k, file', registry')
    BY <1>2 DEF EditIn
<1>5. Neat(p)'
    BY <1>1, <1>3, <1>4, BeginTurn DEF Neat, Install
<1>6. ASSUME Tidy(p) PROVE Tidy(p)'
    <2>1. op'[p].at \in Edits /\ op'[p].skill = s
        BY <1>1, <1>2, BeginTurn DEF Edits
    <2>2. \A t \in Names \ {s} : file'[t] = file[t]
        BY DEF Install, SkillsTypeOK
    <2>3. readable' /\ UNCHANGED <<registry, wanted, intruders>>
        BY <1>1, <1>6, BeginTurn DEF Install
    <2>4. \A t \in Names \ intruders : ~(registry[t] = NoRecord /\ file[t] # NoFile)
        BY <1>1, <1>6, BeginTurn
    <2> QED BY <1>6, <2>1, <2>2, <2>3, <2>4 DEF Tidy
<1> QED BY <1>5, <1>6

LEMMA SetEnabledTurn ==
    ASSUME SkillsTypeOK, Quiet, NEW p \in Processes, Neat(p), NEW s \in Names,
           NEW on \in BOOLEAN, SetEnabled(p, s, on)
    PROVE  Neat(p)' /\ (Tidy(p) => Tidy(p)')
<1> DEFINE k == [Idle EXCEPT !.at = "discover", !.skill = s, !.want = on]
<1>1. Begin(p, k)
    BY DEF SetEnabled
<1>2. k.at = "discover" /\ k.skill = s
    BY DEF Idle
<1> HIDE DEF k
<1>3. Alone(p)'
    BY <1>1, BeginTurn, StayAlone DEF Neat
<1>4. EditIn(k, file', registry')
    BY <1>2 DEF EditIn
<1>5. Neat(p)'
    BY <1>1, <1>3, <1>4, BeginTurn DEF Neat, SetEnabled
<1>6. Tidy(p) => Tidy(p)'
    BY <1>1, BeginTurn DEF Tidy, SetEnabled
<1> QED BY <1>5, <1>6

LEMMA SaveDraftTurn ==
    ASSUME SkillsTypeOK, Quiet, NEW p \in Processes, Neat(p), NEW s \in Names,
           NEW c \in Contents, NEW overwrite \in BOOLEAN, SaveDraft(p, s, c, overwrite)
    PROVE  Neat(p)' /\ (Tidy(p) => Tidy(p)')
<1> DEFINE k == [Idle EXCEPT !.at = "discover", !.skill = s, !.want = FALSE]
<1>1. Begin(p, k)
    BY DEF SaveDraft
<1>2. k.at = "discover" /\ k.skill = s
    BY DEF Idle
<1> HIDE DEF k
<1>3. Alone(p)'
    BY <1>1, BeginTurn, StayAlone DEF Neat
<1>4. EditIn(k, file', registry')
    BY <1>2 DEF EditIn
<1>5. Neat(p)'
    BY <1>1, <1>3, <1>4, BeginTurn DEF Neat, SaveDraft
<1>6. ASSUME Tidy(p) PROVE Tidy(p)'
    <2>1. op'[p].at \in Edits /\ op'[p].skill = s
        BY <1>1, <1>2, BeginTurn DEF Edits
    <2>2. \A t \in Names \ {s} : file'[t] = file[t]
        BY DEF SaveDraft, SkillsTypeOK
    <2>3. readable' /\ UNCHANGED <<registry, wanted, intruders>>
        BY <1>1, <1>6, BeginTurn DEF SaveDraft
    <2>4. \A t \in Names \ intruders : ~(registry[t] = NoRecord /\ file[t] # NoFile)
        BY <1>1, <1>6, BeginTurn
    <2> QED BY <1>6, <2>1, <2>2, <2>3, <2>4 DEF Tidy
<1> QED BY <1>5, <1>6

LEMMA DeleteTurn ==
    ASSUME SkillsTypeOK, Quiet, NEW p \in Processes, Neat(p), NEW s \in Names, Delete(p, s)
    PROVE  Neat(p)' /\ (Tidy(p) => Tidy(p)')
<1> DEFINE k == [Idle EXCEPT !.at = "load", !.skill = s]
<1>1. Begin(p, k)
    BY DEF Delete
<1>2. k.at = "load" /\ k.skill = s /\ k.record = NoRecord /\ k.want = FALSE
    BY DEF Idle
<1> HIDE DEF k
<1>3. NoRecord.enabled = FALSE /\ Trusted(NoRecord)
    BY DEF NoRecord, Trusted
<1>4. file'[s] = NoFile /\ \A t \in Names \ {s} : file'[t] = file[t]
    BY DEF Delete, SkillsTypeOK
<1>5. Alone(p)'
    BY <1>1, BeginTurn, StayAlone DEF Neat
<1>6. EditIn(k, file', registry')
    BY <1>2, <1>3, <1>4 DEF EditIn
<1>7. Neat(p)'
    BY <1>1, <1>5, <1>6, BeginTurn DEF Neat, Delete
<1>8. ASSUME Tidy(p) PROVE Tidy(p)'
    <2>1. readable' /\ UNCHANGED <<registry, wanted>>
        BY <1>1, <1>8, BeginTurn DEF Delete
    <2>2. \A t \in Names \ intruders : ~(registry[t] = NoRecord /\ file[t] # NoFile)
        BY <1>1, <1>8, BeginTurn
    <2>3. intruders' = intruders \ {s}
        BY DEF Delete
    <2> QED BY <1>4, <1>8, <2>1, <2>2, <2>3 DEF Tidy
<1> QED BY <1>7, <1>8

LEMMA RunTurn ==
    ASSUME SkillsTypeOK, Quiet, NEW p \in Processes, Neat(p), NEW s, NEW c, NEW runs,
           NEW option, NEW confirm, NEW lax, Run(p, s, c, runs, option, confirm, lax)
    PROVE  Neat(p)' /\ (Tidy(p) => Tidy(p)')
<1> DEFINE k == [Idle EXCEPT !.at = "run", !.skill = s, !.content = c, !.runs = runs,
                             !.cap = option, !.confirm = confirm, !.lax = lax]
<1>1. Begin(p, k)
    BY DEF Run
<1>2. k.at = "run"
    BY DEF Idle
<1> HIDE DEF k
<1>3. op[p].at \notin Edits /\ op'[p].at \notin Edits
    BY <1>1, <1>2, BeginTurn DEF Edits
<1>4. \A q \in Processes \ {p} : op'[q] = op[q]
    BY <1>1, BeginTurn
<1> QED BY <1>3, <1>4, NoEdit DEF Run

\* A step of a run leaves its process in the run, or idle.
LEMMA NextRunTurn ==
    ASSUME SkillsTypeOK, NEW p \in Processes, NEW failed \in BOOLEAN, NextRun(p, failed)
    PROVE  op'[p].at \notin Edits /\ \A q \in Processes \ {p} : op'[q] = op[q]
<1>1. CASE End(p)
    <2>1. op'[p] = Idle /\ \A q \in Processes \ {p} : op'[q] = op[q]
        BY <1>1 DEF End, SkillsTypeOK
    <2>2. Idle.at = "idle"
        BY DEF Idle
    <2> QED BY <2>1, <2>2 DEF Edits
<1>2. CASE ~End(p)
    <2> DEFINE k == [op[p] EXCEPT !.at = "run", !.runs = Tail(op[p].runs)]
    <2>1. op' = [op EXCEPT ![p] = k]
        BY <1>2 DEF NextRun
    <2>2. op[p] \in Operations
        BY DEF SkillsTypeOK
    <2>3. k.at = "run"
        BY <2>2 DEF Operations
    <2> HIDE DEF k
    <2> QED BY <2>1, <2>3 DEF Edits, SkillsTypeOK
<1> QED BY <1>1, <1>2

\* A step of a run finds it running, and leaves the files, the registry and the
\* history as they are.
LEMMA RunStepLeaves ==
    ASSUME NEW p \in Processes,
           \/ \E steps \in 1..MaxSteps : RunBegin(p, steps)
           \/ \E cost \in Costs : ModelCall(p, cost)
           \/ \E tool \in Tools, approved \in BOOLEAN : ToolStep(p, tool, approved)
           \/ RunFails(p) \/ RunEnds(p)
    PROVE  /\ op[p].at \in {"run", "steps", "over"}
           /\ UNCHANGED <<file, sig, registry, readable, crashes, history>>
<1>1. ASSUME NEW steps \in 1..MaxSteps, RunBegin(p, steps)
      PROVE  /\ op[p].at \in {"run", "steps", "over"}
             /\ UNCHANGED <<file, sig, registry, readable, crashes, history>>
    BY <1>1 DEF RunBegin
<1>2. ASSUME NEW cost \in Costs, ModelCall(p, cost)
      PROVE  /\ op[p].at \in {"run", "steps", "over"}
             /\ UNCHANGED <<file, sig, registry, readable, crashes, history>>
    BY <1>2 DEF ModelCall
<1>3. ASSUME NEW tool \in Tools, NEW approved \in BOOLEAN, ToolStep(p, tool, approved)
      PROVE  /\ op[p].at \in {"run", "steps", "over"}
             /\ UNCHANGED <<file, sig, registry, readable, crashes, history>>
    BY <1>3 DEF ToolStep
<1>4. CASE RunFails(p)
    BY <1>4 DEF RunFails
<1>5. CASE RunEnds(p)
    BY <1>5 DEF RunEnds
<1> QED BY <1>1, <1>2, <1>3, <1>4, <1>5

LEMMA RunStepTurn ==
    ASSUME SkillsTypeOK, NEW p \in Processes, Neat(p),
           \/ \E steps \in 1..MaxSteps : RunBegin(p, steps)
           \/ \E cost \in Costs : ModelCall(p, cost)
           \/ \E tool \in Tools, approved \in BOOLEAN : ToolStep(p, tool, approved)
           \/ RunFails(p) \/ RunEnds(p)
    PROVE  Neat(p)' /\ (Tidy(p) => Tidy(p)')
<1>1. op[p].at \notin Edits
    BY RunStepLeaves DEF Edits
<1>2. UNCHANGED <<file, registry, readable, wanted, intruders>>
    BY RunStepLeaves DEF history
<1>3. op[p] \in Operations
    BY DEF SkillsTypeOK
<1>4. op'[p].at \notin Edits /\ \A q \in Processes \ {p} : op'[q] = op[q]
    <2>1. ASSUME NEW failed \in BOOLEAN, NextRun(p, failed)
          PROVE  op'[p].at \notin Edits /\ \A q \in Processes \ {p} : op'[q] = op[q]
        BY <2>1, NextRunTurn
    <2>2. ASSUME NEW k, k.at \notin Edits, op' = [op EXCEPT ![p] = k]
          PROVE  op'[p].at \notin Edits /\ \A q \in Processes \ {p} : op'[q] = op[q]
        BY <2>2 DEF SkillsTypeOK
    <2>3. ASSUME NEW steps \in 1..MaxSteps, RunBegin(p, steps)
          PROVE  op'[p].at \notin Edits /\ \A q \in Processes \ {p} : op'[q] = op[q]
        <3> DEFINE c == IF op[p].skill = "" THEN op[p].content ELSE file[op[p].skill]
                   k == [op[p] EXCEPT !.at = "steps", !.content = c, !.left = steps,
                                      !.spent = 0, !.effects = {}]
        <3>1. NextRun(p, TRUE) \/ op' = [op EXCEPT ![p] = k]
            BY <2>3 DEF RunBegin
        <3> HIDE DEF c
        <3>2. k.at = "steps"
            BY <1>3 DEF Operations
        <3> HIDE DEF k
        <3>3. k.at \notin Edits
            BY <3>2 DEF Edits
        <3> QED BY <2>1, <2>2, <3>1, <3>3
    <2>4. ASSUME NEW cost \in Costs, ModelCall(p, cost)
          PROVE  op'[p].at \notin Edits /\ \A q \in Processes \ {p} : op'[q] = op[q]
        <3> DEFINE at == IF OverCap(p, cost) THEN "over" ELSE "steps"
                   k == [op[p] EXCEPT !.at = at, !.left = op[p].left - 1,
                                      !.spent = op[p].spent + cost]
        <3>1. op' = [op EXCEPT ![p] = k]
            BY <2>4 DEF ModelCall
        <3>2. at \in {"over", "steps"}
            OBVIOUS
        <3> HIDE DEF at
        <3>3. k.at = at
            BY <1>3 DEF Operations
        <3> HIDE DEF k
        <3>4. k.at \notin Edits
            BY <3>2, <3>3 DEF Edits
        <3> QED BY <2>2, <3>1, <3>4
    <2>5. ASSUME NEW tool \in Tools, NEW approved \in BOOLEAN, ToolStep(p, tool, approved)
          PROVE  op'[p].at \notin Edits /\ \A q \in Processes \ {p} : op'[q] = op[q]
        <3> DEFINE e == op[p].effects \cup Effects(tool, Risk(tool, op[p].content), approved)
                   k == [op[p] EXCEPT !.left = op[p].left - 1, !.effects = e]
        <3>1. op' = [op EXCEPT ![p] = k] /\ op[p].at = "steps"
            BY <2>5 DEF ToolStep
        <3> HIDE DEF e
        <3>2. k.at = op[p].at
            BY <1>3 DEF Operations
        <3> HIDE DEF k
        <3>3. k.at \notin Edits
            BY <1>1, <3>2
        <3> QED BY <2>2, <3>1, <3>3
    <2> QED BY <2>1, <2>3, <2>4, <2>5 DEF RunFails, RunEnds
<1> QED BY <1>1, <1>2, <1>4, NoEdit

\* A step of the process whose turn it is keeps what holds without overlap.
LEMMA TurnKeeps ==
    ASSUME SerialInv, StickInv, NEW p \in Processes,
           ~overlapped' => ~overlapped /\ (Busy(p) \/ Quiet),
           crashes' = 0 => crashes = 0,
           ~overlapped' /\ Neat(p) => Neat(p)' /\ (Tidy(p) /\ crashes' = 0 => Tidy(p)')
    PROVE  SerialInv' /\ StickInv'
<1>1. CASE overlapped'
    BY <1>1 DEF SerialInv, StickInv
<1>2. CASE ~overlapped'
    <2>1. ~overlapped /\ (Busy(p) \/ Quiet)
        BY <1>2
    <2>2. Neat(p) /\ (StickInv /\ crashes = 0 => Tidy(p))
        BY <2>1, TurnIn
    <2>3. Neat(p)' /\ (crashes' = 0 => Tidy(p)')
        BY <1>2, <2>2
    <2>4. SerialInv' /\ (Tidy(p)' => StickInv')
        BY <2>3, TurnOut
    <2>5. crashes' # 0 => StickInv'
        BY DEF StickInv
    <2> QED BY <2>3, <2>4, <2>5
<1> QED BY <1>1, <1>2

\* An operation begins: others in one make it an overlap.
LEMMA BeginKeeps ==
    ASSUME SerialInv, StickInv, NEW p \in Processes, NEW k, Begin(p, k), crashes' = crashes,
           Quiet /\ Neat(p) => Neat(p)' /\ (Tidy(p) => Tidy(p)')
    PROVE  SerialInv' /\ StickInv'
<1>1. ~overlapped' => ~overlapped /\ Quiet
    BY DEF Begin
<1> QED BY <1>1, TurnKeeps

LEMMA NextSerial ==
    SkillsTypeOK /\ OpsOK /\ SignedOK /\ SerialInv /\ StickInv /\ [SkillsNext]_skillsVars
        => SignedOK' /\ SerialInv' /\ StickInv'
<1> SUFFICES ASSUME SkillsTypeOK, OpsOK, SignedOK, SerialInv, StickInv,
                    [SkillsNext]_skillsVars
             PROVE  SignedOK' /\ SerialInv' /\ StickInv'
    OBVIOUS
<1>1. CASE UNCHANGED skillsVars
    BY <1>1 DEF skillsVars, history, SignedOK, SerialInv, StickInv, Busy, EditIn
<1>2. ASSUME NEW p \in Processes, NEW s \in Names, NEW c \in Contents, NEW require \in BOOLEAN,
             Install(p, s, c, require)
      PROVE  SignedOK' /\ SerialInv' /\ StickInv'
    <2>1. SignedOK'
        BY <1>2 DEF Install, SignedOK, SkillsTypeOK
    <2>2. PICK k : Begin(p, k)
        BY <1>2 DEF Install
    <2>3. Quiet /\ Neat(p) => Neat(p)' /\ (Tidy(p) => Tidy(p)')
        BY <1>2, InstallTurn
    <2>4. crashes' = crashes
        BY <1>2 DEF Install
    <2> QED BY <2>1, <2>2, <2>3, <2>4, BeginKeeps
<1>3. ASSUME NEW p \in Processes, NEW s \in Names, NEW on \in BOOLEAN,
             SetEnabled(p, s, on)
      PROVE  SignedOK' /\ SerialInv' /\ StickInv'
    <2>1. SignedOK' /\ crashes' = crashes
        BY <1>3 DEF SetEnabled, SignedOK
    <2>2. PICK k : Begin(p, k)
        BY <1>3 DEF SetEnabled
    <2>3. Quiet /\ Neat(p) => Neat(p)' /\ (Tidy(p) => Tidy(p)')
        BY <1>3, SetEnabledTurn
    <2> QED BY <2>1, <2>2, <2>3, BeginKeeps
<1>4. ASSUME NEW p \in Processes, NEW s \in Names, NEW c \in Contents, NEW overwrite \in BOOLEAN,
             SaveDraft(p, s, c, overwrite)
      PROVE  SignedOK' /\ SerialInv' /\ StickInv'
    <2>1. SignedOK' /\ crashes' = crashes
        BY <1>4 DEF SaveDraft, SignedOK
    <2>2. PICK k : Begin(p, k)
        BY <1>4 DEF SaveDraft
    <2>3. Quiet /\ Neat(p) => Neat(p)' /\ (Tidy(p) => Tidy(p)')
        BY <1>4, SaveDraftTurn
    <2> QED BY <2>1, <2>2, <2>3, BeginKeeps
<1>5. ASSUME NEW p \in Processes, NEW s \in Names, Delete(p, s)
      PROVE  SignedOK' /\ SerialInv' /\ StickInv'
    <2>1. SignedOK' /\ crashes' = crashes
        BY <1>5 DEF Delete, SignedOK, SkillsTypeOK
    <2>2. PICK k : Begin(p, k)
        BY <1>5 DEF Delete
    <2>3. Quiet /\ Neat(p) => Neat(p)' /\ (Tidy(p) => Tidy(p)')
        BY <1>5, DeleteTurn
    <2> QED BY <2>1, <2>2, <2>3, BeginKeeps
<1>6. ASSUME NEW p \in Processes, NEW runs \in Sittings, NEW option \in Options,
             NEW confirm \in BOOLEAN, NEW lax \in BOOLEAN,
             \/ \E s \in Names : RunResolve(p, s, runs, option, confirm, lax)
             \/ \E c \in Contents : RunDraft(p, c, runs, option, confirm, lax)
      PROVE  SignedOK' /\ SerialInv' /\ StickInv'
    <2>1. PICK s, c : Run(p, s, c, runs, option, confirm, lax)
        BY <1>6 DEF RunResolve, RunDraft
    <2>2. SignedOK' /\ crashes' = crashes
        BY <2>1 DEF Run, SignedOK
    <2>3. PICK k : Begin(p, k)
        BY <2>1 DEF Run
    <2>4. Quiet /\ Neat(p) => Neat(p)' /\ (Tidy(p) => Tidy(p)')
        BY <2>1, RunTurn
    <2> QED BY <2>2, <2>3, <2>4, BeginKeeps
<1>7. ASSUME NEW p \in Processes,
             \/ \E steps \in 1..MaxSteps : RunBegin(p, steps)
             \/ \E cost \in Costs : ModelCall(p, cost)
             \/ \E tool \in Tools, approved \in BOOLEAN : ToolStep(p, tool, approved)
             \/ RunFails(p) \/ RunEnds(p)
      PROVE  SignedOK' /\ SerialInv' /\ StickInv'
    <2>1. UNCHANGED <<sig, crashes, overlapped>>
        BY <1>7, RunStepLeaves DEF history
    <2>2. Busy(p)
        BY <1>7, RunStepLeaves DEF Busy
    <2>3. Neat(p) => Neat(p)' /\ (Tidy(p) => Tidy(p)')
        BY <1>7, RunStepTurn
    <2>4. SerialInv' /\ StickInv'
        BY <2>1, <2>2, <2>3, TurnKeeps
    <2> QED BY <2>1, <2>4 DEF SignedOK
<1>8. ASSUME NEW p \in Processes,
             Checksum(p) \/ Verify(p) \/ Discover(p) \/ Load(p) \/ Truncate(p) \/ Write(p)
      PROVE  SignedOK' /\ SerialInv' /\ StickInv'
    <2>1. UNCHANGED <<sig, crashes, overlapped>>
        BY <1>8 DEF Checksum, Verify, Discover, Load, Truncate, Write, history
    <2>2. Busy(p)
        BY <1>8 DEF Busy, Checksum, Verify, Discover, Load, Truncate, Write
    <2>3. Neat(p) => Neat(p)' /\ (Tidy(p) => Tidy(p)')
        BY <1>8, ChecksumTurn, VerifyTurn, DiscoverTurn, LoadTurn, TruncateTurn, WriteTurn
    <2>4. SerialInv' /\ StickInv'
        BY <2>1, <2>2, <2>3, TurnKeeps
    <2> QED BY <2>1, <2>4 DEF SignedOK
<1>9. ASSUME NEW p \in Processes, Die(p)
      PROVE  SignedOK' /\ SerialInv' /\ StickInv'
    <2>1. UNCHANGED <<sig, file, registry, readable, wanted, overlapped>> /\ Busy(p) /\ End(p)
        BY <1>9 DEF Die, history
    <2>2. crashes' # 0
        BY <1>9 DEF Die, SkillsTypeOK
    <2>3. Neat(p) => Neat(p)'
        BY <2>1, EditEnds
    <2>4. SerialInv' /\ StickInv'
        BY <2>1, <2>2, <2>3, TurnKeeps
    <2> QED BY <2>1, <2>4 DEF SignedOK
<1> QED BY <1>1, <1>2, <1>3, <1>4, <1>5, <1>6, <1>7, <1>8, <1>9 DEF SkillsNext

LEMMA InitSerial == SkillsInit => SignedOK /\ SerialInv /\ StickInv
<1> SUFFICES ASSUME SkillsInit PROVE SignedOK /\ SerialInv /\ StickInv
    OBVIOUS
<1>1. \A p \in Processes : op[p].at = "idle"
    <2>1. Idle.at = "idle"
        BY DEF Idle
    <2> QED BY <2>1 DEF SkillsInit
<1>2. \A p \in Processes : ~Busy(p) /\ EditIn(op[p], file, registry)
    BY <1>1 DEF Busy, EditIn
<1>3. \A s \in Names : ~registry[s].verified /\ registry[s].enabled = FALSE
    BY DEF SkillsInit, NoRecord
<1>4. SignedOK
    BY DEF SkillsInit, SignedOK
<1>5. SerialInv
    BY <1>2, <1>3 DEF SerialInv, Trusted
<1>6. StickInv
    BY <1>3 DEF SkillsInit, StickInv
<1> QED BY <1>4, <1>5, <1>6

LEMMA SpecSerial ==
    SkillsSpec => [](SkillsTypeOK /\ OpsOK /\ SignedOK /\ SerialInv /\ StickInv)
<1> QED BY InitOps, NextOps, InitSerial, NextSerial, PTL DEF SkillsSpec

\* The registry is well formed, calls no file verified that was not signed while
\* processes take turns, and no run of a skill does what nobody agreed to, whatever
\* files, policies and signatures there are (registry.py:232-291, workflow.py:147-188).
THEOREM RegistryIsSound == SkillsSpec => []RegistryOK
<1>1. OpsOK => ImpactIsConsented
    BY DEF OpsOK, OpOK, ImpactIsConsented
<1>2. SerialInv => VerifiedWasSigned
    BY DEF SerialInv, Trusted, VerifiedWasSigned
<1> QED BY <1>1, <1>2, SpecSerial, PTL DEF RegistryOK

\* For any number of skills and operations, what the last operation said of a skill
\* stands when processes take turns and none dies in one (registry.py:232-330).
THEOREM SkillChangesStick == SkillsSpec => []SerialChangesStick
<1>1. SkillsTypeOK /\ StickInv => SerialChangesStick
    <2> SUFFICES ASSUME SkillsTypeOK, StickInv, ~overlapped, crashes = 0, Quiet
                 PROVE  readable /\ \A s \in Names \ intruders : Discovered(s).enabled = wanted[s]
        BY DEF SerialChangesStick
    <2>1. \A p \in Processes : op[p].at = "idle"
        BY DEF Quiet, Busy
    <2>2. readable
        BY <2>1 DEF StickInv
    <2>3. ASSUME NEW s \in Names \ intruders PROVE Discovered(s).enabled = wanted[s]
        <3>1. wanted[s] = registry[s].enabled
            BY DEF StickInv
        <3>2. ~(registry[s] = NoRecord /\ file[s] # NoFile)
            BY <2>1 DEF StickInv, Edits
        <3>3. CASE file[s] = NoFile
            BY <3>1, <3>3 DEF Discovered
        <3>4. CASE file[s] # NoFile
            <4>1. registry[s] # NoRecord
                BY <3>2, <3>4
            <4>2. registry[s] \in Records
                BY <4>1 DEF SkillsTypeOK, Rows
            <4>3. registry[s].enabled \in BOOLEAN
                BY <4>2 DEF Records
            <4> QED BY <3>1, <3>4, <4>1, <4>3 DEF Discovered
        <3> QED BY <3>3, <3>4
    <2> QED BY <2>2, <2>3
<1> QED BY <1>1, SpecSerial, PTL
=============================================================================
