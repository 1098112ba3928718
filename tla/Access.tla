------------------------------- MODULE Access -------------------------------
(***************************************************************************)
(* Access to the server: the bearer token, the admin password with its     *)
(* lockout, and the remote access plan in the UI settings                  *)
(* (src/backend/orchestrator/server.py, security/admin_auth.py and the     *)
(* settings of src/dashboard).                                             *)
(*                                                                         *)
(* Each handler runs to its end without an await, so each is one action.   *)
(* The counter of failed passwords is in memory and shared by every        *)
(* endpoint that asks for one; the token, the password and the settings    *)
(* are in files, each rewritten in place, so that a write may fail or be   *)
(* cut.  A dashboard keeps a copy of the settings and sends all of it back *)
(* when the user saves.                                                    *)
(***************************************************************************)
EXTENDS Integers

CONSTANTS
    Clients,     \* dashboards and command lines
    MaxFailed,   \* max_failed_attempts
    Lockout,     \* lockout_seconds, in ticks
    EnvTokens,   \* tokens in the environment a server may be started with, 0 for none
    MaxClock,    \* bound: ticks of the clock
    MaxToken,    \* bound: tokens issued
    MaxRestarts, \* bound: restarts of the server
    MaxSaves,    \* bound: saves of UI settings
    MaxFaults    \* bound: writes that fail

ASSUME AccessAssumption ==
    /\ MaxFailed \in Nat \ {0} /\ Lockout \in Nat \ {0}
    /\ EnvTokens \subseteq {0, 1}
    /\ MaxClock \in Nat /\ MaxToken \in Nat \ {0} /\ MaxRestarts \in Nat
    /\ MaxSaves \in Nat /\ MaxFaults \in Nat

VARIABLES
    clock,
    envToken,         \* the token in the environment, 0 for none
    token,       \* token_state["value"], 0 when the API is open
    tokenFile,   \* what the token file holds, 0 for nothing
    known,       \* known[c]: the bearer token c sends
    password,    \* the password file: "none", "set", or "lost" when it is unreadable
    attempts,    \* admin_auth_state["failed_attempts"]
    lockedUntil, \* admin_auth_state["locked_until_epoch"]
    remote,      \* ui_settings["remoteAccess"]
    remoteFile,  \* the same on disk
    copy,        \* copy[c]: remoteAccess in the settings that c has stored
    issued,      \* tokens issued so far; the next one is new
    restarts, saves, faults,
    fails,       \* history: wrong passwords since the last right one or restart
    since,       \* history: when that was
    decided,     \* history: the plan as the last configure or revoke left it
    lost         \* history: the last write of the token file failed

vars == <<clock, envToken, token, tokenFile, known, password, attempts, lockedUntil, remote, remoteFile,
          copy, issued, restarts, saves, faults, fails, since, decided, lost>>

tokenVars  == <<envToken, token, tokenFile, known, issued, lost>>
adminVars  == <<attempts, lockedUntil, fails, since>>
remoteVars == <<remote, remoteFile, copy, saves, decided>>

-----------------------------------------------------------------------------
Plans == {"absent", "enabled", "disabled"}

\* A copy of the plan and, as history, whether it is known to be as the last
\* configure or revoke left it.
Copies == [plan : Plans, current : BOOLEAN]

\* A copy that a newer decision has overtaken.
Overtaken(rec) == [rec EXCEPT !.current = FALSE]

\* A token that was cut short; nobody is given it but from the file.
Torn == MaxToken + 1

\* require_auth
Authorized(c) == token = 0 \/ known[c] = token

\* _check_admin_lockout lets the request pass.
NotLocked == clock >= lockedUntil

\* (mutant) the lock ends a tick too early.
RecordResultEarly(ok) ==
    /\ attempts' = IF ok \/ attempts + 1 >= MaxFailed THEN 0 ELSE attempts + 1
    /\ lockedUntil' = IF ok THEN 0
                      ELSE IF attempts + 1 >= MaxFailed THEN clock + Lockout - 1 ELSE lockedUntil
    /\ fails' = IF ok THEN 0 ELSE fails + 1
    /\ since' = IF ok THEN clock ELSE since

\* _record_admin_verify_result
RecordResult(ok) ==
    /\ attempts' = IF ok \/ attempts + 1 >= MaxFailed THEN 0 ELSE attempts + 1
    /\ lockedUntil' = IF ok THEN 0
                      ELSE IF attempts + 1 >= MaxFailed THEN clock + Lockout ELSE lockedUntil
    /\ fails' = IF ok THEN 0 ELSE fails + 1
    /\ since' = IF ok THEN clock ELSE since

\* A password is checked: the right one, ok, only where there is one to match.
PasswordChecked(ok) ==
    /\ NotLocked
    /\ ok => password = "set"
    /\ RecordResult(ok)

\* _require_admin_password_if_configured, and the request goes on.
PasswordGiven == IF password = "set" THEN PasswordChecked(TRUE) ELSE UNCHANGED adminVars

\* (mutant) the environment goes before the file.
LoadedEnvFirst(file) == IF envToken # 0 THEN envToken ELSE file

\* _load_server_api_key
LoadedToken(file) == IF file # 0 THEN file ELSE envToken

-----------------------------------------------------------------------------
\* A new token is written and put in force; the client that asked for it has it
\* when the answer arrives.
NewToken(c) ==
    /\ issued < MaxToken
    /\ issued' = issued + 1
    /\ tokenFile' = issued'
    /\ token' = issued'
    /\ known' \in {known, [known EXCEPT ![c] = issued']}
    /\ lost' = FALSE
    /\ UNCHANGED <<envToken, faults>>

\* The write fails, as it is begun or half-way, and the request with it: the token
\* in force stays.  A crash in the write is this and a restart.
TokenNotWritten ==
    /\ issued < MaxToken
    /\ faults < MaxFaults
    /\ faults' = faults + 1
    /\ tokenFile' \in {tokenFile, 0, Torn}
    /\ lost' = TRUE
    /\ UNCHANGED <<envToken, token, known, issued>>

\* POST /v1/server/token/rotate
RotateToken(c) ==
    /\ Authorized(c)
    /\ NewToken(c) \/ TokenNotWritten
    /\ UNCHANGED <<clock, password, adminVars, remoteVars, restarts>>

\* POST /v1/server/token/recover: without a bearer token, with the password.
RecoverToken(c) ==
    /\ PasswordChecked(TRUE)
    /\ NewToken(c) \/ TokenNotWritten
    /\ UNCHANGED <<clock, password, remoteVars, restarts>>

\* The client is given the token by hand, from the file or the environment.
EnterToken(c) ==
    /\ known' \in {[known EXCEPT ![c] = tokenFile], [known EXCEPT ![c] = envToken]}
    /\ known' # known
    /\ UNCHANGED <<clock, envToken, token, tokenFile, issued, lost, password, adminVars, remoteVars,
                   restarts, faults>>

\* POST /v1/server/admin-password/set, also for a new one: nothing else is asked.
\* A cut file is read as one without a password.
SetPassword(c) ==
    /\ Authorized(c)
    /\ \/ password' = "set" /\ UNCHANGED faults
       \/ faults < MaxFaults /\ faults' = faults + 1 /\ password' = "lost"
    /\ UNCHANGED <<clock, tokenVars, adminVars, remoteVars, restarts>>

\* A wrong password, to recover (any client), to verify, or to an operation that
\* asks for it where there is one: 401, and 429 while it is locked.
WrongPassword(c, endpoint) ==
    /\ endpoint # "recover" => Authorized(c)
    /\ endpoint = "operation" => password = "set"
    /\ PasswordChecked(FALSE)
    /\ UNCHANGED <<clock, tokenVars, password, remoteVars, restarts, faults>>

\* POST /v1/server/admin-password/verify, and the exports and deletes of artifacts
\* and delegation jobs and the list of security events, with the right password.
RightPassword(c) ==
    /\ Authorized(c)
    /\ password = "set" /\ PasswordGiven
    /\ UNCHANGED <<clock, tokenVars, password, remoteVars, restarts, faults>>

\* The plan becomes rec, and the settings, of which it is a part, are saved: the
\* file has it, or, when the write fails, what it had or nothing that can be read.
SavePlan(rec, file) ==
    /\ remote' = rec
    /\ \/ remoteFile' = rec /\ UNCHANGED faults
       \/ /\ faults < MaxFaults
          /\ faults' = faults + 1
          /\ remoteFile' \in {Overtaken(file), [plan |-> "absent", current |-> FALSE]}

\* The administrator decides on the plan.  A copy without one has none to bring back.
Decide(plan) ==
    /\ SavePlan([plan |-> plan, current |-> TRUE], remoteFile)
    /\ copy' = [c \in Clients |-> IF copy[c].plan = "absent" THEN copy[c] ELSE Overtaken(copy[c])]
    /\ decided' = plan
    /\ UNCHANGED <<clock, tokenVars, password, saves, restarts>>

\* POST /v1/server/remote-access/configure
ConfigureRemote(c) ==
    /\ Authorized(c)
    /\ password = "set"
    /\ PasswordGiven
    /\ Decide("enabled")

\* POST /v1/server/remote-access/revoke
RevokeRemote(c) ==
    /\ Authorized(c)
    /\ PasswordGiven
    /\ Decide("disabled")

\* The dashboard loads the settings and stores what it gets over its own.
LoadSettings(c) ==
    /\ Authorized(c)
    /\ copy' = [copy EXCEPT ![c] = IF remote.plan = "absent" THEN @ ELSE remote]
    /\ UNCHANGED <<clock, tokenVars, password, adminVars, remote, remoteFile, decided, saves,
                   restarts, faults>>

\* (mutant) settings without a plan leave none.
KeptPlanForgotten(rec) == rec

\* put_ui_settings keeps the plan only where the settings that are sent have none.
KeptPlan(rec) == IF rec.plan = "absent" THEN remote ELSE rec

\* PUT /v1/server/ui-settings with all that a dashboard has stored, or with a plan
\* of the client's own: no password is asked for.
SaveSettings(c) ==
    /\ Authorized(c)
    /\ saves < MaxSaves
    /\ saves' = saves + 1
    /\ \E rec \in {copy[c]} \cup [plan : Plans \ {"absent"}, current : {FALSE}] :
          SavePlan(KeptPlan(rec), remoteFile)
    /\ UNCHANGED <<clock, tokenVars, password, adminVars, copy, decided, restarts>>

\* The server stops and starts again.
Restart ==
    /\ restarts < MaxRestarts
    /\ restarts' = restarts + 1
    /\ token' = LoadedToken(tokenFile)
    /\ attempts' = 0 /\ lockedUntil' = 0
    /\ fails' = 0 /\ since' = clock
    /\ remote' = remoteFile
    /\ UNCHANGED <<clock, envToken, tokenFile, known, issued, lost, password, remoteFile, copy, decided,
                   saves, faults>>

Tick ==
    /\ clock < MaxClock
    /\ clock' = clock + 1
    /\ UNCHANGED <<tokenVars, password, adminVars, remoteVars, restarts, faults>>

NoPlan == [plan |-> "absent", current |-> TRUE]

Init ==
    /\ clock = 0
    /\ envToken \in EnvTokens
    /\ tokenFile = 0 /\ token = LoadedToken(0) /\ issued = envToken /\ lost = FALSE
    /\ known = [c \in Clients |-> 0]
    /\ password = "none"
    /\ attempts = 0 /\ lockedUntil = 0
    /\ remote = NoPlan /\ remoteFile = NoPlan /\ copy = [c \in Clients |-> NoPlan]
    /\ decided = "absent"
    /\ restarts = 0 /\ saves = 0 /\ faults = 0
    /\ fails = 0 /\ since = 0

Endpoints == {"recover", "verify", "operation"}

Next ==
    \/ \E c \in Clients : RotateToken(c)
    \/ \E c \in Clients : RecoverToken(c)
    \/ \E c \in Clients : EnterToken(c)
    \/ \E c \in Clients : SetPassword(c)
    \/ \E c \in Clients, endpoint \in Endpoints : WrongPassword(c, endpoint)
    \/ \E c \in Clients : RightPassword(c)
    \/ \E c \in Clients : ConfigureRemote(c)
    \/ \E c \in Clients : RevokeRemote(c)
    \/ \E c \in Clients : LoadSettings(c)
    \/ \E c \in Clients : SaveSettings(c)
    \/ Restart
    \/ Tick

Spec == Init /\ [][Next]_vars

-----------------------------------------------------------------------------
(* Properties.                                                              *)

\* The shape of the state; the counter of failures stays below the limit.
TypeOK ==
    /\ clock \in 0..MaxClock
    /\ envToken \in EnvTokens /\ token \in 0..Torn /\ tokenFile \in 0..Torn
    /\ issued \in 0..MaxToken /\ lost \in BOOLEAN
    /\ known \in [Clients -> 0..Torn]
    /\ password \in {"none", "set", "lost"}
    /\ attempts \in 0..(MaxFailed - 1)
    /\ lockedUntil \in 0..(MaxClock + Lockout)
    /\ remote \in Copies /\ remoteFile \in Copies /\ copy \in [Clients -> Copies]
    /\ decided \in Plans
    /\ restarts \in 0..MaxRestarts /\ saves \in 0..MaxSaves /\ faults \in 0..MaxFaults
    /\ fails \in Nat /\ since \in 0..clock

\* However the three endpoints that ask for the password are mixed, and whoever
\* calls them, MaxFailed wrong passwords are checked in a lockout's time, from the
\* last right one or restart on (server.py:634-662).
FailuresAreBounded ==
    \E n \in 0..(clock - since) : n * Lockout <= clock - since /\ fails <= MaxFailed * (n + 1)

\* Until a write of the token file fails, the token in force is the last one issued,
\* also after a restart: no rotation is taken back by what the file or the
\* environment still has.  A failed write by itself changes nothing of what is in
\* force (server.py:756-763, 788-791, 3413-3430).
RotationsStick == ~lost => token = issued

\* Whatever copies are saved, in the order of anybody's clicks, the plan is as the
\* last configure or revoke left it, and enabled under a password, until a client
\* saves a plan of its own or one it loaded before, or a write of the settings fails
\* (server.py:1226-1261, 872-903).
DecisionsStick ==
    /\ remote.current => remote.plan = decided
    /\ remote.current /\ remote.plan = "enabled" => password # "none"

=============================================================================
