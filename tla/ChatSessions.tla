---------------------------- MODULE ChatSessions ----------------------------
(***************************************************************************)
(* Chat sessions (src/backend/orchestrator/server.py: chat, delete_session, *)
(* _save_sessions_to_disk; session.py) and the run events their turns emit. *)
(*                                                                         *)
(* A turn adds the user's message to the session object, awaits the        *)
(* orchestrator and adds the answer to the object it holds, which by then  *)
(* may have been deleted from the dictionary.  Only an answer and a delete *)
(* save the sessions.                                                      *)
(***************************************************************************)
EXTENDS RunEvents, FiniteSets, SequencesExt

CONSTANTS
    Turns,     \* the chat requests, each with a run of its own
    Sessions,  \* session ids
    Projects,  \* project ids
    NoSession, \* a session id without an entry
    Tokens(_), \* _estimate_tokens: of a sequence of messages
    MaxTokens, \* max_context_tokens of a session
    MaxCrashes \* bound: crashes of the server

ASSUME ChatAssumption ==
    /\ Turns = Runs
    /\ MaxTokens \in Nat /\ MaxCrashes \in Nat
    /\ Tokens(<<>>) = 0
    /\ NoSession \notin Turns

VARIABLES
    turn,     \* turn[t]: the chat request t
    sessions, \* the dictionary: the object of each session, NoSession without one
    projects, \* session_projects
    messages, \* messages[o]: the messages of the object o
    disk,     \* the sessions file
    crashes

chatVars == <<turn, sessions, projects, messages, disk, crashes>>
vars     == <<chatVars, eventVars>>

-----------------------------------------------------------------------------
\* An object is named after the turn that made it; a message is the turn's
\* question or its answer.
Objects  == Turns
Message  == [role : {"user", "assistant"}, turn : Turns]
User(t)  == [role |-> "user", turn |-> t]
Reply(t) == [role |-> "assistant", turn |-> t]

NewTurn  == [phase |-> "new", session |-> NoSession, project |-> NoSession,
             object |-> NoSession, context |-> <<>>]
Unsaved  == [object |-> NoSession, project |-> NoSession, messages |-> <<>>]

NothingSaved == [s \in Sessions |-> Unsaved]

\* trim drops the oldest messages until the rest fits, the newest one too.
Trimmed(ms) ==
    LET fits == {n \in 1..(Len(ms) + 1) : Tokens(SubSeq(ms, n, Len(ms))) <= MaxTokens}
    IN  SubSeq(ms, CHOOSE n \in fits : \A k \in fits : n <= k, Len(ms))

\* _save_sessions_to_disk: every session in the dictionary, whatever turn saves.
Saved(dict, projs, msgs) ==
    [s \in Sessions |-> IF dict[s] = NoSession THEN Unsaved
                        ELSE [object |-> dict[s], project |-> projs[s], messages |-> msgs[dict[s]]]]

\* _ensure_session_project
ProjectFits(s, p) == sessions[s] = NoSession \/ projects[s] = p

\* (mutant) the answer goes to the session of that id, whichever it is by now.
ObjectById(t) == IF sessions[turn[t].session] # NoSession THEN sessions[turn[t].session]
                 ELSE turn[t].object

\* The object that the turn has held since it began.
ObjectOf(t) == turn[t].object

-----------------------------------------------------------------------------
\* chat up to the await: the run starts, the session is found or made, the
\* question is added, and the context is what is before it.
ChatBegin(t, s, p) ==
    /\ turn[t].phase = "new"
    /\ ProjectFits(s, p)
    /\ LET o  == IF sessions[s] = NoSession THEN t ELSE sessions[s]
           ms == Trimmed(Append(messages[o], User(t)))
       IN  /\ sessions' = [sessions EXCEPT ![s] = o]
           /\ projects' = [projects EXCEPT ![s] = p]
           /\ messages' = [messages EXCEPT ![o] = ms]
           /\ turn' = [turn EXCEPT ![t] = [phase |-> "asking", session |-> s, project |-> p,
                                           object |-> o,
                                           context |-> IF ms = <<>> THEN <<>> ELSE Front(ms)]]
    /\ Emit(t, "running", 3)
    /\ UNCHANGED <<disk, crashes>>

\* A session of another project: 409, with the run left as it was started.
ChatConflict(t, s, p) ==
    /\ turn[t].phase = "new"
    /\ ~ProjectFits(s, p)
    /\ turn' = [turn EXCEPT ![t].phase = "refused"]
    /\ Emit(t, "running", 2)
    /\ UNCHANGED <<sessions, projects, messages, disk, crashes>>

\* (mutant) the sessions are saved before the answer is in them.
ChatAnswerUnsaved(t) ==
    /\ turn[t].phase = "asking"
    /\ messages' = [messages EXCEPT ![ObjectOf(t)] = Trimmed(Append(@, Reply(t)))]
    /\ disk' = Saved(sessions, projects, messages)
    /\ turn' = [turn EXCEPT ![t].phase = "answered", ![t].context = <<>>]
    /\ Emit(t, "completed", 1)
    /\ UNCHANGED <<sessions, projects, crashes>>

\* The answer, perhaps of the second, strict attempt: it is added, the sessions
\* are saved and the run is completed.
ChatAnswer(t) ==
    /\ turn[t].phase = "asking"
    /\ messages' = [messages EXCEPT ![ObjectOf(t)] = Trimmed(Append(@, Reply(t)))]
    /\ disk' = Saved(sessions, projects, messages')
    /\ turn' = [turn EXCEPT ![t].phase = "answered", ![t].context = <<>>]
    /\ Emit(t, "completed", 1)
    /\ UNCHANGED <<sessions, projects, crashes>>

\* The orchestrator fails: the question stays in the session, nothing is saved.
ChatFail(t) ==
    /\ turn[t].phase = "asking"
    /\ turn' = [turn EXCEPT ![t].phase = "failed", ![t].context = <<>>]
    /\ Emit(t, "failed", 1)
    /\ UNCHANGED <<sessions, projects, messages, disk, crashes>>

\* (mutant) a delete leaves the file to the next answer.
DeleteUnsaved(s) ==
    /\ sessions[s] # NoSession
    /\ sessions' = [sessions EXCEPT ![s] = NoSession]
    /\ projects' = [projects EXCEPT ![s] = NoSession]
    /\ UNCHANGED <<turn, messages, disk, crashes, eventVars>>

\* DELETE /v1/sessions/{session_id}
DeleteSession(s) ==
    /\ sessions[s] # NoSession
    /\ sessions' = [sessions EXCEPT ![s] = NoSession]
    /\ projects' = [projects EXCEPT ![s] = NoSession]
    /\ disk' = Saved(sessions', projects', messages)
    /\ UNCHANGED <<turn, messages, crashes, eventVars>>

\* DELETE /v1/runs/{run_id}
DeleteRun(t) ==
    /\ ledger[t] # "none"
    /\ Emit(t, "none", 1)
    /\ UNCHANGED chatVars

\* _save_sessions_to_disk rewrites the file in place, for an answer or a delete; a
\* file that is cut loads as no sessions at all.
Saving == (\E t \in Turns : turn[t].phase = "asking") \/ (\E s \in Sessions : sessions[s] # NoSession)

FilesLeft == {disk} \cup (IF Saving THEN {NothingSaved} ELSE {})

\* The server crashes, perhaps in a save, and starts again from the files, without
\* subscribers.  (What a crash does to the rows of the runs is RunLedger's.)
Crash ==
    /\ crashes < MaxCrashes
    /\ crashes' = crashes + 1
    /\ disk' \in FilesLeft
    /\ sessions' = [s \in Sessions |-> disk'[s].object]
    /\ projects' = [s \in Sessions |-> disk'[s].project]
    /\ messages' = [o \in Objects |->
                       IF \E s \in Sessions : disk'[s].object = o
                       THEN Trimmed(disk'[CHOOSE s \in Sessions : disk'[s].object = o].messages)
                       ELSE <<>>]
    /\ turn' = [t \in Turns |->
                   IF turn[t].phase = "asking"
                   THEN [turn[t] EXCEPT !.phase = "dead", !.context = <<>>]
                   ELSE turn[t]]
    /\ DropSubscribers

Stream ==
    /\ \E c \in Clients : Subscribe(c) \/ Send(c) \/ Unsubscribe(c)
    /\ UNCHANGED chatVars

Init ==
    /\ InitEvents
    /\ turn = [t \in Turns |-> NewTurn]
    /\ sessions = [s \in Sessions |-> NoSession]
    /\ projects = [s \in Sessions |-> NoSession]
    /\ messages = [o \in Objects |-> <<>>]
    /\ disk = NothingSaved
    /\ crashes = 0

Next ==
    \/ \E t \in Turns, s \in Sessions, p \in Projects : ChatBegin(t, s, p)
    \/ \E t \in Turns, s \in Sessions, p \in Projects : ChatConflict(t, s, p)
    \/ \E t \in Turns : ChatAnswer(t)
    \/ \E t \in Turns : ChatFail(t)
    \/ \E s \in Sessions : DeleteSession(s)
    \/ \E t \in Turns : DeleteRun(t)
    \/ Crash
    \/ Stream

Spec == Init /\ [][Next]_vars

-----------------------------------------------------------------------------
(* Properties.                                                              *)

\* The messages of a session that is in the dictionary.
MessagesOf(s) == IF sessions[s] = NoSession THEN <<>> ELSE messages[sessions[s]]

TypeOK ==
    /\ TypeOKEvents
    /\ turn \in [Turns -> [phase : {"new", "asking", "refused", "answered", "failed", "dead"},
                           session : Sessions \cup {NoSession}, project : Projects \cup {NoSession},
                           object : Objects \cup {NoSession}, context : Seq(Message)]]
    /\ sessions \in [Sessions -> Objects \cup {NoSession}]
    /\ projects \in [Sessions -> Projects \cup {NoSession}]
    /\ messages \in [Objects -> Seq(Message)]
    /\ disk \in [Sessions -> [object : Objects \cup {NoSession}, messages : Seq(Message),
                              project : Projects \cup {NoSession}]]
    /\ crashes \in 0..MaxCrashes
    /\ \A o \in Objects : Tokens(messages[o]) <= MaxTokens

\* What a session holds, and what it gives a turn as context, was said in that
\* session and project and, after a session was deleted and made anew, after that,
\* however turns, deletes and restarts interleave (server.py:245-255, 1947-1950).
SessionsKeepApart ==
    /\ \A s \in Sessions : \A i \in DOMAIN MessagesOf(s) :
          LET t == MessagesOf(s)[i].turn
          IN  turn[t].session = s /\ turn[t].project = projects[s] /\ turn[t].object = sessions[s]
    /\ \A t \in Turns : \A i \in DOMAIN turn[t].context :
          LET u == turn[t].context[i].turn
          IN  turn[u].session = turn[t].session /\ turn[u].project = turn[t].project

\* A crash loses the question and the answer of an answered turn, which a session
\* still held, only with the whole file: when it cuts a save, no session is left
\* (server.py:4145, 4074-4077); otherwise every session has all of its answered turns
\* after the restart, whoever else was asking, answered or deleted (2022-2024).
CrashesKeepAnswers ==
    [][crashes' # crashes /\ disk' # NothingSaved =>
         \A s \in Sessions : \A i \in DOMAIN MessagesOf(s) :
            turn[MessagesOf(s)[i].turn].phase = "answered" =>
               \E j \in DOMAIN MessagesOf(s)' : MessagesOf(s)'[j] = MessagesOf(s)[i]]_vars

\* A deleted session does not come back: what is in the file is in the dictionary,
\* also when a turn that was in flight at the delete is answered after it, or the
\* server restarts (server.py:2543-2554).
DeletedStaysDeleted ==
    \A s \in Sessions : sessions[s] = NoSession => disk[s] = Unsaved

\* The sessions are well formed and within their limit, and no two mix.
SessionsOK == TypeOK /\ SessionsKeepApart
=============================================================================
