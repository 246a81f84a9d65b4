--------------------------- MODULE SessionManager ---------------------------
(***************************************************************************)
(* Session state with context locking (src/session/state.rs):              *)
(* InMemorySessionManager keeps one map from session id to Session.  Every *)
(* method takes the map's RwLock once and does not await while it holds    *)
(* it, so every method is one action; a method that answers NotFound       *)
(* changes nothing.                                                        *)
(***************************************************************************)
EXTENDS Naturals, Sequences

CONSTANTS
  SessionIds,     \* ids Uuid::new_v4 may draw; none is drawn twice
  Contexts,       \* contexts, as records [identifier, visibility]
  CallRecords,    \* ToolCallRecord: what one intercepted call leaves behind
  NoContext,      \* locked_context = None
  NoSession       \* no entry under this id

Session == [locked : Contexts \union {NoContext}, calls : Seq(CallRecords)]

ASSUME SessionAssumption ==
  /\ NoContext \notin Contexts
  /\ NoSession \notin Session

VARIABLES
  sessions,   \* InMemorySessionManager.sessions
  issued      \* history: every id create_session has drawn

sessionVars == <<sessions, issued>>

SessionInit ==
  /\ sessions = [s \in SessionIds |-> NoSession]
  /\ issued = {}

Live(s) == s \in SessionIds /\ sessions[s] # NoSession

(* create_session: a fresh id, unlocked, with an empty log. *)
CreateSession(s) ==
  /\ s \in SessionIds \ issued
  /\ issued' = issued \union {s}
  /\ sessions' = [sessions EXCEPT ![s] = [locked |-> NoContext, calls |-> <<>>]]

(* lock_context: the lock is overwritten, whatever it was. *)
LockContext(s, c) ==
  /\ Live(s)
  /\ sessions' = [sessions EXCEPT ![s].locked = c]
  /\ UNCHANGED issued

(* The test inside check_context_access: a lock refuses a context that     *)
(* differs from it and has another visibility.                             *)
LockRefuses(locked, c) ==
  locked # NoContext /\ locked # c /\ locked.visibility # c.visibility

(* check_context_access, which reads only. *)
CheckContextAccess(s, c) ==
  IF ~Live(s) THEN "NotFound"
  ELSE IF LockRefuses(sessions[s].locked, c) THEN "Deny" ELSE "Allow"

(* log_tool_call: append to the log of a session that exists. *)
LogToolCall(s, record) ==
  /\ Live(s)
  /\ sessions' = [sessions EXCEPT ![s].calls = Append(@, record)]
  /\ UNCHANGED issued

(* terminate_session: the entry goes; an unknown id is no error. *)
TerminateSession(s) ==
  /\ Live(s)
  /\ sessions' = [sessions EXCEPT ![s] = NoSession]
  /\ UNCHANGED issued

(* What the manager's callers may do, apart from logging calls. *)
SessionAdmin ==
  \E s \in SessionIds :
    \/ CreateSession(s)
    \/ \E c \in Contexts : LockContext(s, c)
    \/ TerminateSession(s)

-----------------------------------------------------------------------------
(* The map and the history hold what their types allow. *)
SessionTypeOK ==
  /\ sessions \in [SessionIds -> Session \union {NoSession}]
  /\ issued \subseteq SessionIds
=============================================================================
