------------------------------ MODULE Sessions -------------------------------
(***************************************************************************)
(* Sessions of users: how one is opened by LdapAuthenticationService       *)
(* behind its throttle, and what SessionService makes of the requests that *)
(* carry its credential.                                                   *)
(*                                                                         *)
(* Every call takes its time once, at its start, and works in several      *)
(* transactions of the two SQLite repositories; the requests of others run *)
(* in between.  The credential of a session is the session's identifier    *)
(* here: the row loses its digest when it stops being active.              *)
(***************************************************************************)
EXTENDS Integers, FiniteSets

CONSTANTS
  Callers,          \* requests under way at a time
  Principals,       \* users who log in
  Clients,          \* where they log in from
  SessionIds,
  IdleTimeout, AbsoluteTimeout,                \* SessionPolicy
  MaxFailures, FailureWindow, BlockDuration,   \* AuthenticationThrottlePolicy
  MaxClock          \* bound on the time

ASSUME SessionsAssumption ==
  /\ IdleTimeout \in Nat \ {0} /\ AbsoluteTimeout \in Nat /\ IdleTimeout < AbsoluteTimeout
  /\ MaxFailures \in Nat \ {0} /\ FailureWindow \in Nat \ {0} /\ BlockDuration \in Nat \ {0}
  /\ MaxClock \in Nat /\ Principals \cap Clients = {} /\ IsFiniteSet(Callers)

VARIABLES
  wall,             \* the time
  session,          \* the rows of identity_sessions
  throttle,         \* the rows of authentication_throttle_states, by scope_key
  call,             \* where each request is, and what it has read
  interacted,       \* when the user of a session last did something (history)
  refused           \* credentials rejected since a key was last clear (history)

sessionVars == <<wall, session, throttle, call, interacted, refused>>

Keys == Principals \cup Clients
Activities == {"USER_INTERACTION", "BACKGROUND"}
Ended == {"EXPIRED", "REVOKED"}

NoSession == [status |-> "none"]
NoCall == [step |-> "none"]
Clear == [failures |-> 0]

SessionRow == [status : {"ACTIVE"} \cup Ended, actor : Principals,
               expires : Nat, active : 0..MaxClock]

SessionsInit ==
  /\ wall = 0
  /\ session = [s \in SessionIds |-> NoSession]
  /\ throttle = [k \in Keys |-> Clear]
  /\ call = [c \in Callers |-> NoCall]
  /\ interacted = [s \in SessionIds |-> 0]
  /\ refused = [k \in Keys |-> 0]

Enters(c, next) == call[c] = NoCall /\ call' = [call EXCEPT ![c] = next]
Proceeds(c, step, next) == call[c].step = step /\ call' = [call EXCEPT ![c] = next]

-----------------------------------------------------------------------------
(* The throttle *)

BlockedAt(row, moment) == row # Clear /\ row.failures >= MaxFailures /\ row.until > moment

\* _read_active: a row that blocks nobody is forgotten when its window is over.
ReadActive(row, moment) ==
  IF row # Clear /\ ~BlockedAt(row, moment) /\ moment - row.since >= FailureWindow THEN Clear ELSE row

\* _increment: a blocked key is not counted further; until stands for a blocked_until that
\* is there when the failures have reached the limit.
Incremented(row, moment) ==
  LET read == ReadActive(row, moment)
  IN IF BlockedAt(read, moment) THEN read
     ELSE [failures |-> read.failures + 1,
           since    |-> IF read = Clear THEN moment ELSE read.since,
           until    |-> IF read.failures + 1 >= MaxFailures THEN moment + BlockDuration ELSE 0]

OfCall(c) == {call[c].user, call[c].client}

\* authenticate, up to the directory: the keys are evaluated in one transaction.
Evaluate(c, u, p) ==
  LET read == [k \in Keys |-> IF k \in {u, p} THEN ReadActive(throttle[k], wall) ELSE throttle[k]]
  IN /\ call[c] = NoCall
     /\ throttle' = read
     /\ refused' = [k \in Keys |-> IF read[k] = Clear \/ (k \in {u, p} /\ ~BlockedAt(read[k], wall)
                                                          /\ read[k].failures >= MaxFailures)
                                   THEN 0 ELSE refused[k]]
     /\ call' = IF \E k \in {u, p} : BlockedAt(read[k], wall) THEN call
                ELSE [call EXCEPT ![c] = [step |-> "directory", user |-> u, client |-> p, at |-> wall]]
     /\ UNCHANGED <<wall, session, interacted>>

\* The directory rejects the credentials.
RecordFailure(c) ==
  /\ Proceeds(c, "directory", NoCall)
  /\ throttle' = [k \in Keys |-> IF k \in OfCall(c) THEN Incremented(throttle[k], call[c].at)
                                 ELSE throttle[k]]
  /\ refused' = [k \in Keys |-> IF k \notin OfCall(c) THEN refused[k]
                                ELSE IF ReadActive(throttle[k], call[c].at) = Clear THEN 1
                                ELSE refused[k] + 1]
  /\ UNCHANGED <<wall, session, interacted>>

\* The directory knows the user, whose groups have roles.
ResetThrottle(c) ==
  /\ Proceeds(c, "directory", [call[c] EXCEPT !.step = "authenticated"])
  /\ throttle' = [k \in Keys |-> IF k \in OfCall(c) THEN Clear ELSE throttle[k]]
  /\ refused' = [k \in Keys |-> IF k \in OfCall(c) THEN 0 ELSE refused[k]]
  /\ UNCHANGED <<wall, session, interacted>>

-----------------------------------------------------------------------------
(* Opening a session *)

Ends(s, status) == [session EXCEPT ![s] = [@ EXCEPT !.status = status]]

\* replace_active: in one transaction.
ReplaceActive(u, s) ==
  [t \in SessionIds |->
     IF t = s THEN [status |-> "ACTIVE", actor |-> u, expires |-> wall + AbsoluteTimeout, active |-> wall]
     ELSE IF session[t].status = "ACTIVE" /\ session[t].actor = u
          THEN [session[t] EXCEPT !.status = "REVOKED"]
     ELSE session[t]]

\* open_authenticated_session: it refuses an authentication that is older than the idle
\* timeout by then.
OpenSession(c, s) ==
  /\ Proceeds(c, "authenticated", [step |-> "opened", session |-> s])
  /\ session[s] = NoSession /\ wall < call[c].at + IdleTimeout
  /\ session' = ReplaceActive(call[c].user, s)
  /\ interacted' = [interacted EXCEPT ![s] = wall]
  /\ UNCHANGED <<wall, throttle, refused>>

\* SESSION_CREATED is recorded and the session granted; or it cannot be, and the session
\* is revoked.
GrantSession(c, recorded) ==
  /\ Proceeds(c, "opened", NoCall)
  /\ session' = IF recorded \/ session[call[c].session].status # "ACTIVE" THEN session
                ELSE Ends(call[c].session, "REVOKED")
  /\ UNCHANGED <<wall, throttle, interacted, refused>>

-----------------------------------------------------------------------------
(* Requests that carry the credential *)

Timely(s, moment) == moment < session[s].expires /\ moment < session[s].active + IdleTimeout

\* _resolve_active_record: the row is found by its credential.
ResolveSession(c, s, activity) ==
  /\ session[s].status = "ACTIVE"
  /\ Enters(c, [step |-> IF Timely(s, wall) THEN "resolved" ELSE "late",
                session |-> s, at |-> wall, activity |-> activity])
  /\ UNCHANGED <<wall, session, throttle, interacted, refused>>

\* transition, WHERE status is ACTIVE
Expire(c) ==
  /\ Proceeds(c, "late", NoCall)
  /\ session' = IF session[call[c].session].status = "ACTIVE" THEN Ends(call[c].session, "EXPIRED")
                ELSE session
  /\ UNCHANGED <<wall, throttle, interacted, refused>>

Later(m, n) == IF m > n THEN m ELSE n

\* _touch_for_activity, and the context is issued.
Accept(c) ==
  /\ Proceeds(c, "resolved", NoCall)
  /\ LET s == call[c].session
     IN IF call[c].activity = "USER_INTERACTION"
        THEN /\ session' = IF session[s].status = "ACTIVE"
                           THEN [session EXCEPT ![s].active = call[c].at] ELSE session
             /\ interacted' = [interacted EXCEPT ![s] = Later(@, call[c].at)]
        ELSE UNCHANGED <<session, interacted>>
  /\ UNCHANGED <<wall, throttle, refused>>

LogoutRead(c, s) ==
  /\ session[s].status = "ACTIVE"
  /\ Enters(c, [step |-> "logout", session |-> s])
  /\ UNCHANGED <<wall, session, throttle, interacted, refused>>

Logout(c) ==
  /\ Proceeds(c, "logout", NoCall)
  /\ session' = IF session[call[c].session].status = "ACTIVE" THEN Ends(call[c].session, "REVOKED")
                ELSE session
  /\ UNCHANGED <<wall, throttle, interacted, refused>>

-----------------------------------------------------------------------------
\* The request is denied on the way, cannot be recorded, or its process dies.
Denied(c) ==
  /\ call[c] # NoCall
  /\ call' = [call EXCEPT ![c] = NoCall]
  /\ UNCHANGED <<wall, session, throttle, interacted, refused>>

TimePasses ==
  /\ wall < MaxClock
  /\ wall' = wall + 1
  /\ UNCHANGED <<session, throttle, call, interacted, refused>>

SigningIn(c) ==
  \/ ResetThrottle(c) \/ Denied(c)
  \/ \E u \in Principals, p \in Clients : Evaluate(c, u, p)

UsingSessions(c) ==
  \/ Expire(c) \/ Accept(c) \/ Logout(c)
  \/ \E s \in SessionIds :
       \/ OpenSession(c, s) \/ LogoutRead(c, s)
       \/ \E activity \in Activities : ResolveSession(c, s, activity)
  \/ \E recorded \in BOOLEAN : GrantSession(c, recorded)

\* The two tables meet in a request only.  The throttle can be explored without what comes
\* of a successful attempt, and the sessions with successful attempts only.
ThrottlingNext == TimePasses \/ \E c \in Callers : SigningIn(c) \/ RecordFailure(c)
OpeningNext == TimePasses \/ \E c \in Callers : SigningIn(c) \/ UsingSessions(c)

SessionsNext == ThrottlingNext \/ OpeningNext

SessionsSpec == SessionsInit /\ [][SessionsNext]_sessionVars

-----------------------------------------------------------------------------
(* Properties *)

SessionsTypeOK ==
  /\ wall \in 0..MaxClock
  /\ session \in [SessionIds -> SessionRow \cup {NoSession}]
  /\ DOMAIN throttle = Keys
  /\ \A k \in Keys : throttle[k] # Clear =>
       throttle[k] \in [failures : Nat \ {0}, since : 0..MaxClock, until : Nat]
  /\ \A c \in Callers :
       call[c].step \in {"none", "directory", "authenticated", "opened", "resolved", "late", "logout"}
  /\ interacted \in [SessionIds -> 0..MaxClock]
  /\ refused \in [Keys -> Nat]

\* A user has one active session: whoever logs in again, or twice at once, ends the others.
OneSessionPerUser ==
  \A s, t \in SessionIds :
    session[s].status = "ACTIVE" /\ session[t].status = "ACTIVE" /\ session[s].actor = session[t].actor
      => s = t

\* However many attempts are evaluated before the failures of the others are recorded,
\* the directory rejects no more than the limit and one for each other attempt under way
\* before a key is blocked.
AttemptsAreBounded ==
  \A k \in Keys : refused[k] <= MaxFailures + Cardinality(Callers) - 1

\* A session that was revoked or has expired is never active again, whatever the requests
\* that found it active do to it afterwards.
EndedSessionsStayEnded ==
  [][\A s \in SessionIds : session[s].status \in Ended => session'[s] = session[s]]_sessionVars

\* A request is accepted only within the lifetime of its session and within the idle
\* timeout of what its user last did: background requests keep no session alive.
AcceptedIsTimely ==
  [][\A c \in Callers : call[c].step = "resolved" /\ Accept(c) =>
       /\ call[c].at < session[call[c].session].expires
       /\ call[c].at < interacted[call[c].session] + IdleTimeout]_sessionVars
=============================================================================
