------------------------------ MODULE Sessions ------------------------------
(***************************************************************************)
(* Users, passwords and tokens (internal/auth), the admin API's handlers   *)
(* that use them (internal/api) and the commands of `packrune users`. All  *)
(* of them share two tables; every statement is a transaction of its own.  *)
(*                                                                         *)
(* A login reads and verifies a password, then inserts a session token,    *)
(* then writes an audit record, then answers with the cookie. Every other  *)
(* request first looks its token up with the token's user, and its handler *)
(* acts on the user it read then. A change of password updates the user's  *)
(* row and then deletes the user's tokens. Of the audit write and of that  *)
(* deletion the code ignores the error.                                    *)
(*                                                                         *)
(* gen counts the passwords of a user; the gen of a request or a token is  *)
(* the password it rests on, directly or through the token it presented.   *)
(***************************************************************************)
EXTENDS AuditLog

CONSTANTS
  Users,      \* user names (and emails), each unique
  Admins,     \* users that are created with is_admin, which nothing changes
  Tokens,     \* token ids; each stands for its plaintext too, issued once
  Requests,   \* requests the server has in hand at a time
  Operators,  \* `packrune users passwd` commands run at a time
  MaxGen,     \* bound on the passwords a user has
  MaxFaults,  \* bound on failing statements and deaths of a process
  MaxWork,    \* bound on rows of the log, tokens and changes of a password together
  None

ASSUME SessionsAssumption ==
  /\ Admins \subseteq Users
  /\ MaxGen \in Nat \ {0}
  /\ MaxFaults \in Nat
  /\ MaxWork \in Nat
  /\ None \notin Users \cup Tokens

VARIABLES
  user,      \* user[u]: the row of u in users, or None
  token,     \* token[t]: the row of t in tokens, or None
  unissued,  \* tokens that have not been generated yet
  req,       \* req[r]: request r between its statements
  change,    \* change[o]: the user whose tokens command o is about to delete
  held,      \* tokens whose plaintext a client has been sent
  out,       \* tokens that a logout has ended, none of its statements failing
  spoiled,   \* users whose tokens a change of password failed to delete
  faults

tables == <<user, token, unissued>>
marks == <<held, out, spoiled>>
vars == <<tables, req, change, marks, faults, auditVars>>

-----------------------------------------------------------------------------
\* late: a deletion of the user's tokens has run since the request verified.
Request ==
  [pc: {"idle", "issue", "allow", "act", "revoke"},
   user: Users \cup {None}, gen: 0..MaxGen, late: BOOLEAN,
   token: Tokens \cup {None}]

Idle == [pc |-> "idle", user |-> None, gen |-> 0, late |-> FALSE, token |-> None]

TokenRow ==
  [owner: Users, gen: 0..MaxGen, late: BOOLEAN, session: BOOLEAN, expired: BOOLEAN]

UserRow == [gen: 1..MaxGen, active: BOOLEAN]

ASSUME RowAssumption == None \notin UserRow \cup TokenRow

Fault == faults < MaxFaults /\ faults' = faults + 1

Answered(r) == req' = [req EXCEPT ![r] = Idle]

\* What AuthenticateToken accepts.
Usable(t) ==
  /\ token[t] # None
  /\ ~token[t].expired
  /\ user[token[t].owner].active

\* The records and the tokens that the logins under way are to make.
LoginsToRecord == Cardinality({r \in Requests : req[r].pc \in {"issue", "allow"}})
LoginsToIssue == Cardinality({r \in Requests : req[r].pc = "issue"})

Work ==
  Len(log) + LoginsToRecord + Cardinality(Tokens \ unissued) + LoginsToIssue
    + Cardinality({u \in Users : user[u] # None /\ user[u].gen > 1})

\* There is room for n more, and for one more record.
HasRoom(n) == Work + n <= MaxWork
LogHasRoom == Len(log) + LoginsToRecord < MaxRecords

\* Requests that act for u on what they have verified.
ActingFor(u) == {r \in Requests : req[r].pc \in {"issue", "act"} /\ req[r].user = u}

-----------------------------------------------------------------------------
(* DBService, one statement each. *)

\* INSERT INTO users: the name and the email are UNIQUE.
CreateUser(u) ==
  /\ user[u] = None
  /\ user' = [user EXCEPT ![u] = [gen |-> 1, active |-> TRUE]]

\* INSERT INTO tokens.
IssueToken(t, row) ==
  /\ t \in unissued
  /\ unissued' = unissued \ {t}
  /\ token' = [token EXCEPT ![t] = row]

\* DELETE FROM tokens WHERE id = ?
RevokeToken(t) == token' = [token EXCEPT ![t] = None]

\* UPDATE users SET is_active = 0: the tokens stay.
DeactivateUser(u) ==
  user' = [user EXCEPT ![u] = IF @ = None THEN None ELSE [@ EXCEPT !.active = FALSE]]

-----------------------------------------------------------------------------
(* POST /api/auth/login. *)

\* AuthenticateBasic reads the row of an active user and the password it was
\* sent is the one of the row.
LoginVerified(r, u) ==
  /\ req[r] = Idle
  /\ LogHasRoom /\ HasRoom(2)
  /\ user[u] # None
  /\ user[u].active
  /\ req' = [req EXCEPT ![r] = [Idle EXCEPT !.pc = "issue", !.user = u, !.gen = user[u].gen]]
  /\ UNCHANGED <<tables, change, marks, faults, auditVars>>

\* Another password, no such user, an inactive one, or a query that fails.
\* The refusal is recorded, if it can be; 401 or 500.
LoginDenied(r) ==
  /\ req[r] = Idle
  /\ LogHasRoom /\ HasRoom(1)
  /\ \/ Write /\ UNCHANGED faults
     \/ Fault /\ UNCHANGED auditVars
  /\ UNCHANGED <<tables, req, change, marks>>

SessionRow(r) ==
  [owner |-> req[r].user, gen |-> req[r].gen, late |-> req[r].late, session |-> TRUE,
   expired |-> FALSE]

\* The session of 24 hours is inserted.
IssueSession(r, t) ==
  /\ req[r].pc = "issue"
  /\ IssueToken(t, SessionRow(r))
  /\ req' = [req EXCEPT ![r] = [Idle EXCEPT !.pc = "allow", !.token = t]]
  /\ UNCHANGED <<user, change, marks, faults, auditVars>>

\* "issue session: ...", 500.
IssueSessionFails(r) ==
  /\ req[r].pc = "issue"
  /\ Fault
  /\ Answered(r)
  /\ UNCHANGED <<tables, change, marks, auditVars>>

\* The login is recorded, if it can be, and the answer carries the plaintext.
AuditAllow(r) ==
  /\ req[r].pc = "allow"
  /\ \/ Write /\ UNCHANGED faults
     \/ Fault /\ UNCHANGED auditVars
  /\ held' = held \cup {req[r].token}
  /\ Answered(r)
  /\ UNCHANGED <<tables, change, out, spoiled>>

-----------------------------------------------------------------------------
(* POST /api/auth/logout, which clears the cookie in any case. *)

\* AuthenticateToken finds the token of the cookie, or it is not usable.
Logout(r, t) ==
  /\ req[r] = Idle
  /\ t \in held
  /\ IF Usable(t)
     THEN /\ req' = [req EXCEPT ![r] = [Idle EXCEPT !.pc = "revoke", !.token = t]]
          /\ UNCHANGED out
     ELSE /\ out' = out \cup {t}
          /\ UNCHANGED req
  /\ UNCHANGED <<tables, change, held, spoiled, faults, auditVars>>

\* Mutant of LogoutRevokes: clearing the cookie is taken to be enough.
LogoutRevokesNothing(r) ==
  /\ req[r].pc = "revoke"
  /\ out' = out \cup {req[r].token}
  /\ Answered(r)
  /\ UNCHANGED <<tables, change, held, spoiled, faults, auditVars>>

LogoutRevokes(r) ==
  /\ req[r].pc = "revoke"
  /\ RevokeToken(req[r].token)
  /\ out' = out \cup {req[r].token}
  /\ Answered(r)
  /\ UNCHANGED <<user, unissued, change, held, spoiled, faults, auditVars>>

\* RevokeToken fails, and nobody looks; a lookup that fails changes nothing.
LogoutFails(r) ==
  /\ req[r].pc = "revoke"
  /\ Fault
  /\ Answered(r)
  /\ UNCHANGED <<tables, change, marks, auditVars>>

-----------------------------------------------------------------------------
(* Requests behind requireAuth. *)

\* The cookie, or else the bearer token, is looked up, and the handler acts for
\* the user as read now, also when the user is deactivated meanwhile. A request
\* with neither is answered 401.
requireAuth(r, t) ==
  /\ req[r] = Idle
  /\ t \in held
  /\ Usable(t)
  /\ LET u == token[t].owner IN
     req' = [req EXCEPT ![r] = [Idle EXCEPT !.pc = "act", !.user = u, !.gen = token[t].gen,
                                            !.late = token[t].late]]
  /\ UNCHANGED <<tables, change, marks, faults, auditVars>>

IsAdmin(r) == req[r].user \in Admins

\* Whether the handler lets the request act for u.
SelfOrAdmin(r, u) == req[r].user = u \/ IsAdmin(r)

\* POST /api/tokens: of oneself, or, as an admin, of anybody. What an admin
\* issues for another user rests on no password of that user's.
handleCreateToken(r, u, t) ==
  /\ req[r].pc = "act"
  /\ SelfOrAdmin(r, u)
  /\ HasRoom(1)
  /\ user[u] # None
  /\ LET own == req[r].user = u IN
     IssueToken(t, [owner   |-> u,
                    gen     |-> IF own THEN req[r].gen ELSE user[u].gen,
                    late    |-> own /\ req[r].late,
                    session |-> FALSE, expired |-> FALSE])
  /\ held' = held \cup {t}
  /\ Answered(r)
  /\ UNCHANGED <<user, change, out, spoiled, faults, auditVars>>

\* DELETE /api/tokens/{id}.
handleRevokeToken(r, t) ==
  /\ req[r].pc = "act"
  /\ RevokeToken(t)
  /\ Answered(r)
  /\ UNCHANGED <<user, unissued, change, marks, faults, auditVars>>

\* POST /api/users.
handleCreateUser(r, u) ==
  /\ req[r].pc = "act"
  /\ IsAdmin(r)
  /\ CreateUser(u)
  /\ Answered(r)
  /\ UNCHANGED <<token, unissued, change, marks, faults, auditVars>>

\* DELETE /api/users/{id}.
handleDeactivateUser(r, u) ==
  /\ req[r].pc = "act"
  /\ IsAdmin(r)
  /\ DeactivateUser(u)
  /\ Answered(r)
  /\ UNCHANGED <<token, unissued, change, marks, faults, auditVars>>

\* GET /api/audit: a page of the log.
handleListAudit(r) ==
  /\ req[r].pc = "act"
  /\ IsAdmin(r)
  /\ \E S \in SUBSET Matching(IF pager.pc = "paging" THEN pager.before ELSE Start) : NextPage(S)
  /\ Answered(r)
  /\ UNCHANGED <<tables, change, marks, faults>>

\* A handler that only reads (me, listings of users and tokens), that refuses
\* (403, a name that is taken) or whose statement fails.
AnswerUnchanged(r) ==
  /\ req[r].pc = "act"
  /\ Answered(r)
  /\ UNCHANGED <<tables, change, marks, faults, auditVars>>

-----------------------------------------------------------------------------
(* packrune users. *)

runUsersAdd(u) ==
  /\ CreateUser(u)
  /\ UNCHANGED <<token, unissued, req, change, marks, faults, auditVars>>

\* SetPasswordByUsername: the UPDATE, which finds the user, active or not.
SetPassword(o, u) ==
  /\ change[o] = None
  /\ HasRoom(1)
  /\ user[u] # None
  /\ user[u].gen < MaxGen
  /\ user' = [user EXCEPT ![u].gen = @ + 1]
  /\ change' = [change EXCEPT ![o] = u]
  /\ UNCHANGED <<token, unissued, req, marks, faults, auditVars>>

\* Mutant of DeleteTokens: only sessions are deleted.
DeleteTokensOfSessions(o) ==
  /\ change[o] # None
  /\ LET u == change[o] IN
     /\ token' = [t \in Tokens |->
          IF token[t] # None /\ token[t].owner = u /\ token[t].session THEN None ELSE token[t]]
     /\ req' = [r \in Requests |-> IF r \in ActingFor(u) THEN [req[r] EXCEPT !.late = TRUE]
                                                         ELSE req[r]]
     /\ spoiled' = spoiled \ {u}
  /\ change' = [change EXCEPT ![o] = None]
  /\ UNCHANGED <<user, unissued, held, out, faults, auditVars>>

\* DELETE FROM tokens of the user: "existing sessions invalidated".
DeleteTokens(o) ==
  /\ change[o] # None
  /\ LET u == change[o] IN
     /\ token' = [t \in Tokens |-> IF token[t] # None /\ token[t].owner = u
                                   THEN None ELSE token[t]]
     /\ req' = [r \in Requests |-> IF r \in ActingFor(u) THEN [req[r] EXCEPT !.late = TRUE]
                                                         ELSE req[r]]
     /\ spoiled' = spoiled \ {u}
  /\ change' = [change EXCEPT ![o] = None]
  /\ UNCHANGED <<user, unissued, held, out, faults, auditVars>>

\* The DELETE fails, of which the code takes no notice, or the command dies
\* before it.
DeleteTokensFails(o) ==
  /\ change[o] # None
  /\ Fault
  /\ spoiled' = spoiled \cup {change[o]}
  /\ change' = [change EXCEPT ![o] = None]
  /\ UNCHANGED <<tables, req, held, out, auditVars>>

-----------------------------------------------------------------------------
\* 24 hours are over, or the hours that were asked for; a token that was
\* created without any is one that this never happens to.
Expire(t) ==
  /\ token[t] # None
  /\ ~token[t].expired
  /\ token' = [token EXCEPT ![t].expired = TRUE]
  /\ UNCHANGED <<user, unissued, req, change, marks, faults, auditVars>>

\* The server dies: its requests are never answered.
Crash ==
  /\ \E r \in Requests : req[r] # Idle
  /\ Fault
  /\ req' = [r \in Requests |-> Idle]
  /\ UNCHANGED <<tables, change, marks, auditVars>>

Init ==
  /\ user = [u \in Users |-> None]
  /\ token = [t \in Tokens |-> None]
  /\ unissued = Tokens
  /\ req = [r \in Requests |-> Idle]
  /\ change = [o \in Operators |-> None]
  /\ held = {}
  /\ out = {}
  /\ spoiled = {}
  /\ faults = 0
  /\ AuditInit

Login(r) ==
  \/ \E u \in Users : LoginVerified(r, u)
  \/ LoginDenied(r)
  \/ \E t \in Tokens : IssueSession(r, t)
  \/ IssueSessionFails(r)
  \/ AuditAllow(r)

LogoutStep(r) ==
  \/ \E t \in Tokens : Logout(r, t)
  \/ LogoutRevokes(r)
  \/ LogoutFails(r)

Handle(r) ==
  \/ \E t \in Tokens :
       \/ requireAuth(r, t)
       \/ \E u \in Users : handleCreateToken(r, u, t)
       \/ handleRevokeToken(r, t)
  \/ \E u \in Users :
       \/ handleDeactivateUser(r, u)
       \/ handleCreateUser(r, u)
  \/ handleListAudit(r)
  \/ AnswerUnchanged(r)

Command ==
  \/ \E u \in Users : runUsersAdd(u)
  \/ \E o \in Operators :
       \/ \E u \in Users : SetPassword(o, u)
       \/ DeleteTokens(o)
       \/ DeleteTokensFails(o)

Next ==
  \/ \E r \in Requests : Login(r) \/ LogoutStep(r) \/ Handle(r)
  \/ Command
  \/ \E t \in Tokens : Expire(t)
  \/ Crash

Spec == Init /\ [][Next]_vars

-----------------------------------------------------------------------------
(* Properties. *)

TypeOK ==
  /\ user \in [Users -> UserRow \cup {None}]
  /\ token \in [Tokens -> TokenRow \cup {None}]
  /\ unissued \subseteq Tokens
  /\ req \in [Requests -> Request]
  /\ change \in [Operators -> Users \cup {None}]
  /\ held \subseteq Tokens
  /\ out \subseteq Tokens
  /\ spoiled \subseteq Users
  /\ faults \in 0..MaxFaults
  /\ AuditTypeOK

\* No change of the password of u is between its two statements.
Settled(u) == u \notin spoiled /\ \A o \in Operators : change[o] # u

\* After a change of password, no token rests on an older password but those
\* whose request was under way when the tokens were deleted, having verified
\* before, and those made from them: "existing sessions invalidated"
\* (users.go:121, service_db.go:266-288). It takes a deletion that succeeds.
SurvivorsWereInFlight ==
  \A t \in Tokens :
    token[t] # None =>
      \/ token[t].gen = user[token[t].owner].gen
      \/ token[t].late
      \/ ~Settled(token[t].owner)

\* A token that was logged out, no statement failing, is never accepted again
\* "even if it was logged" (api/auth.go:80-85), whatever requests, expiries
\* and deactivations run beside the logout.
LoggedOutStaysOut == \A t \in out : ~Usable(t)

=============================================================================
