--------------------------- MODULE SessionsProofs ---------------------------
(***************************************************************************)
(* Proofs about Sessions, for any users, tokens, requests, operators and   *)
(* bounds.                                                                 *)
(*                                                                         *)
(* SessionInv says of the requests under way what the properties say of    *)
(* the tokens they are about to insert: a request that acts for a user     *)
(* rests on the user's password of now, or a deletion of tokens has run    *)
(* since it verified, or one is still to come. A token that is issued has  *)
(* left "unissued" for ever, so one that is gone never returns.            *)
(***************************************************************************)
EXTENDS Sessions, TLAPS

\* Tokens of rows, of answers and of requests have been issued, and their
\* owners are there.
Issued ==
  /\ \A t \in Tokens : token[t] # None => t \notin unissued /\ user[token[t].owner] # None
  /\ held \cap unissued = {}
  /\ out \cap unissued = {}
  /\ \A r \in Requests :
       /\ req[r].pc \in {"issue", "act"} => req[r].user \in Users /\ user[req[r].user] # None
       /\ req[r].pc \in {"allow", "revoke"} => req[r].token \in Tokens \ unissued

\* A row or a request of u rests on the password of now, or is accounted for.
Current(u, gen, late) == gen = user[u].gen \/ late \/ ~Settled(u)

RestsOnCurrent ==
  \A r \in Requests :
    req[r].pc \in {"issue", "act"} => Current(req[r].user, req[r].gen, req[r].late)

\* What a client that is paging still has to see is before its cursor.
AheadOfPager ==
  pager.pc = "paging" => \A i \in pager.missing : i \in DOMAIN log /\ log[i] < pager.before

-----------------------------------------------------------------------------
(* The audit log. *)

\* A row more, or a page more, keeps the types and what the client may expect.
LEMMA WriteKeeps ==
  ASSUME AuditTypeOK, AheadOfPager, PagesMissOnlyTies, Write
  PROVE  (AuditTypeOK /\ AheadOfPager /\ PagesMissOnlyTies)'
BY AuditAssumption DEF AuditAssumption, AuditTypeOK, AheadOfPager, PagesMissOnlyTies, Write

LEMMA PageKeeps ==
  ASSUME AuditTypeOK, AheadOfPager, PagesMissOnlyTies, NEW S, NextPage(S)
  PROVE  (AuditTypeOK /\ AheadOfPager /\ PagesMissOnlyTies)'
<1> DEFINE begins == pager.pc # "paging"
           before == IF begins THEN Start ELSE pager.before
           unseen == (IF begins THEN DOMAIN log ELSE pager.missing) \ S
<1>0. \A j \in DOMAIN log : log[j] \in 1..MaxTime
  <2> \A T, seq : seq \in Seq(T) => \A j \in DOMAIN seq : seq[j] \in T
    OBVIOUS
  <2> QED
    BY DEF AuditTypeOK
<1>1. S \subseteq Matching(before) /\ log' = log
  BY DEF NextPage, IsPage
<1>2. unseen \subseteq 1..MaxRecords /\ unseen \subseteq DOMAIN log
  BY AuditAssumption DEF AuditAssumption, AuditTypeOK, AheadOfPager
<1>3. unseen \subseteq Matching(before) \ S
  BY <1>2 DEF Matching, AheadOfPager, Start
<1>4. CASE Cardinality(S) = PageSize
  <2>1. PICK i \in DOMAIN log :
          /\ IsLast(i, S)
          /\ pager' = [pc |-> "paging", before |-> log[i],
                       missing |-> {j \in unseen : log[j] # log[i]}]
    BY <1>4 DEF NextPage
  <2>2. \A j \in unseen : log[i] >= log[j]
    BY <1>1, <1>3, <2>1 DEF NextPage, IsPage, IsLast
  <2>3. log[i] \in 1..MaxTime /\ \A j \in unseen : log[j] \in 1..MaxTime
    BY <1>0, <1>2
  <2>4. AuditTypeOK'
    BY <1>1, <1>2, <2>1, <2>3, AuditAssumption DEF AuditAssumption, AuditTypeOK
  <2>5. AheadOfPager' /\ PagesMissOnlyTies'
    BY <1>1, <1>2, <2>1, <2>2, <2>3, AuditAssumption DEF AuditAssumption, AheadOfPager, PagesMissOnlyTies
  <2> QED
    BY <2>4, <2>5
<1>5. CASE Cardinality(S) # PageSize
  <2>1. S = Matching(before)
    BY <1>5 DEF NextPage, IsPage
  <2>2. unseen = {}
    BY <1>3, <2>1
  <2>3. pager' = [pc |-> "end", before |-> Start, missing |-> {}]
    BY <1>5, <2>2 DEF NextPage
  <2> QED
    BY <1>1, <2>3, AuditAssumption
    DEF AuditAssumption, AuditTypeOK, AheadOfPager, PagesMissOnlyTies, Start
<1> QED
  BY <1>4, <1>5
-----------------------------------------------------------------------------
(* The tables and the requests, action by action. *)

SoundTypes ==
  /\ user \in [Users -> UserRow \cup {None}]
  /\ token \in [Tokens -> TokenRow \cup {None}]
  /\ unissued \subseteq Tokens
  /\ req \in [Requests -> Request]
  /\ change \in [Operators -> Users \cup {None}]
  /\ held \subseteq Tokens
  /\ out \subseteq Tokens
  /\ spoiled \subseteq Users

\* What the tables and the requests have of their types and of the invariant.
Sound ==
  /\ SoundTypes
  /\ Issued
  /\ RestsOnCurrent
  /\ SurvivorsWereInFlight
  /\ LoggedOutStaysOut

\* A request between two requests is a record like the others.
LEMMA IdleIsRequest == Idle \in Request
BY SessionsAssumption DEF SessionsAssumption, Idle, Request

\* A login begins on a password of now.
LEMMA LoginVerifiedKeeps ==
  ASSUME Sound, NEW r \in Requests, NEW u \in Users, LoginVerified(r, u)
  PROVE  Sound'
<1> DEFINE next == [Idle EXCEPT !.pc = "issue", !.user = u, !.gen = user[u].gen]
<1>0. user[u] \in UserRow /\ user[u] # None
  BY DEF Sound, SoundTypes, LoginVerified
<1>g. user[u].gen \in 0..MaxGen
  BY <1>0, SessionsAssumption DEF SessionsAssumption, UserRow
<1>r. /\ next \in Request /\ next.pc = "issue" /\ next.user = u
      /\ next.gen = user[u].gen
  BY <1>g, IdleIsRequest DEF Request
<1>1. req' = [req EXCEPT ![r] = next]
  BY DEF LoginVerified
<1> HIDE DEF next
<1>2. req'[r] = next /\ \A q \in Requests \ {r} : req'[q] = req[q]
  BY <1>1 DEF Sound, SoundTypes
<1>3. SoundTypes'
  BY <1>0, <1>r, <1>1, <1>2, SessionsAssumption DEF SessionsAssumption, Sound, SoundTypes, LoginVerified, tables, marks
<1>4. Issued'
  BY <1>0, <1>r, <1>1, <1>2, RowAssumption DEF RowAssumption, Sound, SoundTypes, Issued, LoginVerified, tables, marks
<1>5. RestsOnCurrent'
  BY <1>0, <1>r, <1>1, <1>2 DEF Sound, SoundTypes, RestsOnCurrent, Current, Settled, LoginVerified, tables, marks
<1>6. SurvivorsWereInFlight'
  BY <1>0, <1>r, <1>1, <1>2 DEF Sound, SoundTypes, Issued, SurvivorsWereInFlight, RestsOnCurrent, Current, Settled, LoginVerified, tables, marks
<1>7. LoggedOutStaysOut'
  BY <1>0, <1>r, <1>1, <1>2, RowAssumption DEF RowAssumption, Sound, SoundTypes, Issued, LoggedOutStaysOut, Usable, LoginVerified, tables, marks
<1> QED
  BY <1>3, <1>4, <1>5, <1>6, <1>7 DEF Sound

\* The session is accounted for as its request was.
LEMMA IssueSessionKeeps ==
  ASSUME Sound, NEW r \in Requests, NEW t \in Tokens, IssueSession(r, t)
  PROVE  Sound'
<1> DEFINE next == [Idle EXCEPT !.pc = "allow", !.token = t]
<1>1. /\ req[r].pc = "issue" /\ req[r] \in Request /\ req[r].user \in Users
      /\ token' = [token EXCEPT ![t] =
           [owner |-> req[r].user, gen |-> req[r].gen, late |-> req[r].late,
            session |-> TRUE, expired |-> FALSE]]
      /\ token'[t] \in TokenRow /\ \A v \in Tokens \ {t} : token'[v] = token[v]
  BY DEF Sound, SoundTypes, Issued, IssueSession, IssueToken, SessionRow, Request, TokenRow
<1>r. next \in Request /\ next.pc = "allow" /\ next.token = t
  BY IdleIsRequest DEF Request
<1>2. req' = [req EXCEPT ![r] = next]
  BY DEF IssueSession
<1> HIDE DEF next
<1>3. SoundTypes'
  BY <1>1, <1>r, <1>2, SessionsAssumption DEF SessionsAssumption, Sound, SoundTypes, IssueSession, IssueToken, marks
<1>4. Issued'
  BY <1>1, <1>r, <1>2, RowAssumption DEF RowAssumption, Sound, SoundTypes, Issued, IssueSession, IssueToken, marks
<1>5. RestsOnCurrent'
  BY <1>1, <1>r, <1>2 DEF Sound, SoundTypes, RestsOnCurrent, Current, Settled, IssueSession, IssueToken, marks
<1>6. SurvivorsWereInFlight'
  BY <1>1, <1>r, <1>2 DEF Sound, SoundTypes, Issued, SurvivorsWereInFlight, RestsOnCurrent, Current, Settled, IssueSession, IssueToken, marks
<1>7. LoggedOutStaysOut'
  BY <1>1, <1>r, <1>2, RowAssumption DEF RowAssumption, Sound, SoundTypes, Issued, LoggedOutStaysOut, Usable, IssueSession, IssueToken, marks
<1> QED
  BY <1>3, <1>4, <1>5, <1>6, <1>7 DEF Sound

\* A client is sent a token that was issued.
LEMMA AuditAllowKeeps ==
  ASSUME Sound, NEW r \in Requests, AuditAllow(r)
  PROVE  Sound'
BY SessionsAssumption, RowAssumption
DEF SessionsAssumption, RowAssumption, Sound, SoundTypes, Issued, RestsOnCurrent, Current, Settled,
    SurvivorsWereInFlight, LoggedOutStaysOut, Usable, Request, Idle, TokenRow, UserRow,
    AuditAllow, Answered, tables

\* A logout takes a token that is not usable for ended.
LEMMA LogoutKeeps ==
  ASSUME Sound, NEW r \in Requests, NEW t \in Tokens, Logout(r, t)
  PROVE  Sound'
<1>1. CASE Usable(t)
  <2> DEFINE next == [Idle EXCEPT !.pc = "revoke", !.token = t]
  <2>r. next \in Request /\ next.pc = "revoke" /\ next.token = t
    BY IdleIsRequest DEF Request
  <2>1. req' = [req EXCEPT ![r] = next]
    BY <1>1 DEF Logout
  <2> HIDE DEF next
  <2>2. UNCHANGED <<tables, change, marks>>
    BY <1>1 DEF Logout, marks
  <2>3. SoundTypes' /\ SurvivorsWereInFlight' /\ LoggedOutStaysOut'
    BY <2>r, <2>1, <2>2 DEF Sound, SoundTypes, SurvivorsWereInFlight, Settled, LoggedOutStaysOut, Usable, tables, marks
  <2>4. Issued'
    BY <2>r, <2>1, <2>2 DEF Sound, Issued, Logout, tables, marks
  <2>5. RestsOnCurrent'
    BY <2>r, <2>1, <2>2 DEF Sound, RestsOnCurrent, Current, Settled, tables, marks
  <2> QED
    BY <2>3, <2>4, <2>5 DEF Sound
<1>2. CASE ~Usable(t)
  <2>1. out' = out \cup {t} /\ UNCHANGED <<tables, req, change, held, spoiled>>
    BY <1>2 DEF Logout
  <2>2. SoundTypes' /\ SurvivorsWereInFlight' /\ RestsOnCurrent'
    BY <2>1 DEF Sound, SoundTypes, SurvivorsWereInFlight, Settled, RestsOnCurrent, Current, tables
  <2>3. Issued'
    BY <2>1 DEF Sound, Issued, Logout, tables
  <2>4. LoggedOutStaysOut'
    BY <1>2, <2>1 DEF Sound, LoggedOutStaysOut, Usable, tables
  <2> QED
    BY <2>2, <2>3, <2>4 DEF Sound
<1> QED
  BY <1>1, <1>2

\* A token whose row is deleted has been issued.
LEMMA LogoutRevokesKeeps ==
  ASSUME Sound, NEW r \in Requests, LogoutRevokes(r)
  PROVE  Sound'
BY SessionsAssumption, RowAssumption
DEF SessionsAssumption, RowAssumption, Sound, SoundTypes, Issued, RestsOnCurrent, Current, Settled,
    SurvivorsWereInFlight, LoggedOutStaysOut, Usable, Request, Idle, TokenRow, UserRow,
    LogoutRevokes, RevokeToken, Answered

\* A request is accounted for as its token is.
LEMMA RequireAuthKeeps ==
  ASSUME Sound, NEW r \in Requests, NEW t \in Tokens, requireAuth(r, t)
  PROVE  Sound'
BY SessionsAssumption, RowAssumption
DEF SessionsAssumption, RowAssumption, Sound, SoundTypes, Issued, RestsOnCurrent, Current, Settled,
    SurvivorsWereInFlight, LoggedOutStaysOut, Usable, Request, Idle, TokenRow, UserRow,
    requireAuth, tables, marks

\* A token of oneself is accounted for as the request is.
LEMMA CreateTokenKeeps ==
  ASSUME Sound, NEW r \in Requests, NEW u \in Users, NEW t \in Tokens, handleCreateToken(r, u, t)
  PROVE  Sound'
<1> DEFINE row == [owner   |-> u,
                   gen     |-> IF req[r].user = u THEN req[r].gen ELSE user[u].gen,
                   late    |-> req[r].user = u /\ req[r].late,
                   session |-> FALSE, expired |-> FALSE]
<1>1. /\ req[r].pc = "act"
      /\ user[u] # None
      /\ t \in unissued
      /\ unissued' = unissued \ {t}
      /\ token' = [token EXCEPT ![t] = row]
      /\ held' = held \cup {t}
      /\ req' = [req EXCEPT ![r] = Idle]
      /\ UNCHANGED <<user, change, out, spoiled>>
  BY DEF handleCreateToken, IssueToken, Answered
<1> QED
  BY <1>1, SessionsAssumption, RowAssumption
  DEF SessionsAssumption, RowAssumption, Sound, SoundTypes, Issued, RestsOnCurrent, Current, Settled,
      SurvivorsWereInFlight, LoggedOutStaysOut, Usable, Request, Idle, TokenRow, UserRow

\* A row less.
LEMMA RevokeTokenKeeps ==
  ASSUME Sound, NEW r \in Requests, NEW t \in Tokens, handleRevokeToken(r, t)
  PROVE  Sound'
BY SessionsAssumption, RowAssumption
DEF SessionsAssumption, RowAssumption, Sound, SoundTypes, Issued, RestsOnCurrent, Current, Settled,
    SurvivorsWereInFlight, LoggedOutStaysOut, Usable, Request, Idle, TokenRow, UserRow,
    handleRevokeToken, RevokeToken, Answered, marks

\* A new user has no token.
LEMMA CreateUserKeeps ==
  ASSUME Sound, NEW u \in Users, CreateUser(u), UNCHANGED <<token, unissued, change, marks>>,
         req' = req \/ \E r \in Requests : Answered(r)
  PROVE  Sound'
<1>1. /\ user[u] = None /\ user'[u] = [gen |-> 1, active |-> TRUE] /\ user'[u] \in UserRow
      /\ user' \in [Users -> UserRow \cup {None}]
      /\ \A v \in Users \ {u} : user'[v] = user[v]
  BY SessionsAssumption DEF SessionsAssumption, Sound, SoundTypes, CreateUser, UserRow
<1>2. /\ \A q \in Requests : req'[q] = req[q] \/ req'[q] = Idle
      /\ req' \in [Requests -> Request]
      /\ UNCHANGED <<token, unissued, change, marks>>
  <2>1. Idle \in Request /\ req \in [Requests -> Request]
    BY SessionsAssumption DEF SessionsAssumption, Sound, SoundTypes, Idle, Request
  <2>2. CASE req' = req
    BY <2>1, <2>2
  <2>3. CASE \E r \in Requests : Answered(r)
    BY <2>1, <2>3 DEF Answered
  <2> QED
    BY <2>2, <2>3
<1>3. SoundTypes'
  BY <1>1, <1>2, SessionsAssumption DEF SessionsAssumption, Sound, SoundTypes, Idle, TokenRow, marks
<1>4. Issued'
  BY <1>1, <1>2, RowAssumption DEF RowAssumption, Sound, SoundTypes, Issued, Idle, TokenRow, marks
<1>5. RestsOnCurrent'
  <2> SUFFICES ASSUME NEW q \in Requests, req'[q].pc \in {"issue", "act"}
               PROVE  \/ req'[q].gen = user'[req'[q].user].gen
                      \/ req'[q].late
                      \/ ~Settled(req[q].user)'
    BY <1>2 DEF RestsOnCurrent, Current, Idle
  <2>1. req'[q] = req[q]
    BY <1>2 DEF Idle
  <2>2. req[q].user \in Users /\ user[req[q].user] # None /\ Current(req[q].user, req[q].gen, req[q].late)
    BY <2>1 DEF Sound, Issued, RestsOnCurrent
  <2>3. user'[req[q].user].gen = user[req[q].user].gen
    BY <1>1, <2>2
  <2> QED
    BY <1>2, <2>1, <2>2, <2>3 DEF Current, Settled, marks
<1>6. SurvivorsWereInFlight'
  BY <1>1, <1>2 DEF Sound, SoundTypes, Issued, SurvivorsWereInFlight, RestsOnCurrent, Current, Settled, Idle, TokenRow, marks
<1>7. LoggedOutStaysOut'
  BY <1>1, <1>2, RowAssumption DEF RowAssumption, Sound, SoundTypes, Issued, LoggedOutStaysOut, Usable, Idle, TokenRow, marks
<1> QED
  BY <1>3, <1>4, <1>5, <1>6, <1>7 DEF Sound

\* No token becomes usable.
LEMMA DeactivateUserKeeps ==
  ASSUME Sound, NEW r \in Requests, NEW u \in Users, handleDeactivateUser(r, u)
  PROVE  Sound'
<1>1. /\ user' \in [Users -> UserRow \cup {None}]
      /\ \A v \in Users :
           /\ user'[v] = None <=> user[v] = None
           /\ user[v] # None => user'[v].gen = user[v].gen /\ (user'[v].active => user[v].active)
  BY RowAssumption DEF RowAssumption, Sound, SoundTypes, handleDeactivateUser, DeactivateUser, UserRow
<1>2. /\ \A q \in Requests : req'[q] = req[q] \/ req'[q] = Idle
      /\ req' \in [Requests -> Request]
      /\ UNCHANGED <<token, unissued, change, marks>>
  BY SessionsAssumption DEF SessionsAssumption, Sound, SoundTypes, handleDeactivateUser, Answered, Idle, Request
<1>3. SoundTypes'
  BY <1>1, <1>2, SessionsAssumption DEF SessionsAssumption, Sound, SoundTypes, Idle, TokenRow, marks
<1>4. Issued'
  BY <1>1, <1>2, RowAssumption DEF RowAssumption, Sound, SoundTypes, Issued, Idle, TokenRow, marks
<1>5. RestsOnCurrent'
  <2> SUFFICES ASSUME NEW q \in Requests, req'[q].pc \in {"issue", "act"}
               PROVE  \/ req'[q].gen = user'[req'[q].user].gen
                      \/ req'[q].late
                      \/ ~Settled(req[q].user)'
    BY <1>2 DEF RestsOnCurrent, Current, Idle
  <2>1. req'[q] = req[q]
    BY <1>2 DEF Idle
  <2>2. req[q].user \in Users /\ user[req[q].user] # None /\ Current(req[q].user, req[q].gen, req[q].late)
    BY <2>1 DEF Sound, Issued, RestsOnCurrent
  <2>3. user'[req[q].user].gen = user[req[q].user].gen
    BY <1>1, <2>2
  <2> QED
    BY <1>2, <2>1, <2>2, <2>3 DEF Current, Settled, marks
<1>6. SurvivorsWereInFlight'
  BY <1>1, <1>2 DEF Sound, SoundTypes, Issued, SurvivorsWereInFlight, RestsOnCurrent, Current, Settled, Idle, TokenRow, marks
<1>7. LoggedOutStaysOut'
  BY <1>1, <1>2, RowAssumption DEF RowAssumption, Sound, SoundTypes, Issued, LoggedOutStaysOut, Usable, Idle, TokenRow, marks
<1> QED
  BY <1>3, <1>4, <1>5, <1>6, <1>7 DEF Sound

\* A request is over and the tables stay.
LEMMA AnsweredKeeps ==
  ASSUME Sound, NEW r \in Requests, Answered(r), UNCHANGED <<tables, change, marks>>
  PROVE  Sound'
BY SessionsAssumption, RowAssumption
DEF SessionsAssumption, RowAssumption, Sound, SoundTypes, Issued, RestsOnCurrent, Current, Settled,
    SurvivorsWereInFlight, LoggedOutStaysOut, Usable, Request, Idle, TokenRow, UserRow,
    Answered, tables, marks

\* From now on a deletion is to come.
LEMMA SetPasswordKeeps ==
  ASSUME Sound, NEW o \in Operators, NEW u \in Users, SetPassword(o, u)
  PROVE  Sound'
BY SessionsAssumption, RowAssumption
DEF SessionsAssumption, RowAssumption, Sound, SoundTypes, Issued, RestsOnCurrent, Current, Settled,
    SurvivorsWereInFlight, LoggedOutStaysOut, Usable, Request, Idle, TokenRow, UserRow,
    SetPassword, marks

\* The tokens go, and the requests under way are late.
LEMMA DeleteTokensKeeps ==
  ASSUME Sound, NEW o \in Operators, DeleteTokens(o)
  PROVE  Sound'
<1>1. PICK u \in Users :
        /\ change[o] = u
        /\ change' = [change EXCEPT ![o] = None]
        /\ spoiled' = spoiled \ {u}
        /\ UNCHANGED <<user, unissued, held, out>>
        /\ token' \in [Tokens -> TokenRow \cup {None}]
        /\ \A t \in Tokens :
             token'[t] # None => token'[t] = token[t] /\ token[t].owner # u
  BY DEF Sound, SoundTypes, DeleteTokens
<1>2. /\ req' \in [Requests -> Request]
      /\ \A q \in Requests :
           /\ req'[q].pc = req[q].pc /\ req'[q].user = req[q].user
           /\ req'[q].gen = req[q].gen /\ req'[q].token = req[q].token
           /\ req[q].late => req'[q].late
           /\ req[q].pc \in {"issue", "act"} /\ req[q].user = change[o] => req'[q].late
  BY DEF Sound, SoundTypes, DeleteTokens, ActingFor, Request
<1>3. SoundTypes'
  BY <1>1, <1>2, SessionsAssumption DEF SessionsAssumption, Sound, SoundTypes, TokenRow
<1>4. Issued'
  BY <1>1, <1>2, RowAssumption DEF RowAssumption, Sound, SoundTypes, Issued, TokenRow
<1>5. RestsOnCurrent'
  BY <1>1, <1>2 DEF Sound, SoundTypes, RestsOnCurrent, Current, Settled, TokenRow
<1>6. SurvivorsWereInFlight'
  BY <1>1, <1>2 DEF Sound, SoundTypes, Issued, SurvivorsWereInFlight, RestsOnCurrent, Current, Settled, TokenRow
<1>7. LoggedOutStaysOut'
  BY <1>1, <1>2, RowAssumption DEF RowAssumption, Sound, SoundTypes, Issued, LoggedOutStaysOut, Usable, TokenRow
<1> QED
  BY <1>3, <1>4, <1>5, <1>6, <1>7 DEF Sound

\* The user is spoiled.
LEMMA DeleteTokensFailsKeeps ==
  ASSUME Sound, NEW o \in Operators, DeleteTokensFails(o)
  PROVE  Sound'
BY SessionsAssumption, RowAssumption
DEF SessionsAssumption, RowAssumption, Sound, SoundTypes, Issued, RestsOnCurrent, Current, Settled,
    SurvivorsWereInFlight, LoggedOutStaysOut, Usable, Request, Idle, TokenRow, UserRow,
    DeleteTokensFails, Fault, tables

\* An expired token is not usable.
LEMMA ExpireKeeps ==
  ASSUME Sound, NEW t \in Tokens, Expire(t)
  PROVE  Sound'
<1> DEFINE row == [token[t] EXCEPT !.expired = TRUE]
<1>0. token[t] # None /\ token[t] \in TokenRow
  BY DEF Sound, SoundTypes, Expire
<1>r. /\ row \in TokenRow /\ row.owner = token[t].owner /\ row.gen = token[t].gen
      /\ row.late = token[t].late /\ row.expired
  BY <1>0 DEF TokenRow
<1>1. token' = [token EXCEPT ![t] = row]
  BY DEF Expire
<1> HIDE DEF row
<1>2. /\ UNCHANGED <<user, unissued, req, change, marks>>
      /\ token'[t] = row /\ \A v \in Tokens \ {t} : token'[v] = token[v]
  BY <1>1 DEF Expire, Sound, SoundTypes
<1>3. SoundTypes'
  BY <1>0, <1>r, <1>1, <1>2, SessionsAssumption DEF SessionsAssumption, Sound, SoundTypes, TokenRow, marks
<1>4. Issued'
  BY <1>0, <1>r, <1>1, <1>2, RowAssumption DEF RowAssumption, Sound, SoundTypes, Issued, TokenRow, marks
<1>5. RestsOnCurrent'
  BY <1>0, <1>r, <1>1, <1>2 DEF Sound, SoundTypes, RestsOnCurrent, Current, Settled, TokenRow, marks
<1>6. SurvivorsWereInFlight'
  BY <1>0, <1>r, <1>1, <1>2 DEF Sound, SoundTypes, Issued, SurvivorsWereInFlight, RestsOnCurrent, Current, Settled, TokenRow, marks
<1>7. LoggedOutStaysOut'
  BY <1>0, <1>r, <1>1, <1>2, RowAssumption DEF RowAssumption, Sound, SoundTypes, Issued, LoggedOutStaysOut, Usable, TokenRow, marks
<1> QED
  BY <1>3, <1>4, <1>5, <1>6, <1>7 DEF Sound

\* Nothing is under way.
LEMMA CrashKeeps ==
  ASSUME Sound, Crash
  PROVE  Sound'
BY SessionsAssumption, RowAssumption
DEF SessionsAssumption, RowAssumption, Sound, SoundTypes, Issued, RestsOnCurrent, Current, Settled,
    SurvivorsWereInFlight, LoggedOutStaysOut, Usable, Request, Idle, TokenRow, UserRow,
    Crash, tables, marks

-----------------------------------------------------------------------------
(* The whole. *)

\* The audit log and its client.
AuditSound == AuditTypeOK /\ AheadOfPager /\ PagesMissOnlyTies

SessionInv == Sound /\ AuditSound /\ faults \in 0..MaxFaults

LEMMA InitSound == Init => SessionInv
<1> SUFFICES ASSUME Init PROVE SessionInv
  OBVIOUS
<1>1. Sound
  BY IdleIsRequest
  DEF Init, Sound, SoundTypes, Issued, RestsOnCurrent, SurvivorsWereInFlight, LoggedOutStaysOut, Idle
<1>2. AuditSound
  BY AuditAssumption
  DEF AuditAssumption, Init, AuditInit, NoPager, Start, AuditSound, AuditTypeOK, AheadOfPager, PagesMissOnlyTies
<1> QED
  BY <1>1, <1>2, SessionsAssumption DEF SessionsAssumption, Init, SessionInv

\* A step that leaves the audit log alone, or adds to it, or takes a page of it.
LEMMA AuditStepKeeps ==
  ASSUME AuditSound,
         \/ UNCHANGED auditVars
         \/ Write
         \/ \E r \in Requests : handleListAudit(r)
  PROVE  AuditSound'
<1>1. CASE UNCHANGED auditVars
  BY <1>1 DEF auditVars, AuditSound, AuditTypeOK, AheadOfPager, PagesMissOnlyTies
<1>2. CASE Write
  BY <1>2, WriteKeeps DEF AuditSound
<1>3. CASE \E r \in Requests : handleListAudit(r)
  <2>1. PICK S : NextPage(S)
    BY <1>3 DEF handleListAudit
  <2> QED
    BY <2>1, PageKeeps DEF AuditSound
<1> QED
  BY <1>1, <1>2, <1>3

\* A step counts its fault, if it has one.
LEMMA FaultKeeps ==
  ASSUME faults \in 0..MaxFaults, UNCHANGED faults \/ Fault
  PROVE  faults' \in 0..MaxFaults
BY SessionsAssumption DEF SessionsAssumption, Fault

\* Every step of a login.
LEMMA LoginKeeps ==
  ASSUME SessionInv, NEW r \in Requests, Login(r)
  PROVE  SessionInv'
<1>1. UNCHANGED auditVars \/ Write
  BY DEF Login, LoginVerified, LoginDenied, IssueSession, IssueSessionFails, AuditAllow
<1>2. UNCHANGED faults \/ Fault
  BY DEF Login, LoginVerified, LoginDenied, IssueSession, IssueSessionFails, AuditAllow
<1>3. Sound'
  <2>1. CASE \E u \in Users : LoginVerified(r, u)
    BY <2>1, LoginVerifiedKeeps DEF SessionInv
  <2>2. CASE LoginDenied(r)
    BY <2>2
    DEF SessionInv, LoginDenied, Sound, SoundTypes, Issued, RestsOnCurrent, Current, Settled,
        SurvivorsWereInFlight, LoggedOutStaysOut, Usable, tables, marks
  <2>3. CASE \E t \in Tokens : IssueSession(r, t)
    BY <2>3, IssueSessionKeeps DEF SessionInv
  <2>4. CASE IssueSessionFails(r)
    BY <2>4, AnsweredKeeps DEF SessionInv, IssueSessionFails
  <2>5. CASE AuditAllow(r)
    BY <2>5, AuditAllowKeeps DEF SessionInv
  <2> QED
    BY <2>1, <2>2, <2>3, <2>4, <2>5 DEF Login
<1> QED
  BY <1>1, <1>2, <1>3, AuditStepKeeps, FaultKeeps DEF SessionInv

\* Every step of a logout.
LEMMA LogoutStepKeeps ==
  ASSUME SessionInv, NEW r \in Requests, LogoutStep(r)
  PROVE  SessionInv'
<1>1. UNCHANGED auditVars /\ (UNCHANGED faults \/ Fault)
  BY DEF LogoutStep, Logout, LogoutRevokes, LogoutFails
<1>2. Sound'
  <2>1. CASE \E t \in Tokens : Logout(r, t)
    BY <2>1, LogoutKeeps DEF SessionInv
  <2>2. CASE LogoutRevokes(r)
    BY <2>2, LogoutRevokesKeeps DEF SessionInv
  <2>3. CASE LogoutFails(r)
    BY <2>3, AnsweredKeeps DEF SessionInv, LogoutFails
  <2> QED
    BY <2>1, <2>2, <2>3 DEF LogoutStep
<1> QED
  BY <1>1, <1>2, AuditStepKeeps, FaultKeeps DEF SessionInv

\* Every step of a request behind requireAuth.
LEMMA HandleKeeps ==
  ASSUME SessionInv, NEW r \in Requests, Handle(r)
  PROVE  SessionInv'
<1>1. UNCHANGED auditVars \/ handleListAudit(r)
  BY DEF Handle, requireAuth, handleCreateToken, handleRevokeToken, handleCreateUser,
         handleDeactivateUser, AnswerUnchanged
<1>2. UNCHANGED faults
  BY DEF Handle, requireAuth, handleCreateToken, handleRevokeToken, handleCreateUser,
         handleDeactivateUser, handleListAudit, AnswerUnchanged
<1>3. Sound'
  <2>1. ASSUME NEW t \in Tokens, requireAuth(r, t) PROVE Sound'
    BY <2>1, RequireAuthKeeps DEF SessionInv
  <2>2. ASSUME NEW t \in Tokens, NEW u \in Users, handleCreateToken(r, u, t) PROVE Sound'
    BY <2>2, CreateTokenKeeps DEF SessionInv
  <2>3. ASSUME NEW t \in Tokens, handleRevokeToken(r, t) PROVE Sound'
    BY <2>3, RevokeTokenKeeps DEF SessionInv
  <2>4. ASSUME NEW u \in Users, handleDeactivateUser(r, u) PROVE Sound'
    BY <2>4, DeactivateUserKeeps DEF SessionInv
  <2>5. ASSUME NEW u \in Users, handleCreateUser(r, u) PROVE Sound'
    BY <2>5, CreateUserKeeps DEF SessionInv, handleCreateUser
  <2>6. CASE handleListAudit(r)
    BY <2>6, AnsweredKeeps DEF SessionInv, handleListAudit
  <2>7. CASE AnswerUnchanged(r)
    BY <2>7, AnsweredKeeps DEF SessionInv, AnswerUnchanged
  <2> QED
    BY <2>1, <2>2, <2>3, <2>4, <2>5, <2>6, <2>7 DEF Handle
<1> QED
  BY <1>1, <1>2, <1>3, AuditStepKeeps, FaultKeeps DEF SessionInv

\* Every statement of a command.
LEMMA CommandKeeps ==
  ASSUME SessionInv, Command
  PROVE  SessionInv'
<1>1. UNCHANGED auditVars /\ (UNCHANGED faults \/ Fault)
  BY DEF Command, runUsersAdd, SetPassword, DeleteTokens, DeleteTokensFails
<1>2. Sound'
  <2>1. ASSUME NEW u \in Users, runUsersAdd(u) PROVE Sound'
    BY <2>1, CreateUserKeeps DEF SessionInv, runUsersAdd
  <2>2. ASSUME NEW o \in Operators, NEW u \in Users, SetPassword(o, u) PROVE Sound'
    BY <2>2, SetPasswordKeeps DEF SessionInv
  <2>3. ASSUME NEW o \in Operators, DeleteTokens(o) PROVE Sound'
    BY <2>3, DeleteTokensKeeps DEF SessionInv
  <2>4. ASSUME NEW o \in Operators, DeleteTokensFails(o) PROVE Sound'
    BY <2>4, DeleteTokensFailsKeeps DEF SessionInv
  <2> QED
    BY <2>1, <2>2, <2>3, <2>4 DEF Command
<1> QED
  BY <1>1, <1>2, AuditStepKeeps, FaultKeeps DEF SessionInv

LEMMA StepKeeps == SessionInv /\ [Next]_vars => SessionInv'
<1> SUFFICES ASSUME SessionInv, [Next]_vars PROVE SessionInv'
  OBVIOUS
<1>1. ASSUME NEW r \in Requests, Login(r) \/ LogoutStep(r) \/ Handle(r) PROVE SessionInv'
  BY <1>1, LoginKeeps, LogoutStepKeeps, HandleKeeps
<1>2. CASE Command
  BY <1>2, CommandKeeps
<1>3. ASSUME NEW t \in Tokens, Expire(t) PROVE SessionInv'
  <2>1. UNCHANGED auditVars /\ UNCHANGED faults
    BY <1>3 DEF Expire
  <2> QED
    BY <1>3, <2>1, ExpireKeeps, AuditStepKeeps DEF SessionInv
<1>4. CASE Crash
  <2>1. UNCHANGED auditVars /\ Fault
    BY <1>4 DEF Crash
  <2> QED
    BY <1>4, <2>1, CrashKeeps, AuditStepKeeps, FaultKeeps DEF SessionInv
<1>5. CASE UNCHANGED vars
  BY <1>5
  DEF vars, SessionInv, Sound, SoundTypes, Issued, RestsOnCurrent, Current, Settled,
      SurvivorsWereInFlight, LoggedOutStaysOut, Usable, tables, marks,
      auditVars, AuditSound, AuditTypeOK, AheadOfPager, PagesMissOnlyTies
<1> QED
  BY <1>1, <1>2, <1>3, <1>4, <1>5 DEF Next

\* The invariant, from which the theorems follow.
LEMMA SessionInvariant == Spec => []SessionInv
BY InitSound, StepKeeps, PTL DEF Spec

-----------------------------------------------------------------------------
(* Theorems. *)

\* Every variable has its type, and the counters stay within their bounds.
THEOREM TypeCorrect == Spec => []TypeOK
<1>1. SessionInv => TypeOK
  BY DEF SessionInv, Sound, SoundTypes, AuditSound, TypeOK
<1> QED
  BY <1>1, SessionInvariant, PTL

\* However many logins, token requests and changes of password run at once, a
\* token left on an older password came from a request that verified it before
\* the deletion of the user's tokens, or that deletion failed or is to come.
THEOREM SurvivorsWereInFlightAlways == Spec => []SurvivorsWereInFlight
<1>1. SessionInv => SurvivorsWereInFlight
  BY DEF SessionInv, Sound
<1> QED
  BY <1>1, SessionInvariant, PTL

\* A token that was logged out is never accepted again.
THEOREM LoggedOutStaysOutAlways == Spec => []LoggedOutStaysOut
<1>1. SessionInv => LoggedOutStaysOut
  BY DEF SessionInv, Sound
<1> QED
  BY <1>1, SessionInvariant, PTL

\* Whatever the size of a page, paging misses no row of the log but for rows of
\* a cursor's own time.
THEOREM PagesMissOnlyTiesAlways == Spec => []PagesMissOnlyTies
<1>1. SessionInv => PagesMissOnlyTies
  BY DEF SessionInv, AuditSound
<1> QED
  BY <1>1, SessionInvariant, PTL
=============================================================================
