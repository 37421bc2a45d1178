------------------------------ MODULE Accounts ------------------------------
(***************************************************************************)
(* Registration, login and the guarded routes of the service.  Requests    *)
(* run side by side: every query and hash is awaited, and other requests   *)
(* act in between.  Two registrations of one address may both find no user *)
(* before either creates it; what stops the second is the unique index of  *)
(* user.email, whose error is no HttpException.                            *)
(*                                                                         *)
(* Passwords and DTO validation are left out: every login gives the        *)
(* account's password.  So is the check of uploadLimit at login, which     *)
(* nothing writes, and the login counter, which login writes back as read. *)
(***************************************************************************)
EXTENDS Naturals, FiniteSets

CONSTANTS
  Emails,        \* addresses
  Registrations, Logins, Visits,   \* requests to register, to log in, to a guarded route
  EmailOf,       \* the address each request is about
  MaxCrashes,    \* bound: exits of the service
  MaxFailures    \* bound: queries that fail

Requests == Registrations \cup Logins \cup Visits

ASSUME AccountsAssumption ==
  /\ IsFiniteSet(Emails) /\ IsFiniteSet(Requests)
  /\ Registrations \cap Logins = {} /\ Visits \cap (Registrations \cup Logins) = {}
  /\ EmailOf \in [Requests -> Emails]
  /\ MaxCrashes \in Nat /\ MaxFailures \in Nat

VARIABLES
  users,     \* addresses with a row in user
  stage,     \* where each request is
  answer,    \* the status code it was answered with, or 0
  cookies,   \* addresses whose client holds a valid token cookie
  crashes, failures,
  preceded   \* history: logins begun after a registration of their address was answered 201

vars == <<users, stage, answer, cookies, crashes, failures, preceded>>

\* A request that waits for its answer is at one of these stages.
Awaiting == {"lookup", "hash", "create", "count", "respond", "throw"}
Stages == {"idle", "over"} \cup Awaiting
Codes == {0, 200, 201, 400, 401, 404, 500}

Init ==
  /\ users = {}
  /\ stage = [r \in Requests |-> "idle"]
  /\ answer = [r \in Requests |-> 0]
  /\ cookies = {}
  /\ crashes = 0 /\ failures = 0
  /\ preceded = {}

Welcomed(e) == \E r \in Registrations : EmailOf[r] = e /\ answer[r] = 201

Goes(r, from, to) == stage[r] = from /\ stage' = [stage EXCEPT ![r] = to]

\* The reply of the handler, or of CatchEverythingFilter for what it throws.
Reply(r, from, code) == Goes(r, from, "over") /\ answer' = [answer EXCEPT ![r] = code]

\* A client sends its request.
Ask(r) ==
  /\ Goes(r, "idle", "lookup")
  /\ preceded' = IF r \in Logins /\ Welcomed(EmailOf[r]) THEN preceded \cup {r} ELSE preceded
  /\ UNCHANGED <<users, answer, cookies, crashes, failures>>

\* findUserByEmail, and what each handler makes of its result.
FindsNew(r) ==
  /\ r \in Registrations /\ EmailOf[r] \notin users
  /\ Goes(r, "lookup", "hash")
  /\ UNCHANGED <<users, answer, cookies, crashes, failures, preceded>>

FindsRegistered(r) ==
  /\ r \in Registrations /\ EmailOf[r] \in users
  /\ Reply(r, "lookup", 400)
  /\ UNCHANGED <<users, cookies, crashes, failures, preceded>>

FindsUser(r) ==
  /\ r \in Logins /\ EmailOf[r] \in users
  /\ Goes(r, "lookup", "hash")
  /\ UNCHANGED <<users, answer, cookies, crashes, failures, preceded>>

FindsNoUser(r) ==
  /\ r \in Logins /\ EmailOf[r] \notin users
  /\ Reply(r, "lookup", 404)
  /\ UNCHANGED <<users, cookies, crashes, failures, preceded>>

\* Where a request goes from the hash: to createUser or to updateRateLimits
\* (mutant: neither is awaited).
AfterHashAtOnce(r) == "respond"
AfterHash(r) == IF r \in Registrations THEN "create" ELSE "count"

Hash(r) ==
  /\ Goes(r, "hash", AfterHash(r))
  /\ UNCHANGED <<users, answer, cookies, crashes, failures, preceded>>

\* The unique index refuses a second row (mutant: there is no index).
NeverTaken(r) == FALSE
Taken(r) == EmailOf[r] \in users

\* A row that is refused is a PrismaClientKnownRequestError (mutant: a handler
\* swallows it and never replies).
IndexErrorSwallowed(r) == Goes(r, "create", "hung")
IndexError(r) == Goes(r, "create", "throw")

CreateUser(r) ==
  /\ \/ ~ Taken(r) /\ Goes(r, "create", "respond") /\ users' = users \cup {EmailOf[r]}
     \/ Taken(r) /\ IndexError(r) /\ UNCHANGED users
  /\ UNCHANGED <<answer, cookies, crashes, failures, preceded>>

\* updateRateLimits writes the counter a login has read, unchanged.
UpdateRateLimits(r) ==
  /\ Goes(r, "count", "respond")
  /\ UNCHANGED <<users, answer, cookies, crashes, failures, preceded>>

\* A query fails, CREATE perhaps after it has committed.
QueryFails(r) ==
  /\ failures < MaxFailures
  /\ failures' = failures + 1
  /\ \/ r \notin Visits /\ Goes(r, "lookup", "throw") /\ UNCHANGED users
     \/ Goes(r, "create", "throw") /\ users' \in {users, users \cup {EmailOf[r]}}
     \/ Goes(r, "count", "throw") /\ UNCHANGED users
  /\ UNCHANGED <<answer, cookies, crashes, preceded>>

\* CatchEverythingFilter answers 500 to what is no HttpException.
CatchOther(r) ==
  /\ Reply(r, "throw", 500)
  /\ UNCHANGED <<users, cookies, crashes, failures, preceded>>

\* sign, setCookie and the reply, without an await: the client has both at once.
Respond(r) ==
  /\ Reply(r, "respond", IF r \in Registrations THEN 201 ELSE 200)
  /\ cookies' = cookies \cup {EmailOf[r]}
  /\ UNCHANGED <<users, crashes, failures, preceded>>

\* AuthGuard lets a visit with a valid cookie through, and refuses others.
Guard(r) ==
  /\ r \in Visits
  /\ Reply(r, "lookup", IF EmailOf[r] \in cookies THEN 200 ELSE 401)
  /\ UNCHANGED <<users, cookies, crashes, failures, preceded>>

\* The cookie's hour is over.
Expire(e) ==
  /\ e \in cookies
  /\ cookies' = cookies \ {e}
  /\ UNCHANGED <<users, stage, answer, crashes, failures, preceded>>

\* The service exits: requests in progress get no answer.
Crash ==
  /\ crashes < MaxCrashes
  /\ crashes' = crashes + 1
  /\ stage' = [r \in Requests |-> IF stage[r] \in Awaiting THEN "over" ELSE stage[r]]
  /\ UNCHANGED <<users, answer, cookies, failures, preceded>>

Handle(r) ==
  \/ FindsNew(r)
  \/ FindsRegistered(r)
  \/ FindsUser(r)
  \/ FindsNoUser(r)
  \/ Hash(r)
  \/ CreateUser(r)
  \/ UpdateRateLimits(r)
  \/ CatchOther(r)
  \/ Respond(r)
  \/ Guard(r)

Next ==
  \/ \E r \in Requests : Ask(r) \/ Handle(r) \/ QueryFails(r)
  \/ \E e \in Emails : Expire(e)
  \/ Crash

Spec == Init /\ [][Next]_vars

\* Queries, hashes and replies end; clients need not ask.
FairSpec == Spec /\ \A r \in Requests : WF_vars(Handle(r))

-----------------------------------------------------------------------------
(* Properties.                                                             *)

\* Every variable keeps its type, a request with an answer is over (no handler
\* replies twice), and a visit neither hashes nor writes.
TypeOK ==
  /\ users \subseteq Emails /\ cookies \subseteq Emails
  /\ stage \in [Requests -> Stages]
  /\ answer \in [Requests -> Codes]
  /\ crashes \in 0 .. MaxCrashes /\ failures \in 0 .. MaxFailures
  /\ preceded \subseteq Logins
  /\ \A r \in Requests : answer[r] # 0 => stage[r] = "over"
  /\ \A v \in Visits : stage[v] \in {"idle", "lookup", "over"}

\* However registrations of one address overlap, at most one is answered 201
\* (the unique index behind the lookup of AuthController.register).
OneWelcomePerAddress ==
  \A r, q \in Registrations :
    answer[r] = 201 /\ answer[q] = 201 /\ EmailOf[r] = EmailOf[q] => r = q

\* A client told 201 can log in: a login begun after it is never told that there
\* is no user, and a visit let through has a user behind it.
WelcomedAreKnown ==
  /\ \A l \in preceded : answer[l] # 404
  /\ \A v \in Visits : answer[v] = 200 => EmailOf[v] \in users

\* Every request is answered or cut off by a crash, also the registration that
\* loses the race for its address and those whose query fails.
EveryRequestEnds == \A r \in Requests : stage[r] = "lookup" ~> stage[r] = "over"
=============================================================================
