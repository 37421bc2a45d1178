--------------------------- MODULE AccountsProofs ---------------------------
(***************************************************************************)
(* Theorems about Accounts for every set of addresses and requests and     *)
(* every number of crashes and failed queries.                             *)
(***************************************************************************)
EXTENDS Accounts, TLAPS

\* Codes and stages are what they seem.
LEMMA TypeInit == Init => TypeOK
BY AccountsAssumption DEF Init, TypeOK, Stages, Awaiting, Codes, Requests

\* Every step keeps the types.
LEMMA TypeStep == TypeOK /\ [Next]_vars => TypeOK'
<1> SUFFICES ASSUME TypeOK, [Next]_vars PROVE TypeOK'
  OBVIOUS
<1> USE AccountsAssumption DEF TypeOK, Stages, Awaiting, Codes, Requests, Goes, Reply
<1>1. ASSUME NEW r \in Requests, Ask(r) PROVE TypeOK'
  BY <1>1 DEF Ask
<1>2. ASSUME NEW r \in Requests, FindsNew(r) PROVE TypeOK'
  BY <1>2 DEF FindsNew
<1>3. ASSUME NEW r \in Requests, FindsRegistered(r) PROVE TypeOK'
  BY <1>3 DEF FindsRegistered
<1>4. ASSUME NEW r \in Requests, FindsUser(r) PROVE TypeOK'
  BY <1>4 DEF FindsUser
<1>5. ASSUME NEW r \in Requests, FindsNoUser(r) PROVE TypeOK'
  BY <1>5 DEF FindsNoUser
<1>6. ASSUME NEW r \in Requests, Hash(r) PROVE TypeOK'
  BY <1>6 DEF Hash, AfterHash
<1>7. ASSUME NEW r \in Requests, CreateUser(r) PROVE TypeOK'
  <2>1. EmailOf[r] \in Emails
    OBVIOUS
  <2> QED BY <1>7, <2>1 DEF CreateUser, Taken, IndexError
<1>8. ASSUME NEW r \in Requests, QueryFails(r) PROVE TypeOK'
  <2>1. EmailOf[r] \in Emails
    OBVIOUS
  <2> QED BY <1>8, <2>1 DEF QueryFails
<1>9. ASSUME NEW r \in Requests, CatchOther(r) PROVE TypeOK'
  BY <1>9 DEF CatchOther
<1>10. ASSUME NEW r \in Requests, Respond(r) PROVE TypeOK'
  <2>1. EmailOf[r] \in Emails
    OBVIOUS
  <2> QED BY <1>10, <2>1 DEF Respond
<1>11. ASSUME NEW r \in Requests, Guard(r) PROVE TypeOK'
  BY <1>11 DEF Guard
<1>12. ASSUME NEW e \in Emails, Expire(e) PROVE TypeOK'
  BY <1>12 DEF Expire
<1>13. CASE Crash
  BY <1>13 DEF Crash
<1>14. CASE UNCHANGED vars
  BY <1>14 DEF vars
<1>15. ASSUME NEW r \in Requests, UpdateRateLimits(r) PROVE TypeOK'
  BY <1>15 DEF UpdateRateLimits
<1> QED
  BY <1>1, <1>2, <1>3, <1>4, <1>5, <1>6, <1>7, <1>8, <1>9, <1>10, <1>11, <1>12, <1>13,
     <1>14, <1>15 DEF Next, Handle

\* Every variable keeps its type and no request is answered twice.
THEOREM TypeCorrect == Spec => []TypeOK
BY TypeInit, TypeStep, PTL DEF Spec

-----------------------------------------------------------------------------
(* Safety.                                                                 *)

\* A registration has created its user and is answered 201, or soon will be.
Won(r) == stage[r] = "respond" \/ answer[r] = 201

\* Who has won has a row, and is the only one for its address; so has every
\* login past its lookup, every cookie, and every address welcomed before a login.
WelcomeFacts ==
  /\ \A r \in Registrations : Won(r) => EmailOf[r] \in users
  /\ \A r, q \in Registrations : Won(r) /\ Won(q) /\ EmailOf[r] = EmailOf[q] => r = q
  /\ \A l \in Logins : stage[l] \in {"hash", "count", "respond"} => EmailOf[l] \in users
  /\ \A l \in Logins : stage[l] # "create" /\ answer[l] # 201
  /\ \A r \in Registrations : stage[r] # "count"
  /\ cookies \subseteq users
  /\ \A l \in preceded : EmailOf[l] \in users
  /\ WelcomedAreKnown

IInv == TypeOK /\ WelcomeFacts

\* The facts survive every step.
LEMMA WelcomeStep == TypeOK /\ WelcomeFacts /\ [Next]_vars => WelcomeFacts'
<1> SUFFICES ASSUME TypeOK, WelcomeFacts, [Next]_vars PROVE WelcomeFacts'
  OBVIOUS
<1> USE AccountsAssumption
    DEF TypeOK, WelcomeFacts, WelcomedAreKnown, Won, Requests, Goes, Reply, Codes
<1>1. ASSUME NEW r \in Requests, Ask(r) PROVE WelcomeFacts'
  BY <1>1 DEF Ask, Welcomed
<1>2. ASSUME NEW r \in Requests, FindsNew(r) PROVE WelcomeFacts'
  BY <1>2 DEF FindsNew
<1>3. ASSUME NEW r \in Requests, FindsRegistered(r) PROVE WelcomeFacts'
  BY <1>3 DEF FindsRegistered
<1>4. ASSUME NEW r \in Requests, FindsUser(r) PROVE WelcomeFacts'
  BY <1>4 DEF FindsUser
<1>5. ASSUME NEW r \in Requests, FindsNoUser(r) PROVE WelcomeFacts'
  BY <1>5 DEF FindsNoUser
<1>6. ASSUME NEW r \in Requests, Hash(r) PROVE WelcomeFacts'
  BY <1>6 DEF Hash, AfterHash
<1>7. ASSUME NEW r \in Requests, CreateUser(r) PROVE WelcomeFacts'
  BY <1>7 DEF CreateUser, Taken, IndexError
<1>8. ASSUME NEW r \in Requests, QueryFails(r) PROVE WelcomeFacts'
  BY <1>8 DEF QueryFails
<1>9. ASSUME NEW r \in Requests, CatchOther(r) PROVE WelcomeFacts'
  BY <1>9 DEF CatchOther
<1>10. ASSUME NEW r \in Requests, Respond(r) PROVE WelcomeFacts'
  BY <1>10 DEF Respond
<1>11. ASSUME NEW r \in Requests, Guard(r) PROVE WelcomeFacts'
  BY <1>11 DEF Guard
<1>12. ASSUME NEW e \in Emails, Expire(e) PROVE WelcomeFacts'
  BY <1>12 DEF Expire
<1>13. CASE Crash
  BY <1>13 DEF Crash, Awaiting
<1>14. CASE UNCHANGED vars
  BY <1>14 DEF vars
<1>15. ASSUME NEW r \in Requests, UpdateRateLimits(r) PROVE WelcomeFacts'
  BY <1>15 DEF UpdateRateLimits
<1> QED
  BY <1>1, <1>2, <1>3, <1>4, <1>5, <1>6, <1>7, <1>8, <1>9, <1>10, <1>11, <1>12, <1>13,
     <1>14, <1>15 DEF Next, Handle

\* The inductive invariant holds in every reachable state.
LEMMA Invariance == Spec => []IInv
<1>1. Init => WelcomeFacts
  BY DEF Init, WelcomeFacts, WelcomedAreKnown, Won, Requests
<1> QED
  BY <1>1, TypeInit, TypeStep, WelcomeStep, PTL DEF Spec, IInv

\* However many registrations of one address overlap, at most one is answered 201.
THEOREM OneWelcome == Spec => []OneWelcomePerAddress
<1>1. IInv => OneWelcomePerAddress
  BY DEF IInv, WelcomeFacts, Won, OneWelcomePerAddress
<1> QED
  BY <1>1, Invariance, PTL

\* A login begun after a 201 finds its user, and a guarded visit has a user behind it.
THEOREM WelcomedKnown == Spec => []WelcomedAreKnown
BY Invariance, PTL DEF IInv, WelcomeFacts
=============================================================================
