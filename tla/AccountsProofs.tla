--------------------------- MODULE AccountsProofs ---------------------------
(***************************************************************************)
(* What is proved of Accounts for every set of users, sessions, tokens and  *)
(* requests, whatever fails: the documents are well formed, names and       *)
(* emails are unique, a changed password ends the sessions of the old one,  *)
(* and a deleted user leaves nothing that was there before.                 *)
(***************************************************************************)
EXTENDS Accounts, TLAPS

(* What a handler has in hand when it gets to a step, among these accounts. *)
FrameFits(f, accounts) ==
    /\ f.at \notin {"idle", "insertUser", "revoke"} => f.id \in Ids /\ accounts[f.id] # "unused"
    /\ f.at = "revoke" => f.arg \in Sids
    /\ f.at \in {"saveToken", "deleteToken"} => f.arg \in Tokens
    /\ f.at = "insertDocument" => f.arg \in Collections
    /\ f.at = "removeUser" => f.todo = {}

Frames == \A r \in Requests : FrameFits(req[r], account)

SessionsHaveUsers == \A s \in Sids :
    Live(s) => session[s].id \in Ids /\ account[session[s].id] # "unused"

EmailsHaveUsers == \A u \in Ids : ~Here(u) => email[u] = None

(* The user is gone, or a deletion that has not failed has purged the kind.  *)
Deleting(k, u) ==
    \/ account[u] = "gone"
    \/ \E r \in Requests : /\ req[r].at \in {"purge", "removeUser"}
                           /\ req[r].id = u
                           /\ k \notin req[r].todo

PurgedForGood == \A k \in Kinds, u \in Ids : Deleting(k, u) /\ Has(k, u) => <<k, u>> \in late

IInv ==
    /\ TypeOK
    /\ Frames
    /\ SessionsHaveUsers
    /\ EmailsHaveUsers
    /\ UniqueUsers
    /\ OldPasswordOut
    /\ PurgedForGood

-----------------------------------------------------------------------------
LEMMA IdleFits == Idle \in Frame /\ \A a : FrameFits(Idle, a)
  BY DEF Idle, Frame, FrameFits, Steps, Maybe

(* A handler gets to another step, and no user is unmade.                   *)
LEMMA FramesKept ==
    ASSUME IInv, NEW r \in Requests, NEW f \in Frame, req' = [req EXCEPT ![r] = f],
           FrameFits(f, account'), \A u \in Ids : account[u] # "unused" => account'[u] # "unused"
    PROVE  /\ req' \in [Requests -> Frame] /\ Frames'
           /\ req'[r] = f /\ \A q \in Requests \ {r} : req'[q] = req[q]
<1>1. req' \in [Requests -> Frame] BY DEF IInv, TypeOK
<1>2. req'[r] = f /\ \A q \in Requests \ {r} : req'[q] = req[q] BY DEF IInv, TypeOK
<1>3. ASSUME NEW q \in Requests PROVE FrameFits(req'[q], account')
  <2>1. CASE q = r BY <1>2, <2>1 DEF FrameFits
  <2>2. CASE q # r BY <1>2, <2>2 DEF IInv, Frames, FrameFits
  <2> QED BY <2>1, <2>2
<1> QED BY <1>1, <1>2, <1>3 DEF Frames

(* Nothing is written.                                                      *)
LEMMA QuietStep ==
    ASSUME IInv, UNCHANGED <<user, owned, ops>>,
           NEW r \in Requests, NEW f \in Frame, req' = [req EXCEPT ![r] = f], FrameFits(f, account),
           f.at = "removeUser" => FALSE,
           f.at = "purge" => f.todo = Kinds,
           cut' \subseteq Ids, cut \subseteq cut',
           req[r].at = "revokeAll" => req[r].id \in cut'
    PROVE  IInv'
<1>1. UNCHANGED <<account, username, email, password, session, owner, documents, late, ops>>
  BY DEF user, owned
<1>2. FrameFits(f, account') BY <1>1
<1>3. req' \in [Requests -> Frame] /\ Frames' /\ req'[r] = f
      /\ \A q \in Requests \ {r} : req'[q] = req[q]
  BY <1>1, <1>2, FramesKept
<1>4. TypeOK' BY <1>1, <1>3 DEF IInv, TypeOK
<1>5. SessionsHaveUsers' /\ EmailsHaveUsers' /\ UniqueUsers'
  BY <1>1 DEF IInv, SessionsHaveUsers, EmailsHaveUsers, UniqueUsers, Here, Live
<1>6. OldPasswordOut'
  BY <1>1, <1>3 DEF IInv, OldPasswordOut, Live, Here, At
<1>7. \A k \in Kinds, u \in Ids : Deleting(k, u)' => Deleting(k, u)
  BY <1>1, <1>3 DEF Deleting
<1>8. PurgedForGood' BY <1>1, <1>7 DEF IInv, PurgedForGood, Has, Live
<1> QED BY <1>3, <1>4, <1>5, <1>6, <1>8 DEF IInv

LEMMA BeginStep ==
    ASSUME IInv, UNCHANGED <<user, owned, ops, cut>>,
           NEW r \in Requests, NEW f \in Frame, Begin(r, f), FrameFits(f, account),
           f.at # "removeUser", f.at = "purge" => f.todo = Kinds
    PROVE  IInv'
<1>1. req' = [req EXCEPT ![r] = f] /\ req[r].at # "revokeAll" BY DEF Begin, At
<1>2. cut' \subseteq Ids /\ cut \subseteq cut' BY DEF IInv, TypeOK
<1> QED BY <1>1, <1>2, QuietStep

-----------------------------------------------------------------------------
(* Requests that are let in, and steps that write nothing.                  *)

LEMMA OwnersAreUsers ==
    ASSUME IInv, NEW u \in Ids, Authorized(u)
    PROVE  account[u] # "unused"
  BY DEF IInv, Authorized, SessionsHaveUsers

LEMMA CallStep ==
    ASSUME IInv, NEW r \in Requests, Call(r)
    PROVE  IInv'
<1>1. ASSUME NEW n \in Names, NEW p \in Passwords, Register(r, n, p) PROVE IInv'
  <2> DEFINE f == [Idle EXCEPT !.at = "insertUser", !.name = n, !.pw = p]
  <2>1. f \in Frame /\ FrameFits(f, account) /\ f.at = "insertUser"
    BY DEF Idle, Frame, FrameFits, Steps, Maybe
  <2> QED BY <1>1, <2>1, BeginStep DEF Register
<1>2. ASSUME NEW s \in Sids, Logout(r, s) PROVE IInv'
  <2> DEFINE f == [Idle EXCEPT !.at = "revoke", !.arg = s]
  <2>1. f \in Frame /\ FrameFits(f, account) /\ f.at = "revoke"
    BY DEF Idle, Frame, FrameFits, Steps, Maybe
  <2> QED BY <1>2, <2>1, BeginStep DEF Logout
<1>3. ASSUME NEW u \in Ids, SignIn(r, u) PROVE IInv'
  <2> DEFINE f == [Idle EXCEPT !.at = "createSession", !.id = u, !.pw = password[u]]
  <2>1. password[u] \in Maybe(Passwords) BY DEF IInv, TypeOK
  <2>2. f \in Frame /\ FrameFits(f, account) /\ f.at = "createSession"
    BY <1>3, <2>1 DEF Idle, Frame, FrameFits, Steps, Maybe, SignIn, Here
  <2> QED BY <1>3, <2>2, BeginStep DEF SignIn
<1>4. ASSUME NEW u \in Ids, DeleteAccount(r, u) PROVE IInv'
  <2> DEFINE f == [Idle EXCEPT !.at = "purge", !.id = u, !.todo = Kinds]
  <2>1. f \in Frame /\ FrameFits(f, account) /\ f.at = "purge" /\ f.todo = Kinds
    BY <1>4, OwnersAreUsers DEF Idle, Frame, FrameFits, Steps, Maybe, DeleteAccount
  <2> QED BY <1>4, <2>1, BeginStep DEF DeleteAccount
<1>5. ASSUME NEW u \in Ids, NEW p \in Passwords, NEW q \in Passwords, ChangePassword(r, u, p, q)
      PROVE  IInv'
  <2> DEFINE f == [Idle EXCEPT !.at = "comparePassword", !.id = u, !.pw = p, !.new = q]
  <2>1. f \in Frame /\ FrameFits(f, account) /\ f.at = "comparePassword"
    BY <1>5, OwnersAreUsers DEF Idle, Frame, FrameFits, Steps, Maybe, ChangePassword
  <2> QED BY <1>5, <2>1, BeginStep DEF ChangePassword
<1>6. ASSUME NEW u \in Ids, NEW n \in Maybe(Names), NEW m \in Maybe(Emails),
             UpdateProfile(r, u, n, m)
      PROVE  IInv'
  <2> DEFINE f == [Idle EXCEPT !.at = "readProfile", !.id = u, !.name = n, !.mail = m]
  <2>1. f \in Frame /\ FrameFits(f, account) /\ f.at = "readProfile"
    BY <1>6, OwnersAreUsers DEF Idle, Frame, FrameFits, Steps, Maybe, UpdateProfile
  <2> QED BY <1>6, <2>1, BeginStep DEF UpdateProfile
<1>7. ASSUME NEW u \in Ids, NEW t \in Tokens, NEW step \in {"saveToken", "deleteToken"},
             PushToken(r, u, t, step)
      PROVE  IInv'
  <2> DEFINE f == [Idle EXCEPT !.at = step, !.id = u, !.arg = t]
  <2>1. f \in Frame /\ FrameFits(f, account) /\ f.at = step
    BY <1>7, OwnersAreUsers DEF Idle, Frame, FrameFits, Steps, Maybe, PushToken
  <2> QED BY <1>7, <2>1, BeginStep DEF PushToken
<1>8. ASSUME NEW u \in Ids, NEW k \in Collections, WriteDocument(r, u, k) PROVE IInv'
  <2> DEFINE f == [Idle EXCEPT !.at = "insertDocument", !.id = u, !.arg = k]
  <2>1. f \in Frame /\ FrameFits(f, account) /\ f.at = "insertDocument"
    BY <1>8 DEF Idle, Frame, FrameFits, Steps, Maybe, WriteDocument, Here
  <2> QED BY <1>8, <2>1, BeginStep DEF WriteDocument
<1> QED BY <1>1, <1>2, <1>3, <1>4, <1>5, <1>6, <1>7, <1>8 DEF Call

LEMMA FinishStep ==
    ASSUME IInv, NEW r \in Requests, Finish(r), UNCHANGED <<user, owned, ops>>,
           cut' \subseteq Ids, cut \subseteq cut',
           req[r].at = "revokeAll" => req[r].id \in cut'
    PROVE  IInv'
<1>1. Idle.at = "idle" BY DEF Idle
<1> QED BY <1>1, IdleFits, QuietStep DEF Finish

LEMMA ComparePasswordStep ==
    ASSUME IInv, NEW r \in Requests, ComparePassword(r)
    PROVE  IInv'
<1>1. UNCHANGED <<user, owned, ops, cut>> /\ req[r].at = "comparePassword"
  BY DEF ComparePassword, At
<1>2. cut' \subseteq Ids /\ cut \subseteq cut' BY <1>1 DEF IInv, TypeOK
<1>3. CASE Finish(r) BY <1>1, <1>2, <1>3, FinishStep
<1>4. CASE Goto(r, "writePassword")
  <2> DEFINE f == [req[r] EXCEPT !.at = "writePassword"]
  <2>1. req[r] \in Frame /\ FrameFits(req[r], account) BY DEF IInv, TypeOK, Frames
  <2>2. f \in Frame /\ FrameFits(f, account) /\ f.at = "writePassword"
    BY <1>1, <2>1 DEF Frame, FrameFits, Steps
  <2>3. req' = [req EXCEPT ![r] = f] BY <1>4 DEF Goto
  <2> HIDE DEF f
  <2> QED BY <1>1, <1>2, <2>2, <2>3, QuietStep
<1> QED BY <1>3, <1>4 DEF ComparePassword

LEMMA ReadProfileStep ==
    ASSUME IInv, NEW r \in Requests, ReadProfile(r)
    PROVE  IInv'
<1> DEFINE u == req[r].id
           n == Unless(username[u], req[r].name)
           m == Unless(email[u], req[r].mail)
           f == [req[r] EXCEPT !.at = "writeProfile", !.name = n, !.mail = m]
<1>1. UNCHANGED <<user, owned, ops, cut>> /\ req[r].at = "readProfile"
  BY DEF ReadProfile, At
<1>2. cut' \subseteq Ids /\ cut \subseteq cut' BY <1>1 DEF IInv, TypeOK
<1>3. CASE Finish(r) BY <1>1, <1>2, <1>3, FinishStep
<1>4. CASE req' = [req EXCEPT ![r].at = "writeProfile", ![r].name = n, ![r].mail = m]
  <2>1. req[r] \in Frame /\ FrameFits(req[r], account) BY DEF IInv, TypeOK, Frames
  <2>2. n \in Maybe(Names) /\ m \in Maybe(Emails) BY <2>1 DEF Unless, Maybe, Frame
  <2>3. f \in Frame /\ FrameFits(f, account) /\ f.at = "writeProfile"
    <3> HIDE DEF n, m
    <3> QED BY <1>1, <2>1, <2>2 DEF Frame, FrameFits, Steps
  <2>4. req' = [req EXCEPT ![r] = f]
    <3> HIDE DEF n, m
    <3> QED BY <1>4
  <2> HIDE DEF f
  <2> QED BY <1>1, <1>2, <2>3, <2>4, QuietStep
<1> QED BY <1>3, <1>4 DEF ReadProfile

(* The handler ends where it is: a changePassword that had not got to its   *)
(* last step is remembered.                                                 *)
LEMMA FailStep ==
    ASSUME IInv, NEW r \in Requests, Fail(r)
    PROVE  IInv'
<1>1. UNCHANGED <<user, owned, ops>> /\ Finish(r) BY DEF Fail
<1>2. req[r].at = "revokeAll" => req[r].id \in Ids BY DEF IInv, Frames, FrameFits
<1>3. cut' \subseteq Ids /\ cut \subseteq cut' /\ (req[r].at = "revokeAll" => req[r].id \in cut')
  BY <1>2 DEF Fail, At, IInv, TypeOK
<1> QED BY <1>1, <1>3, FinishStep

(* A deletion of which one part has failed does not get to the user.        *)
LEMMA PurgeFailsStep ==
    ASSUME IInv, NEW r \in Requests, NEW k \in Kinds, PurgeFails(r, k)
    PROVE  IInv'
<1>1. UNCHANGED <<user, owned, ops, cut>> /\ req[r].at # "revokeAll"
      /\ req[r].at \in {"purge", "purgeFailed"}
  BY DEF PurgeFails
<1>2. cut' \subseteq Ids /\ cut \subseteq cut' BY <1>1 DEF IInv, TypeOK
<1> DEFINE f == [req[r] EXCEPT !.at = "purgeFailed", !.todo = req[r].todo \ {k}]
<1>3. req[r] \in Frame /\ FrameFits(req[r], account) BY DEF IInv, TypeOK, Frames
<1>4. f \in Frame /\ FrameFits(f, account) /\ f.at = "purgeFailed"
  BY <1>1, <1>3 DEF Frame, FrameFits, Steps
<1>5. CASE req' = [req EXCEPT ![r] = f]
  <2> HIDE DEF f
  <2> QED BY <1>1, <1>2, <1>4, <1>5, QuietStep
<1>6. CASE req' = [req EXCEPT ![r] = Idle]
  BY <1>1, <1>2, <1>6, FinishStep DEF Finish
<1> QED BY <1>5, <1>6 DEF PurgeFails, AfterPurge

-----------------------------------------------------------------------------
(* Steps that write.                                                        *)

(* A step that neither starts a deletion nor completes one.                 *)
LEMMA NoOtherDeletion ==
    ASSUME IInv, NEW r \in Requests, NEW f \in Frame, req' = [req EXCEPT ![r] = f],
           f.at \notin {"purge", "removeUser"},
           \A v \in Ids : account'[v] = "gone" => account[v] = "gone"
    PROVE  \A k \in Kinds, u \in Ids : Deleting(k, u)' => Deleting(k, u)
<1>1. req'[r] = f /\ \A q \in Requests \ {r} : req'[q] = req[q] BY DEF IInv, TypeOK
<1> QED BY <1>1 DEF Deleting

LEMMA Marked ==
    ASSUME IInv, NEW k \in Kinds, NEW u \in Ids, Mark(k, u)
    PROVE  /\ late' \subseteq Kinds \X Ids /\ late \subseteq late'
           /\ Deleting(k, u) => <<k, u>> \in late'
<1>1. late \subseteq Kinds \X Ids BY DEF IInv, TypeOK
<1>2. Deleting(k, u) => Purged(k, u) BY DEF Deleting, Purged
<1> QED BY <1>1, <1>2 DEF Mark

(* What is written for a user whose deletion has passed the kind is marked.  *)
LEMMA WrittenLate ==
    ASSUME IInv, NEW r \in Requests, NEW f \in Frame, req' = [req EXCEPT ![r] = f],
           f.at \notin {"purge", "removeUser"}, account' = account,
           NEW k \in Kinds, NEW u \in Ids, Mark(k, u),
           \A j \in Kinds, v \in Ids : Has(j, v)' => Has(j, v) \/ (j = k /\ v = u)
    PROVE  PurgedForGood'
<1>1. \A j \in Kinds, v \in Ids : Deleting(j, v)' => Deleting(j, v) BY NoOtherDeletion
<1>2. late \subseteq late' /\ (Deleting(k, u) => <<k, u>> \in late') BY Marked
<1>3. ASSUME NEW j \in Kinds, NEW v \in Ids, Deleting(j, v)', Has(j, v)'
      PROVE  <<j, v>> \in late'
  <2>1. CASE Has(j, v) BY <1>1, <1>2, <1>3, <2>1 DEF IInv, PurgedForGood
  <2>2. CASE j = k /\ v = u BY <1>1, <1>2, <1>3, <2>2
  <2> QED BY <1>3, <2>1, <2>2
<1> QED BY <1>3 DEF PurgedForGood

(* A session's document is made for the user the handler let in.            *)
LEMMA CreateSessionStep ==
    ASSUME IInv, NEW r \in Requests, CreateSession(r)
    PROVE  IInv'
<1> DEFINE u == req[r].id
           f == IF At(r, "firstSession") THEN [req[r] EXCEPT !.at = "welcome"] ELSE Idle
<1>1. UNCHANGED <<account, username, email, password, owner, documents, ops, cut>>
      /\ req[r].at \in {"createSession", "firstSession"} /\ Mark("sessions", u)
  BY DEF CreateSession, user
<1>2. req[r] \in Frame /\ FrameFits(req[r], account) BY DEF IInv, TypeOK, Frames
<1>3. u \in Ids /\ account[u] # "unused" /\ req[r].pw \in Maybe(Passwords)
  BY <1>1, <1>2 DEF FrameFits, Frame
<1>4. f \in Frame /\ FrameFits(f, account') /\ f.at \in {"welcome", "idle"}
  BY <1>1, <1>2, <1>3 DEF Frame, FrameFits, Steps, At, Idle, Maybe
<1>5. req' = [req EXCEPT ![r] = f] BY DEF CreateSession, Goto, Finish
<1> HIDE DEF f
<1>6. req' \in [Requests -> Frame] /\ Frames' /\ req'[r] = f
      /\ \A q \in Requests \ {r} : req'[q] = req[q]
  BY <1>1, <1>4, <1>5, FramesKept
<1>7. PICK s \in Sids :
        session' = [session EXCEPT ![s] = [state |-> "live", id |-> u, pw |-> req[r].pw,
                                           stale |-> req[r].pw # password[u]]]
  BY DEF CreateSession
<1> HIDE DEF u
<1>8. session' \in [Sids -> [state : {"unused", "live", "ended"}, id : Maybe(Ids),
                             pw : Maybe(Passwords), stale : BOOLEAN]]
      /\ session'[s].state = "live" /\ session'[s].id = u /\ session'[s].pw = req[r].pw
      /\ (req[r].pw # password[u] => session'[s].stale)
      /\ \A t \in Sids \ {s} : session'[t] = session[t]
  BY <1>3, <1>7 DEF IInv, TypeOK, Maybe
<1>9. TypeOK' BY <1>1, <1>3, <1>6, <1>8, Marked DEF IInv, TypeOK, Kinds
<1>10. SessionsHaveUsers'
  BY <1>1, <1>3, <1>8 DEF IInv, SessionsHaveUsers, Live
<1>11. EmailsHaveUsers' /\ UniqueUsers' BY <1>1 DEF IInv, EmailsHaveUsers, UniqueUsers, Here
<1>12. OldPasswordOut'
  BY <1>1, <1>6, <1>8 DEF IInv, OldPasswordOut, Live, Here, At
<1>13. \A k \in Kinds, v \in Ids : Has(k, v)' => Has(k, v) \/ (k = "sessions" /\ v = u)
  BY <1>1, <1>8 DEF Has, Live
<1>14. PurgedForGood' BY <1>1, <1>3, <1>4, <1>5, <1>13, WrittenLate DEF Kinds
<1> QED BY <1>6, <1>9, <1>10, <1>11, <1>12, <1>14 DEF IInv

(* The unique index decides between registrations of one name.              *)
LEMMA InsertUserStep ==
    ASSUME IInv, NEW r \in Requests, InsertUser(r)
    PROVE  IInv'
<1>1. UNCHANGED <<session, owner, documents, late, ops, cut>> /\ req[r].at = "insertUser"
  BY DEF InsertUser, At, owned
<1>2. CASE NameTaken(req[r].name)
  <2>1. cut' \subseteq Ids /\ cut \subseteq cut' BY <1>1 DEF IInv, TypeOK
  <2> QED BY <1>1, <1>2, <2>1, FinishStep DEF InsertUser
<1>3. CASE ~NameTaken(req[r].name)
  <2>1. PICK u \in Ids :
            /\ account[u] = "unused"
            /\ account' = [account EXCEPT ![u] = "here"]
            /\ username' = [username EXCEPT ![u] = req[r].name]
            /\ password' = [password EXCEPT ![u] = req[r].pw]
            /\ req' = [req EXCEPT ![r].at = "firstSession", ![r].id = u, ![r].name = None]
            /\ UNCHANGED email
    BY <1>3 DEF InsertUser
  <2> DEFINE f == [req[r] EXCEPT !.at = "firstSession", !.id = u, !.name = None]
  <2>2. req[r] \in Frame /\ FrameFits(req[r], account) BY DEF IInv, TypeOK, Frames
  <2>3. account'[u] = "here" /\ \A v \in Ids \ {u} : account'[v] = account[v]
    BY <2>1 DEF IInv, TypeOK
  <2>4. f \in Frame /\ FrameFits(f, account') /\ f.at = "firstSession"
    <3>1. f.at = "firstSession" /\ f.id = u BY <2>2 DEF Frame
    <3>2. f \in Frame BY <2>2 DEF Frame, Steps, Maybe
    <3> HIDE DEF f
    <3> QED BY <2>3, <3>1, <3>2 DEF FrameFits
  <2>5. req' = [req EXCEPT ![r] = f] BY <2>1
  <2> HIDE DEF f
  <2>6. req' \in [Requests -> Frame] /\ Frames' /\ req'[r] = f
        /\ \A q \in Requests \ {r} : req'[q] = req[q]
    BY <2>1, <2>3, <2>4, <2>5, FramesKept
  <2>7. username'[u] = req[r].name /\ password'[u] = req[r].pw
        /\ \A v \in Ids \ {u} : username'[v] = username[v] /\ password'[v] = password[v]
    BY <2>1 DEF IInv, TypeOK
  <2>8. TypeOK'
    <3>1. /\ account' \in [Ids -> {"unused", "here", "gone"}]
          /\ username' \in [Ids -> Maybe(Names)]
          /\ password' \in [Ids -> Maybe(Passwords)]
      BY <2>1, <2>2 DEF IInv, TypeOK, Frame
    <3> QED BY <1>1, <2>1, <2>6, <3>1 DEF IInv, TypeOK
  <2>9. SessionsHaveUsers' BY <1>1, <2>3 DEF IInv, SessionsHaveUsers, Live
  <2>10. EmailsHaveUsers' BY <2>1, <2>3 DEF IInv, EmailsHaveUsers, Here
  <2>11. UniqueUsers'
    BY <1>3, <2>1, <2>3, <2>7 DEF IInv, UniqueUsers, EmailsHaveUsers, Here, NameTaken
  <2>12. OldPasswordOut'
    BY <1>1, <2>1, <2>3, <2>6, <2>7
    DEF IInv, OldPasswordOut, SessionsHaveUsers, Live, Here, At
  <2>13. \A k \in Kinds, v \in Ids : Deleting(k, v)' => Deleting(k, v)
    BY <2>3, <2>4, <2>5, NoOtherDeletion
  <2>14. PurgedForGood' BY <1>1, <2>13 DEF IInv, PurgedForGood, Has, Live
  <2> QED BY <2>6, <2>8, <2>9, <2>10, <2>11, <2>12, <2>14 DEF IInv
<1> QED BY <1>2, <1>3

(* A step that ends its handler, leaves the accounts as they are, only ends  *)
(* sessions and only takes documents away.                                  *)
LEMMA TakingStep ==
    ASSUME IInv, NEW r \in Requests, Finish(r),
           UNCHANGED <<account, username, email, password, late, ops>>,
           session' \in [Sids -> [state : {"unused", "live", "ended"}, id : Maybe(Ids),
                                  pw : Maybe(Passwords), stale : BOOLEAN]],
           \A s \in Sids : Live(s)' => session'[s] = session[s],
           owner' \in [Tokens -> Maybe(Ids)],
           \A t \in Tokens : owner'[t] \in Ids => owner'[t] = owner[t],
           documents' = documents, cut' \subseteq Ids,
           \A s \in Sids : Live(s)' /\ session[s].id \in cut => session[s].id \in cut',
           req[r].at = "revokeAll" => \A s \in Sids : Live(s)' => session[s].id # req[r].id
    PROVE  IInv'
<1>1. req' \in [Requests -> Frame] /\ Frames' /\ req'[r] = Idle
      /\ \A q \in Requests \ {r} : req'[q] = req[q]
  BY IdleFits, FramesKept DEF Finish
<1>2. TypeOK' BY <1>1 DEF IInv, TypeOK
<1>3. SessionsHaveUsers' BY DEF IInv, SessionsHaveUsers, Live
<1>4. EmailsHaveUsers' /\ UniqueUsers' BY DEF IInv, EmailsHaveUsers, UniqueUsers, Here
<1>5. OldPasswordOut' BY <1>1 DEF IInv, OldPasswordOut, Live, Here, At
<1>6. \A k \in Kinds, u \in Ids : Deleting(k, u)' => Deleting(k, u)
  BY IdleFits, NoOtherDeletion DEF Finish, Idle
<1>7. \A k \in Kinds, u \in Ids : Has(k, u)' => Has(k, u)
  BY DEF Has, Live
<1>8. PurgedForGood' BY <1>6, <1>7 DEF IInv, PurgedForGood
<1> QED BY <1>1, <1>2, <1>3, <1>4, <1>5, <1>8 DEF IInv

LEMMA RevokeSessionStep ==
    ASSUME IInv, NEW r \in Requests, RevokeSession(r)
    PROVE  IInv'
<1>1. UNCHANGED <<account, username, email, password, owner, documents, late, ops, cut>>
      /\ Finish(r) /\ req[r].at = "revoke"
      /\ session' = [session EXCEPT ![req[r].arg] = IF Live(req[r].arg) THEN Ended ELSE @]
  BY DEF RevokeSession, At, user
<1>2. req[r].arg \in Sids BY <1>1 DEF IInv, Frames, FrameFits
<1>3. /\ session' \in [Sids -> [state : {"unused", "live", "ended"}, id : Maybe(Ids),
                                 pw : Maybe(Passwords), stale : BOOLEAN]]
      /\ \A s \in Sids : Live(s)' => session'[s] = session[s]
  BY <1>1, <1>2 DEF IInv, TypeOK, Ended, Live, Maybe
<1>4. cut' \subseteq Ids /\ owner' \in [Tokens -> Maybe(Ids)] BY <1>1 DEF IInv, TypeOK
<1> QED BY <1>1, <1>3, <1>4, TakingStep

LEMMA SessionsEnded ==
    ASSUME IInv, NEW u, EndSessionsOf(u)
    PROVE  /\ session' \in [Sids -> [state : {"unused", "live", "ended"}, id : Maybe(Ids),
                                     pw : Maybe(Passwords), stale : BOOLEAN]]
           /\ \A s \in Sids : Live(s)' => session'[s] = session[s] /\ session[s].id # u
<1>1. Ended \in [state : {"unused", "live", "ended"}, id : Maybe(Ids),
                 pw : Maybe(Passwords), stale : BOOLEAN] /\ Ended.state = "ended"
  BY DEF Ended, Maybe
<1> HIDE DEF Ended
<1> QED BY <1>1 DEF IInv, TypeOK, EndSessionsOf, Live

LEMMA RevokeAllSessionsStep ==
    ASSUME IInv, NEW r \in Requests, RevokeAllSessions(r)
    PROVE  IInv'
<1>1. UNCHANGED <<account, username, email, password, owner, documents, late, ops>>
      /\ Finish(r) /\ cut' = cut \ {req[r].id} /\ EndSessionsOf(req[r].id)
  BY DEF RevokeAllSessions, user
<1>2. cut' \subseteq Ids /\ owner' \in [Tokens -> Maybe(Ids)] BY <1>1 DEF IInv, TypeOK
<1> QED BY <1>1, <1>2, SessionsEnded, TakingStep

LEMMA DeleteTokenStep ==
    ASSUME IInv, NEW r \in Requests, DeleteToken(r)
    PROVE  IInv'
<1>1. UNCHANGED <<account, username, email, password, session, documents, late, ops, cut>>
      /\ Finish(r) /\ req[r].at = "deleteToken"
      /\ owner' = [owner EXCEPT ![req[r].arg] = IF @ = req[r].id THEN None ELSE @]
  BY DEF DeleteToken, At, user
<1>2. req[r].arg \in Tokens BY <1>1 DEF IInv, Frames, FrameFits
<1>3. /\ owner' \in [Tokens -> Maybe(Ids)]
      /\ \A t \in Tokens : owner'[t] \in Ids => owner'[t] = owner[t]
  BY <1>1, <1>2, ConstantsAssumption DEF IInv, TypeOK, Maybe
<1>4. cut' \subseteq Ids
      /\ session' \in [Sids -> [state : {"unused", "live", "ended"}, id : Maybe(Ids),
                                 pw : Maybe(Passwords), stale : BOOLEAN]]
  BY <1>1 DEF IInv, TypeOK
<1> QED BY <1>1, <1>3, <1>4, TakingStep

LEMMA SessionExpiresStep ==
    ASSUME IInv, NEW s \in Sids, SessionExpires(s)
    PROVE  IInv'
<1>1. UNCHANGED <<account, username, email, password, owner, documents, late, req, ops, cut>>
      /\ session' = [session EXCEPT ![s] = Ended]
  BY DEF SessionExpires, user
<1>2. /\ session' \in [Sids -> [state : {"unused", "live", "ended"}, id : Maybe(Ids),
                                 pw : Maybe(Passwords), stale : BOOLEAN]]
      /\ \A t \in Sids : Live(t)' => session'[t] = session[t]
  BY <1>1 DEF IInv, TypeOK, Ended, Live, Maybe
<1>3. TypeOK' BY <1>1, <1>2 DEF IInv, TypeOK
<1>4. Frames' BY <1>1 DEF IInv, Frames, FrameFits
<1>5. SessionsHaveUsers' BY <1>1, <1>2 DEF IInv, SessionsHaveUsers, Live
<1>6. EmailsHaveUsers' /\ UniqueUsers' BY <1>1 DEF IInv, EmailsHaveUsers, UniqueUsers, Here
<1>7. OldPasswordOut' BY <1>1, <1>2 DEF IInv, OldPasswordOut, Live, Here, At
<1>8. PurgedForGood'
  BY <1>1, <1>2 DEF IInv, PurgedForGood, Deleting, Has, Live
<1> QED BY <1>3, <1>4, <1>5, <1>6, <1>7, <1>8 DEF IInv

(* The documents a user has may grow by one of a kind, and what is written   *)
(* after a purge is marked.                                                 *)
LEMMA AddingStep ==
    ASSUME IInv, NEW r \in Requests, Finish(r), UNCHANGED <<user, session, ops, cut>>,
           req[r].at # "revokeAll",
           owner' \in [Tokens -> Maybe(Ids)], documents' \subseteq Collections \X Ids,
           NEW k \in Kinds, NEW u \in Ids, Mark(k, u),
           \A j \in Kinds, v \in Ids : Has(j, v)' => Has(j, v) \/ (j = k /\ v = u)
    PROVE  IInv'
<1>1. UNCHANGED <<account, username, email, password, session, ops, cut>> BY DEF user
<1>2. req' \in [Requests -> Frame] /\ Frames' /\ req'[r] = Idle
      /\ \A q \in Requests \ {r} : req'[q] = req[q]
  BY <1>1, IdleFits, FramesKept DEF Finish
<1>3. TypeOK' BY <1>1, <1>2, Marked DEF IInv, TypeOK
<1>4. SessionsHaveUsers' /\ EmailsHaveUsers' /\ UniqueUsers'
  BY <1>1 DEF IInv, SessionsHaveUsers, EmailsHaveUsers, UniqueUsers, Here, Live
<1>5. OldPasswordOut' BY <1>1, <1>2 DEF IInv, OldPasswordOut, Live, Here, At
<1>6. Idle.at = "idle" BY DEF Idle
<1>7. Idle.at \notin {"purge", "removeUser"} /\ Idle \in Frame /\ req' = [req EXCEPT ![r] = Idle]
  BY <1>6, IdleFits DEF Finish
<1>8. PurgedForGood'
  <2> HIDE DEF Idle, Finish
  <2> QED BY <1>1, <1>7, WrittenLate
<1> QED BY <1>2, <1>3, <1>4, <1>5, <1>8 DEF IInv

LEMMA WelcomeStep ==
    ASSUME IInv, NEW r \in Requests, Welcome(r)
    PROVE  IInv'
<1>1. req[r].at = "welcome" BY DEF Welcome, At
<1>2. req[r].id \in Ids BY <1>1 DEF IInv, Frames, FrameFits
<1>3. "notifications" \in Kinds /\ "notifications" \in Collections
      /\ "notifications" # "sessions" /\ "notifications" # "pushTokens"
  BY ConstantsAssumption DEF Kinds
<1>4. owner' \in [Tokens -> Maybe(Ids)] /\ documents' \subseteq Collections \X Ids
  BY <1>2, <1>3 DEF Welcome, IInv, TypeOK
<1>5. \A j \in Kinds, v \in Ids :
        Has(j, v)' => Has(j, v) \/ (j = "notifications" /\ v = req[r].id)
  BY DEF Welcome, Has, Live
<1> QED BY <1>1, <1>2, <1>3, <1>4, <1>5, AddingStep DEF Welcome

LEMMA InsertDocumentStep ==
    ASSUME IInv, NEW r \in Requests, InsertDocument(r)
    PROVE  IInv'
<1>1. req[r].at = "insertDocument" BY DEF InsertDocument, At
<1>2. req[r].id \in Ids /\ req[r].arg \in Collections BY <1>1 DEF IInv, Frames, FrameFits
<1>3. req[r].arg \in Kinds BY <1>2 DEF Kinds
<1>4. owner' \in [Tokens -> Maybe(Ids)] /\ documents' \subseteq Collections \X Ids
  BY <1>2 DEF InsertDocument, IInv, TypeOK
<1>5. \A j \in Kinds, v \in Ids :
        Has(j, v)' => Has(j, v) \/ (j = req[r].arg /\ v = req[r].id)
  BY DEF InsertDocument, Has, Live
<1> QED BY <1>1, <1>2, <1>3, <1>4, <1>5, AddingStep DEF InsertDocument

LEMMA SaveTokenStep ==
    ASSUME IInv, NEW r \in Requests, SaveToken(r)
    PROVE  IInv'
<1>1. req[r].at = "saveToken" BY DEF SaveToken, At
<1>2. req[r].id \in Ids /\ req[r].arg \in Tokens BY <1>1 DEF IInv, Frames, FrameFits
<1>3. owner' \in [Tokens -> Maybe(Ids)] /\ documents' \subseteq Collections \X Ids
  BY <1>2 DEF SaveToken, IInv, TypeOK, Maybe
<1>4. \A t \in Tokens : owner'[t] = owner[t] \/ owner'[t] = req[r].id
  BY <1>2 DEF SaveToken, IInv, TypeOK
<1>5. \A j \in Kinds, v \in Ids :
        Has(j, v)' => Has(j, v) \/ (j = "pushTokens" /\ v = req[r].id)
  BY <1>4 DEF SaveToken, Has, Live
<1>6. "pushTokens" \in Kinds BY DEF Kinds
<1> QED BY <1>1, <1>2, <1>3, <1>5, <1>6, AddingStep DEF SaveToken

(* From here until its last step the handler answers for the user's sessions. *)
LEMMA WritePasswordStep ==
    ASSUME IInv, NEW r \in Requests, WritePassword(r)
    PROVE  IInv'
<1> DEFINE f == [req[r] EXCEPT !.at = "revokeAll"]
<1>1. UNCHANGED <<account, username, email, session, owner, documents, late, ops, cut>>
      /\ req[r].at = "writePassword"
  BY DEF WritePassword, At, owned
<1>2. req[r] \in Frame /\ FrameFits(req[r], account) BY DEF IInv, TypeOK, Frames
<1>3. f \in Frame /\ FrameFits(f, account') /\ f.at = "revokeAll" /\ f.id = req[r].id
  BY <1>1, <1>2 DEF Frame, FrameFits, Steps
<1>4. req' = [req EXCEPT ![r] = f] BY DEF WritePassword, Goto
<1> HIDE DEF f
<1>5. req' \in [Requests -> Frame] /\ Frames' /\ req'[r] = f
      /\ \A q \in Requests \ {r} : req'[q] = req[q]
  BY <1>1, <1>3, <1>4, FramesKept
<1>6. password' \in [Ids -> Maybe(Passwords)]
      /\ \A u \in Ids : u # req[r].id => password'[u] = password[u]
  BY <1>2 DEF WritePassword, IInv, TypeOK, Frame
<1>7. TypeOK' BY <1>1, <1>5, <1>6 DEF IInv, TypeOK
<1>8. SessionsHaveUsers' /\ EmailsHaveUsers' /\ UniqueUsers'
  BY <1>1 DEF IInv, SessionsHaveUsers, EmailsHaveUsers, UniqueUsers, Here, Live
<1>9. OldPasswordOut'
  <2>1. \A s \in Sids : Live(s) => session[s].id \in Ids BY DEF IInv, SessionsHaveUsers
  <2> QED BY <1>1, <1>3, <1>5, <1>6, <2>1 DEF IInv, OldPasswordOut, Live, Here, At
<1>10. \A k \in Kinds, u \in Ids : Deleting(k, u)' => Deleting(k, u)
  BY <1>1, <1>3, <1>4, NoOtherDeletion
<1>11. PurgedForGood' BY <1>1, <1>10 DEF IInv, PurgedForGood, Has, Live
<1> QED BY <1>5, <1>7, <1>8, <1>9, <1>11 DEF IInv

(* The unique indexes decide between an update and whatever came before it.  *)
LEMMA WriteProfileStep ==
    ASSUME IInv, NEW r \in Requests, WriteProfile(r)
    PROVE  IInv'
<1> PICK u, n, m : u = req[r].id /\ n = req[r].name /\ m = req[r].mail OBVIOUS
<1>1. UNCHANGED <<account, password, session, owner, documents, late, ops, cut>>
      /\ Finish(r) /\ req[r].at = "writeProfile"
  BY DEF WriteProfile, At, owned
<1>2. cut' \subseteq Ids /\ cut \subseteq cut' BY <1>1 DEF IInv, TypeOK
<1>3. CASE ~(Here(u) /\ ~Conflicts(u, n, m))
  BY <1>1, <1>2, <1>3, FinishStep DEF WriteProfile, user, owned
<1>4. CASE Here(u) /\ ~Conflicts(u, n, m)
  <2>1. /\ username' = [username EXCEPT ![u] = IF n = None THEN @ ELSE n]
        /\ email' = [email EXCEPT ![u] = IF m = None THEN @ ELSE m]
    BY <1>4 DEF WriteProfile
  <2>2. u \in Ids /\ n \in Maybe(Names) /\ m \in Maybe(Emails)
    BY <1>1 DEF IInv, TypeOK, Frames, FrameFits, Frame
  <2>3. /\ username' \in [Ids -> Maybe(Names)] /\ email' \in [Ids -> Maybe(Emails)]
        /\ username'[u] = (IF n = None THEN username[u] ELSE n)
        /\ email'[u] = (IF m = None THEN email[u] ELSE m)
        /\ \A v \in Ids \ {u} : username'[v] = username[v] /\ email'[v] = email[v]
    BY <2>1, <2>2 DEF IInv, TypeOK, Maybe
  <2>4. req' \in [Requests -> Frame] /\ Frames' /\ req'[r] = Idle
        /\ \A q \in Requests \ {r} : req'[q] = req[q]
    BY <1>1, IdleFits, FramesKept DEF Finish
  <2>5. TypeOK' BY <1>1, <2>3, <2>4 DEF IInv, TypeOK
  <2>6. SessionsHaveUsers' BY <1>1 DEF IInv, SessionsHaveUsers, Live
  <2>7. EmailsHaveUsers' BY <1>1, <1>4, <2>3 DEF IInv, EmailsHaveUsers, Here
  <2>8. UniqueUsers'
    <3>1. \A v \in Ids \ {u} : Here(v) =>
            /\ username'[v] # username'[u]
            /\ email'[u] # None => email'[v] # email'[u]
      <4>1. \A v \in Ids \ {u} : Here(v) =>
              /\ username[v] # username[u]
              /\ email[u] # None => email[v] # email[u]
              /\ n # None => username[v] # n
              /\ m # None => email[v] # m
        BY <1>4, <2>2 DEF IInv, UniqueUsers, Conflicts
      <4> QED BY <2>3, <4>1
    <3>2. ASSUME NEW v \in Ids, NEW w \in Ids, Here(v), Here(w), v # w
          PROVE  username'[v] # username'[w] /\ (email'[v] # None => email'[v] # email'[w])
      <4>1. CASE v = u BY <3>1, <3>2, <4>1
      <4>2. CASE w = u BY <3>1, <3>2, <4>2
      <4>3. CASE v # u /\ w # u BY <2>3, <3>2, <4>3 DEF IInv, UniqueUsers
      <4> QED BY <4>1, <4>2, <4>3
    <3> QED BY <1>1, <3>2 DEF UniqueUsers, Here
  <2>9. OldPasswordOut' BY <1>1, <2>4 DEF IInv, OldPasswordOut, Live, Here, At
  <2>10. \A k \in Kinds, v \in Ids : Deleting(k, v)' => Deleting(k, v)
    BY <1>1, IdleFits, NoOtherDeletion DEF Finish, Idle
  <2>11. PurgedForGood' BY <1>1, <2>10 DEF IInv, PurgedForGood, Has, Live
  <2> QED BY <2>4, <2>5, <2>6, <2>7, <2>8, <2>9, <2>11 DEF IInv
<1> QED BY <1>3, <1>4

(* A part of a deletion: what the user had of the kind is gone, and nothing  *)
(* of it was written after this.                                            *)
LEMMA PurgeStep ==
    ASSUME IInv, NEW r \in Requests, NEW k \in Kinds, Purge(r, k)
    PROVE  IInv'
<1> PICK u : u = req[r].id OBVIOUS
<1> DEFINE rest == req[r].todo \ {k}
           f == IF rest # {} THEN [req[r] EXCEPT !.todo = rest]
                ELSE IF At(r, "purge") THEN [req[r] EXCEPT !.at = "removeUser", !.todo = {}]
                ELSE Idle
<1>1. UNCHANGED <<account, username, email, password, ops, cut>>
      /\ req[r].at \in {"purge", "purgeFailed"}
      /\ owner' = [t \in Tokens |-> IF k = "pushTokens" /\ owner[t] = u THEN None ELSE owner[t]]
      /\ documents' = documents \ {<<k, u>>} /\ late' = late \ {<<k, u>>}
  BY DEF Purge, user
<1>2. req[r] \in Frame /\ FrameFits(req[r], account) BY DEF IInv, TypeOK, Frames
<1>3. u \in Ids /\ req[r].todo \subseteq Kinds BY <1>1, <1>2 DEF FrameFits, Frame
<1>4. [req[r] EXCEPT !.at = req[r].at, !.todo = rest] = [req[r] EXCEPT !.todo = rest]
  BY <1>2 DEF Frame
<1>5. req' = [req EXCEPT ![r] = f]
  BY <1>4 DEF Purge, AfterPurge, At
<1>6. f \in Frame /\ FrameFits(f, account')
  BY <1>1, <1>2, <1>3, IdleFits DEF Frame, FrameFits, Steps, At
<1>7. f.at \in {"purge", "removeUser"} => f.id = u /\ req[r].at = "purge"
                                       /\ \A j \in Kinds : j \notin f.todo => j \notin req[r].todo \/ j = k
  <2>1. CASE rest # {} BY <1>1, <1>2, <2>1 DEF Frame
  <2>2. CASE rest = {} BY <1>1, <1>2, <2>2 DEF Frame, At, Idle
  <2> QED BY <2>1, <2>2
<1> HIDE DEF f, rest
<1>8. req' \in [Requests -> Frame] /\ Frames' /\ req'[r] = f
      /\ \A q \in Requests \ {r} : req'[q] = req[q]
  BY <1>1, <1>5, <1>6, FramesKept
<1>9. /\ session' \in [Sids -> [state : {"unused", "live", "ended"}, id : Maybe(Ids),
                                 pw : Maybe(Passwords), stale : BOOLEAN]]
      /\ \A s \in Sids : Live(s)' => session'[s] = session[s]
      /\ k = "sessions" => \A s \in Sids : Live(s)' => session[s].id # u
  <2>1. CASE k = "sessions" BY <2>1, SessionsEnded DEF Purge
  <2>2. CASE k # "sessions" BY <2>2 DEF Purge, IInv, TypeOK
  <2> QED BY <2>1, <2>2
<1>10. /\ owner' \in [Tokens -> Maybe(Ids)]
       /\ \A t \in Tokens : owner'[t] \in Ids => owner'[t] = owner[t]
       /\ k = "pushTokens" => \A t \in Tokens : owner'[t] # u
  BY <1>1, <1>3, ConstantsAssumption DEF IInv, TypeOK, Maybe
<1>11. TypeOK' BY <1>1, <1>8, <1>9, <1>10 DEF IInv, TypeOK
<1>12. SessionsHaveUsers' BY <1>1, <1>9 DEF IInv, SessionsHaveUsers, Live
<1>13. EmailsHaveUsers' /\ UniqueUsers' BY <1>1 DEF IInv, EmailsHaveUsers, UniqueUsers, Here
<1>14. OldPasswordOut' BY <1>1, <1>8, <1>9 DEF IInv, OldPasswordOut, Live, Here, At
<1>15. PurgedForGood'
  <2>1. \A j \in Kinds, v \in Ids : Deleting(j, v)' => Deleting(j, v) \/ (j = k /\ v = u)
    BY <1>1, <1>7, <1>8 DEF Deleting
  <2>2. \A j \in Kinds, v \in Ids : Has(j, v)' => Has(j, v) /\ ~(j = k /\ v = u)
    <3>1. \A j \in Kinds, v \in Ids : Has(j, v)' => Has(j, v)
      BY <1>1, <1>9, <1>10 DEF Has, Live
    <3>2. ~Has(k, u)' BY <1>1, <1>3, <1>9, <1>10 DEF Has, Live
    <3> QED BY <3>1, <3>2
  <2> QED BY <1>1, <2>1, <2>2 DEF IInv, PurgedForGood
<1> QED BY <1>8, <1>11, <1>12, <1>13, <1>14, <1>15 DEF IInv

(* Only a deletion all of whose parts have succeeded gets here.             *)
LEMMA RemoveUserStep ==
    ASSUME IInv, NEW r \in Requests, RemoveUser(r)
    PROVE  IInv'
<1> PICK u : u = req[r].id OBVIOUS
<1>1. /\ UNCHANGED <<session, owner, documents, late, ops, cut>>
      /\ Finish(r) /\ req[r].at = "removeUser"
      /\ account' = [account EXCEPT ![u] = "gone"]
      /\ username' = [username EXCEPT ![u] = None]
      /\ email' = [email EXCEPT ![u] = None]
      /\ password' = [password EXCEPT ![u] = None]
  BY DEF RemoveUser, At, owned
<1>2. u \in Ids /\ req[r].todo = {} BY <1>1 DEF IInv, Frames, FrameFits
<1>3. /\ account'[u] = "gone" /\ email'[u] = None
      /\ \A v \in Ids \ {u} : account'[v] = account[v] /\ username'[v] = username[v]
                             /\ email'[v] = email[v] /\ password'[v] = password[v]
  BY <1>1, <1>2 DEF IInv, TypeOK
<1>4. req' \in [Requests -> Frame] /\ Frames' /\ req'[r] = Idle
      /\ \A q \in Requests \ {r} : req'[q] = req[q]
  <2>1. Idle \in Frame /\ FrameFits(Idle, account') /\ req' = [req EXCEPT ![r] = Idle]
    BY <1>1, IdleFits DEF Finish
  <2>2. \A v \in Ids : account[v] # "unused" => account'[v] # "unused" BY <1>3
  <2> QED BY <2>1, <2>2, FramesKept
<1>5. TypeOK' BY <1>1, <1>2, <1>4 DEF IInv, TypeOK, Maybe
<1>6. SessionsHaveUsers' BY <1>1, <1>3 DEF IInv, SessionsHaveUsers, Live
<1>7. EmailsHaveUsers' BY <1>3 DEF IInv, EmailsHaveUsers, Here
<1>8. UniqueUsers' BY <1>3 DEF IInv, UniqueUsers, Here
<1>9. OldPasswordOut'
  BY <1>1, <1>3, <1>4 DEF IInv, OldPasswordOut, SessionsHaveUsers, Live, Here, At
<1>10. \A k \in Kinds, v \in Ids : Deleting(k, v)' => Deleting(k, v)
  BY <1>1, <1>2, <1>3, <1>4 DEF Deleting, Idle
<1>11. PurgedForGood' BY <1>1, <1>10 DEF IInv, PurgedForGood, Has, Live
<1> QED BY <1>4, <1>5, <1>6, <1>7, <1>8, <1>9, <1>11 DEF IInv

-----------------------------------------------------------------------------
LEMMA InitInvariant == Init => IInv
<1> SUFFICES ASSUME Init PROVE IInv OBVIOUS
<1>1. TypeOK BY IdleFits DEF Init, TypeOK, Maybe
<1>2. Frames BY IdleFits DEF Init, Frames
<1>3. SessionsHaveUsers /\ EmailsHaveUsers /\ UniqueUsers /\ OldPasswordOut
  BY DEF Init, SessionsHaveUsers, EmailsHaveUsers, UniqueUsers, OldPasswordOut, Here, Live
<1>4. PurgedForGood
  <2>1. \A r \in Requests : req[r].at = "idle" BY DEF Init, Idle
  <2>2. \A k \in Kinds, u \in Ids : ~Deleting(k, u) BY <2>1 DEF Init, Deleting
  <2> QED BY <2>2 DEF PurgedForGood
<1> QED BY <1>1, <1>2, <1>3, <1>4 DEF IInv

LEMMA StepInvariant == IInv /\ [Next]_vars => IInv'
<1> SUFFICES ASSUME IInv, [Next]_vars PROVE IInv' OBVIOUS
<1>1. CASE UNCHANGED vars
  BY <1>1 DEF vars, IInv, TypeOK, Frames, FrameFits, SessionsHaveUsers, EmailsHaveUsers,
              UniqueUsers, OldPasswordOut, PurgedForGood, Deleting, Has, Here, Live, At
<1>2. CASE \E s \in Sids : SessionExpires(s) BY <1>2, SessionExpiresStep
<1>3. ASSUME NEW r \in Requests,
             Call(r) \/ Handle(r) \/ Fail(r) \/ (\E k \in Kinds : PurgeFails(r, k))
      PROVE  IInv'
  <2>1. CASE Call(r) BY <2>1, CallStep
  <2>2. CASE Handle(r)
    BY <2>2, CreateSessionStep, InsertUserStep, WelcomeStep, RevokeSessionStep,
       ComparePasswordStep, WritePasswordStep, RevokeAllSessionsStep, ReadProfileStep,
       WriteProfileStep, PurgeStep, RemoveUserStep, SaveTokenStep, DeleteTokenStep,
       InsertDocumentStep
    DEF Handle
  <2>3. CASE Fail(r) BY <2>3, FailStep
  <2>4. CASE \E k \in Kinds : PurgeFails(r, k) BY <2>4, PurgeFailsStep
  <2> QED BY <1>3, <2>1, <2>2, <2>3, <2>4
<1> QED BY <1>1, <1>2, <1>3 DEF Next

LEMMA Invariant == Spec => []IInv
<1>1. Init => IInv BY InitInvariant
<1>2. IInv /\ [Next]_vars => IInv' BY StepInvariant
<1> QED BY <1>1, <1>2, PTL DEF Spec

-----------------------------------------------------------------------------
(* The documents of all collections and the requests in hand are well formed. *)
THEOREM AccountsTypeCorrect == Spec => []TypeOK
<1>1. IInv => TypeOK BY DEF IInv
<1> QED BY <1>1, Invariant, PTL

(* No two users ever have one name or one email, however many registrations  *)
(* and profile updates look up a free one at the same time.                 *)
THEOREM NamesStayUnique == Spec => []UniqueUsers
<1>1. IInv => UniqueUsers BY DEF IInv
<1> QED BY <1>1, Invariant, PTL

(* A session of an old password outlives changePassword only when its        *)
(* sign-in was in flight, or the request stopped between its two writes.    *)
THEOREM OldPasswordEnds == Spec => []OldPasswordOut
<1>1. IInv => OldPasswordOut BY DEF IInv
<1> QED BY <1>1, Invariant, PTL

(* A deleted user has nothing left but what handlers already let in wrote    *)
(* after the purge, whatever part of a deletion failed before.              *)
THEOREM DeletionLeavesNothing == Spec => []NothingLeftBehind
<1>1. IInv => NothingLeftBehind BY DEF IInv, PurgedForGood, NothingLeftBehind, Deleting
<1> QED BY <1>1, Invariant, PTL

(* Only the handler of a request of its owner takes a push token out.       *)
LEMMA TokenTakenByOwner ==
    ASSUME IInv, [Next]_vars, NEW t \in Tokens, owner[t] # None, owner'[t] = None
    PROVE  \E r \in Requests : req[r].id = owner[t] /\ req'[r] # req[r]
<1>1. req \in [Requests -> Frame] /\ owner \in [Tokens -> Maybe(Ids)] BY DEF IInv, TypeOK
<1>2. ASSUME NEW r \in Requests, DeleteToken(r)
      PROVE  req[r].id = owner[t] /\ req'[r] # req[r]
  <2>1. req'[r] = Idle /\ req[r].at = "deleteToken"
    BY <1>1, <1>2 DEF DeleteToken, Finish, At
  <2>2. owner' = [owner EXCEPT ![req[r].arg] = IF @ = req[r].id THEN None ELSE @]
    BY <1>2 DEF DeleteToken
  <2> QED BY <1>1, <2>1, <2>2 DEF Idle
<1>3. ASSUME NEW r \in Requests, NEW k \in Kinds, Purge(r, k)
      PROVE  req[r].id = owner[t] /\ req'[r] # req[r]
  <2>1. owner' = [q \in Tokens |->
                   IF k = "pushTokens" /\ owner[q] = req[r].id THEN None ELSE owner[q]]
    BY <1>3 DEF Purge
  <2>2. req[r] \in Frame /\ k \in req[r].todo /\ req[r].at \in {"purge", "purgeFailed"}
        /\ AfterPurge(r, k, req[r].at)
    BY <1>1, <1>3 DEF Purge
  <2>3. req'[r].at # req[r].at \/ req'[r].todo # req[r].todo
    BY <1>1, <2>2 DEF AfterPurge, Frame, Idle
  <2> QED BY <2>1, <2>3
<1>4. ASSUME NEW r \in Requests, SaveToken(r) PROVE FALSE
  <2>1. req[r].id \in Ids
    BY <1>4 DEF SaveToken, At, IInv, Frames, FrameFits
  <2>2. owner' = [owner EXCEPT ![req[r].arg] = req[r].id] BY <1>4 DEF SaveToken
  <2> QED BY <1>1, <2>1, <2>2, ConstantsAssumption
<1>5. CASE UNCHANGED vars BY <1>5 DEF vars
<1>6. CASE \E s \in Sids : SessionExpires(s) BY <1>6 DEF SessionExpires
<1>7. ASSUME NEW r \in Requests,
             Call(r) \/ Handle(r) \/ Fail(r) \/ (\E k \in Kinds : PurgeFails(r, k))
      PROVE  DeleteToken(r) \/ SaveToken(r) \/ \E k \in Kinds : Purge(r, k)
  <2>1. CASE Call(r)
    BY <2>1 DEF Call, Register, Logout, SignIn, DeleteAccount, ChangePassword, UpdateProfile,
                PushToken, WriteDocument, owned
  <2>2. CASE Fail(r) \/ \E k \in Kinds : PurgeFails(r, k)
    BY <2>2 DEF Fail, PurgeFails, owned
  <2>3. CASE Handle(r)
    BY <2>3 DEF Handle, CreateSession, InsertUser, Welcome, RevokeSession, ComparePassword,
                WritePassword, RevokeAllSessions, ReadProfile, WriteProfile, RemoveUser,
                InsertDocument, owned
  <2> QED BY <1>7, <2>1, <2>2, <2>3
<1> QED BY <1>2, <1>3, <1>4, <1>5, <1>6, <1>7 DEF Next

(* A push token that was registered anew by another user is not taken out    *)
(* by the deletion, or the request, of the one who had it before.           *)
THEOREM TokenKept == Spec => TokenOfAnotherKept
<1>1. IInv /\ [Next]_vars =>
        [\A t \in Tokens : owner[t] # None /\ owner'[t] = None =>
            \E r \in Requests : req[r].id = owner[t] /\ req'[r] # req[r]]_vars
  BY TokenTakenByOwner
<1> QED BY <1>1, Invariant, PTL DEF Spec, TokenOfAnotherKept

=============================================================================
