------------------------------ MODULE Accounts ------------------------------
(***************************************************************************)
(* Users, their sessions and what they own in MongoDB: AuthService,         *)
(* UsersService, SessionsService, AccountsService, PushTokensService, the   *)
(* guard in front of every handler and the controllers that call them.      *)
(*                                                                         *)
(* A request is handled in one step per command to MongoDB; between two     *)
(* commands of one request any number of others are handled.  A request     *)
(* that is refused without having changed anything is not modelled.         *)
(*                                                                         *)
(* A username and an email stand for their normalised form, a password for  *)
(* its bcrypt hash, a token for its pair (provider, token).  A session that *)
(* is revoked, expired or deleted is "ended": every query that serves a     *)
(* request asks for one that is none of these.                              *)
(***************************************************************************)
EXTENDS Naturals, FiniteSets

CONSTANTS
    Ids,         \* ids of user documents, each used once
    Sids,        \* session ids, each used once
    Names, Emails, Passwords,
    Tokens,      \* push tokens
    Collections, \* the other collections with documents of a user
    Requests,    \* bound: how many requests are handled at a time
    Scenarios,   \* bound: the operations clients call in one run are one of these
    Faults,      \* a subset of {"error"}
    None

ASSUME ConstantsAssumption ==
    /\ "notifications" \in Collections
    /\ Collections \subseteq {"callLogs", "contacts", "notifications"}
    /\ None \notin Ids \cup Sids \cup Names \cup Emails \cup Passwords \cup Tokens \cup Collections

VARIABLES
    account,   \* whether a user document was never made, is there or was deleted
    username, email, password,  \* its fields
    session,   \* the documents of the sessions collection
    owner,     \* userId in the document of each push token
    documents, \* which users have documents in the other collections
    req,       \* the request each handler works on, and the step it is at
    ops,       \* the operations of this run
    late,      \* history: what was written for a user after it had been purged
    cut        \* history: users whose changePassword stopped before its last step

vars == <<account, username, email, password, session, owner, documents, req, ops, late, cut>>
user == <<account, username, email, password>>
owned == <<session, owner, documents, late>>

Kinds == {"sessions", "pushTokens"} \cup Collections

Steps == {"idle", "createSession", "insertUser", "firstSession", "welcome", "revoke",
          "comparePassword", "writePassword", "revokeAll", "readProfile", "writeProfile",
          "purge", "purgeFailed", "removeUser", "saveToken", "deleteToken", "insertDocument"}

Maybe(S) == S \cup {None}

Frame == [at : Steps, id : Maybe(Ids), name : Maybe(Names), mail : Maybe(Emails),
          pw : Maybe(Passwords), new : Maybe(Passwords),
          arg : Maybe(Sids \cup Tokens \cup Collections), todo : SUBSET Kinds]

Idle == [at |-> "idle", id |-> None, name |-> None, mail |-> None,
         pw |-> None, new |-> None, arg |-> None, todo |-> {}]

Init ==
    /\ account = [u \in Ids |-> "unused"]
    /\ username = [u \in Ids |-> None]
    /\ email = [u \in Ids |-> None]
    /\ password = [u \in Ids |-> None]
    /\ session = [s \in Sids |-> [state |-> "unused", id |-> None, pw |-> None, stale |-> FALSE]]
    /\ owner = [t \in Tokens |-> None]
    /\ documents = {}
    /\ req = [r \in Requests |-> Idle]
    /\ ops \in Scenarios
    /\ late = {} /\ cut = {}

At(r, step) == req[r].at = step
Begin(r, f) == At(r, "idle") /\ req' = [req EXCEPT ![r] = f]
Goto(r, step) == req' = [req EXCEPT ![r].at = step]
Finish(r) == req' = [req EXCEPT ![r] = Idle]

Here(u) == account[u] = "here"
Live(s) == session[s].state = "live"
Ended == [state |-> "ended", id |-> None, pw |-> None, stale |-> FALSE]

(* AuthGuard: findSessionById of the cookie's session.  Whether its user     *)
(* still exists is not asked.                                               *)
Authorized(u) == \E s \in Sids : Live(s) /\ session[s].id = u

(* The unique indexes on username and, where there is one, email.           *)
NameTaken(n) == \E v \in Ids : Here(v) /\ username[v] = n
Conflicts(u, n, m) == \E v \in Ids \ {u} :
    Here(v) /\ (username[v] \in {n} \ {None} \/ email[v] \in {m} \ {None})

(* Is a document of this kind written after the last purge of its user?     *)
Purged(k, u) ==
    \/ account[u] = "gone"
    \/ \E r \in Requests : /\ req[r].at \in {"purge", "purgeFailed", "removeUser"}
                           /\ req[r].id = u
                           /\ k \notin req[r].todo
Mark(k, u) == late' = IF Purged(k, u) THEN late \cup {<<k, u>>} ELSE late

-----------------------------------------------------------------------------
(* signIn *)

SignIn(r, u) ==
    /\ "signIn" \in ops
    /\ Here(u)
    /\ Begin(r, [Idle EXCEPT !.at = "createSession", !.id = u, !.pw = password[u]])
    /\ UNCHANGED <<user, owned, ops, cut>>

(* SessionsService.create, for signIn and for register; the password is the  *)
(* one the request was let in with.                                          *)
CreateSession(r) ==
    /\ req[r].at \in {"createSession", "firstSession"}
    /\ \E s \in Sids :
          /\ session[s].state = "unused"
          /\ session' = [session EXCEPT ![s] =
               [state |-> "live", id |-> req[r].id, pw |-> req[r].pw,
                stale |-> req[r].pw # password[req[r].id]]]
    /\ Mark("sessions", req[r].id)
    /\ IF At(r, "firstSession") THEN Goto(r, "welcome") ELSE Finish(r)
    /\ UNCHANGED <<user, owner, documents, ops, cut>>

-----------------------------------------------------------------------------
(* register *)

Register(r, n, p) ==
    /\ "register" \in ops
    /\ ~NameTaken(n)
    /\ Begin(r, [Idle EXCEPT !.at = "insertUser", !.name = n, !.pw = p])
    /\ UNCHANGED <<user, owned, ops, cut>>

(* Mutant: no unique index, the look-up before decides. *)
InsertUserUnchecked(r) ==
    /\ At(r, "insertUser")
    /\ \E u \in Ids :
            /\ account[u] = "unused"
            /\ account' = [account EXCEPT ![u] = "here"]
            /\ username' = [username EXCEPT ![u] = req[r].name]
            /\ password' = [password EXCEPT ![u] = req[r].pw]
            /\ req' = [req EXCEPT ![r].at = "firstSession", ![r].id = u, ![r].name = None]
    /\ UNCHANGED <<email, owned, ops, cut>>

InsertUser(r) ==
    /\ At(r, "insertUser")
    /\ IF NameTaken(req[r].name)
       THEN Finish(r) /\ UNCHANGED user
       ELSE \E u \in Ids :
            /\ account[u] = "unused"
            /\ account' = [account EXCEPT ![u] = "here"]
            /\ username' = [username EXCEPT ![u] = req[r].name]
            /\ password' = [password EXCEPT ![u] = req[r].pw]
            /\ req' = [req EXCEPT ![r].at = "firstSession", ![r].id = u, ![r].name = None]
            /\ UNCHANGED email
    /\ UNCHANGED <<owned, ops, cut>>

(* createServiceNotification *)
Welcome(r) ==
    /\ At(r, "welcome")
    /\ documents' = documents \cup {<<"notifications", req[r].id>>}
    /\ Mark("notifications", req[r].id)
    /\ Finish(r)
    /\ UNCHANGED <<user, session, owner, ops, cut>>

-----------------------------------------------------------------------------
(* logout, and the end of a session by its time *)

Logout(r, s) ==
    /\ "logout" \in ops
    /\ Live(s)
    /\ Begin(r, [Idle EXCEPT !.at = "revoke", !.arg = s])
    /\ UNCHANGED <<user, owned, ops, cut>>

RevokeSession(r) ==
    /\ At(r, "revoke")
    /\ session' = [session EXCEPT ![req[r].arg] = IF Live(req[r].arg) THEN Ended ELSE @]
    /\ Finish(r)
    /\ UNCHANGED <<user, owner, documents, late, ops, cut>>

SessionExpires(s) ==
    /\ Live(s)
    /\ session' = [session EXCEPT ![s] = Ended]
    /\ UNCHANGED <<user, owner, documents, late, req, ops, cut>>

-----------------------------------------------------------------------------
(* changePassword *)

ChangePassword(r, u, current, new) ==
    /\ "changePassword" \in ops
    /\ Authorized(u)
    /\ Begin(r, [Idle EXCEPT !.at = "comparePassword", !.id = u, !.pw = current, !.new = new])
    /\ UNCHANGED <<user, owned, ops, cut>>

ComparePassword(r) ==
    /\ At(r, "comparePassword")
    /\ IF Here(req[r].id) /\ password[req[r].id] = req[r].pw /\ req[r].pw # req[r].new
       THEN Goto(r, "writePassword")
       ELSE Finish(r)
    /\ UNCHANGED <<user, owned, ops, cut>>

(* Whatever the password is by now; a user who is gone is not missed.       *)
WritePassword(r) ==
    /\ At(r, "writePassword")
    /\ password' = [password EXCEPT ![req[r].id] = IF Here(req[r].id) THEN req[r].new ELSE @]
    /\ Goto(r, "revokeAll")
    /\ UNCHANGED <<account, username, email, owned, ops, cut>>

EndSessionsOf(u) ==
    session' = [s \in Sids |-> IF Live(s) /\ session[s].id = u THEN Ended ELSE session[s]]

(* Mutant: updateOne for updateMany. *)
RevokeAllButCurrent(r) ==
    /\ At(r, "revokeAll")
    /\ \E s \in Sids : session' = [session EXCEPT ![s] =
                          IF Live(s) /\ session[s].id = req[r].id THEN Ended ELSE @]
    /\ cut' = cut \ {req[r].id}
    /\ Finish(r)
    /\ UNCHANGED <<user, owner, documents, late, ops>>

RevokeAllSessions(r) ==
    /\ At(r, "revokeAll")
    /\ EndSessionsOf(req[r].id)
    /\ cut' = cut \ {req[r].id}
    /\ Finish(r)
    /\ UNCHANGED <<user, owner, documents, late, ops>>

-----------------------------------------------------------------------------
(* updateProfile *)

UpdateProfile(r, u, n, m) ==
    /\ "updateProfile" \in ops
    /\ Authorized(u)
    /\ n # None \/ m # None
    /\ Begin(r, [Idle EXCEPT !.at = "readProfile", !.id = u, !.name = n, !.mail = m])
    /\ UNCHANGED <<user, owned, ops, cut>>

(* buildProfileUpdateData: only what differs is written.                    *)
Unless(stored, given) == IF given = stored THEN None ELSE given

ReadProfile(r) ==
    /\ At(r, "readProfile")
    /\ LET u == req[r].id
           n == Unless(username[u], req[r].name)
           m == Unless(email[u], req[r].mail)
       IN  IF Here(u) /\ (n # None \/ m # None)
           THEN req' = [req EXCEPT ![r].at = "writeProfile", ![r].name = n, ![r].mail = m]
           ELSE Finish(r)
    /\ UNCHANGED <<user, owned, ops, cut>>

WriteProfile(r) ==
    /\ At(r, "writeProfile")
    /\ LET u == req[r].id n == req[r].name m == req[r].mail IN
       IF Here(u) /\ ~Conflicts(u, n, m)
       THEN /\ username' = [username EXCEPT ![u] = IF n = None THEN @ ELSE n]
            /\ email' = [email EXCEPT ![u] = IF m = None THEN @ ELSE m]
       ELSE UNCHANGED <<username, email>>
    /\ Finish(r)
    /\ UNCHANGED <<account, password, owned, ops, cut>>

-----------------------------------------------------------------------------
(* deleteAccount: five deletes at once, in any order; when all have          *)
(* succeeded, the user.                                                      *)

(* Mutant: the push tokens are forgotten. *)
DeleteAccountButTokens(r, u) ==
    /\ "deleteAccount" \in ops
    /\ Authorized(u)
    /\ Begin(r, [Idle EXCEPT !.at = "purge", !.id = u, !.todo = Kinds \ {"pushTokens"}])
    /\ UNCHANGED <<user, owned, ops, cut>>

DeleteAccount(r, u) ==
    /\ "deleteAccount" \in ops
    /\ Authorized(u)
    /\ Begin(r, [Idle EXCEPT !.at = "purge", !.id = u, !.todo = Kinds])
    /\ UNCHANGED <<user, owned, ops, cut>>

AfterPurge(r, k, step) ==
    LET f == req[r]
        rest == f.todo \ {k}
    IN  req' = [req EXCEPT ![r] =
          IF rest # {} THEN [f EXCEPT !.at = step, !.todo = rest]
          ELSE IF step = "purge" THEN [f EXCEPT !.at = "removeUser", !.todo = {}]
          ELSE Idle]

Purge(r, k) ==
    /\ req[r].at \in {"purge", "purgeFailed"}
    /\ k \in req[r].todo
    /\ IF k = "sessions" THEN EndSessionsOf(req[r].id) ELSE UNCHANGED session
    /\ owner' = [t \in Tokens |->
                   IF k = "pushTokens" /\ owner[t] = req[r].id THEN None ELSE owner[t]]
    /\ documents' = documents \ {<<k, req[r].id>>}
    /\ late' = late \ {<<k, req[r].id>>}
    /\ AfterPurge(r, k, req[r].at)
    /\ UNCHANGED <<user, ops, cut>>

(* One of the five fails: Promise.all rejects, but the others still run.     *)
PurgeFails(r, k) ==
    /\ "error" \in Faults
    /\ req[r].at \in {"purge", "purgeFailed"}
    /\ k \in req[r].todo
    /\ AfterPurge(r, k, "purgeFailed")
    /\ UNCHANGED <<user, owned, ops, cut>>

RemoveUser(r) ==
    /\ At(r, "removeUser")
    /\ LET u == req[r].id IN
          /\ account' = [account EXCEPT ![u] = "gone"]
          /\ username' = [username EXCEPT ![u] = None]
          /\ email' = [email EXCEPT ![u] = None]
          /\ password' = [password EXCEPT ![u] = None]
    /\ Finish(r)
    /\ UNCHANGED <<owned, ops, cut>>

-----------------------------------------------------------------------------
(* PushTokensController, and any handler that writes a document of a user:   *)
(* a contact or a call's log and notifications.                              *)

PushToken(r, u, t, step) ==
    /\ step \in {"saveToken", "deleteToken"} \cap ops
    /\ Authorized(u)
    /\ Begin(r, [Idle EXCEPT !.at = step, !.id = u, !.arg = t])
    /\ UNCHANGED <<user, owned, ops, cut>>

(* Mutant: the token is saved as its own user. *)
SaveTokenOfItself(r) ==
    /\ At(r, "saveToken")
    /\ owner' = [owner EXCEPT ![req[r].arg] = req[r].arg]
    /\ Mark("pushTokens", req[r].id)
    /\ Finish(r)
    /\ UNCHANGED <<user, session, documents, ops, cut>>

SaveToken(r) ==
    /\ At(r, "saveToken")
    /\ owner' = [owner EXCEPT ![req[r].arg] = req[r].id]
    /\ Mark("pushTokens", req[r].id)
    /\ Finish(r)
    /\ UNCHANGED <<user, session, documents, ops, cut>>

(* Mutant: the filter has the token only. *)
DeleteAnyToken(r) ==
    /\ At(r, "deleteToken")
    /\ owner' = [owner EXCEPT ![req[r].arg] = None]
    /\ Finish(r)
    /\ UNCHANGED <<user, session, documents, late, ops, cut>>

DeleteToken(r) ==
    /\ At(r, "deleteToken")
    /\ owner' = [owner EXCEPT ![req[r].arg] = IF @ = req[r].id THEN None ELSE @]
    /\ Finish(r)
    /\ UNCHANGED <<user, session, documents, late, ops, cut>>

(* None of these handlers asks whether the user they write for still exists: *)
(* a contact's owner is known from a session, a call's users from its record.*)
WriteDocument(r, u, k) ==
    /\ "insertDocument" \in ops
    /\ account[u] # "unused"
    /\ Begin(r, [Idle EXCEPT !.at = "insertDocument", !.id = u, !.arg = k])
    /\ UNCHANGED <<user, owned, ops, cut>>

InsertDocument(r) ==
    /\ At(r, "insertDocument")
    /\ documents' = documents \cup {<<req[r].arg, req[r].id>>}
    /\ Mark(req[r].arg, req[r].id)
    /\ Finish(r)
    /\ UNCHANGED <<user, session, owner, ops, cut>>

-----------------------------------------------------------------------------
(* A command fails, or the process dies: the handler ends where it is, and   *)
(* what it has written stays.                                                *)
Fail(r) ==
    /\ "error" \in Faults
    /\ ~At(r, "idle")
    /\ cut' = IF At(r, "revokeAll") THEN cut \cup {req[r].id} ELSE cut
    /\ Finish(r)
    /\ UNCHANGED <<user, owned, ops>>

Call(r) ==
    \/ \E n \in Names, p \in Passwords : Register(r, n, p)
    \/ \E s \in Sids : Logout(r, s)
    \/ \E u \in Ids :
          \/ SignIn(r, u) \/ DeleteAccount(r, u)
          \/ \E p, q \in Passwords : ChangePassword(r, u, p, q)
          \/ \E n \in Maybe(Names), m \in Maybe(Emails) : UpdateProfile(r, u, n, m)
          \/ \E t \in Tokens, step \in {"saveToken", "deleteToken"} : PushToken(r, u, t, step)
          \/ \E k \in Collections : WriteDocument(r, u, k)

Handle(r) ==
    \/ CreateSession(r) \/ InsertUser(r) \/ Welcome(r) \/ RevokeSession(r)
    \/ ComparePassword(r) \/ WritePassword(r) \/ RevokeAllSessions(r)
    \/ ReadProfile(r) \/ WriteProfile(r)
    \/ (\E k \in Kinds : Purge(r, k)) \/ RemoveUser(r)
    \/ SaveToken(r) \/ DeleteToken(r) \/ InsertDocument(r)

Next ==
    \/ \E r \in Requests : Call(r) \/ Handle(r) \/ Fail(r) \/ (\E k \in Kinds : PurgeFails(r, k))
    \/ \E s \in Sids : SessionExpires(s)

Spec == Init /\ [][Next]_vars

-----------------------------------------------------------------------------
(* Properties *)

TypeOK ==
    /\ account \in [Ids -> {"unused", "here", "gone"}]
    /\ username \in [Ids -> Maybe(Names)]
    /\ email \in [Ids -> Maybe(Emails)]
    /\ password \in [Ids -> Maybe(Passwords)]
    /\ session \in [Sids -> [state : {"unused", "live", "ended"}, id : Maybe(Ids),
                             pw : Maybe(Passwords), stale : BOOLEAN]]
    /\ owner \in [Tokens -> Maybe(Ids)]
    /\ documents \subseteq Collections \X Ids
    /\ req \in [Requests -> Frame]
    /\ ops \in Scenarios
    /\ late \subseteq Kinds \X Ids
    /\ cut \subseteq Ids

(* Whatever registrations and profile updates look up before they write, no  *)
(* two users have one name or one email.                                     *)
UniqueUsers == \A u, v \in Ids : Here(u) /\ Here(v) /\ u # v =>
    /\ username[u] # username[v]
    /\ email[u] # None => email[u] # email[v]

(* A session opened with a password that is not the user's any more ends: it *)
(* is valid only until changePassword gets to its last step, or when that    *)
(* step was never reached, or because its sign-in had compared the password  *)
(* before the change and was completed after it ("stale").                   *)
OldPasswordOut == \A s \in Sids :
    Live(s) /\ Here(session[s].id) /\ session[s].pw # password[session[s].id] =>
       \/ session[s].stale
       \/ session[s].id \in cut
       \/ \E r \in Requests : At(r, "revokeAll") /\ req[r].id = session[s].id

Has(k, u) ==
    \/ k = "sessions" /\ \E s \in Sids : Live(s) /\ session[s].id = u
    \/ k = "pushTokens" /\ \E t \in Tokens : owner[t] = u
    \/ <<k, u>> \in documents

(* A user whose account was deleted leaves nothing in any collection but     *)
(* what was written after the collection was purged: by handlers let in      *)
(* before, by those that a session such a handler opened lets in afterwards, *)
(* or by jobs that never ask.  All that was there before is gone: a delete   *)
(* that failed, alone or next to another, does not leave a user half gone    *)
(* and call it deleted.                                                      *)
NothingLeftBehind == \A u \in Ids, k \in Kinds :
    account[u] = "gone" /\ Has(k, u) => <<k, u>> \in late

(* A push token that another user has registered meanwhile is not lost: only *)
(* a request of its owner takes it out.                                      *)
TokenOfAnotherKept == [][\A t \in Tokens :
    owner[t] # None /\ owner'[t] = None =>
       \E r \in Requests : req[r].id = owner[t] /\ req'[r] # req[r]]_vars

=============================================================================
