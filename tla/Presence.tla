------------------------------ MODULE Presence ------------------------------
(***************************************************************************)
(* Who is online: PresenceService (three kinds of keys in Redis) driven by *)
(* the connections of RealtimeGateway, which registers a socket, refreshes *)
(* it on a timer and takes it back when the socket disconnects.            *)
(*                                                                         *)
(* Each handler is a task that advances by one Redis command or MULTI per  *)
(* action; what it read is what its next command is chosen by.  Any number *)
(* of tasks overlap, of one socket or of several.                          *)
(*                                                                         *)
(* Left out here: the presence subscriptions and the messages sent to      *)
(* watchers, whose only effect on these keys is the cleanup that           *)
(* isUserOnline and getSocketIdsForUser do first (the "cleanup" task).     *)
(***************************************************************************)
EXTENDS Naturals, FiniteSets

CONSTANTS
    Users,    \* user ids
    Sockets,  \* socket ids, each used for one connection
    UserOf,   \* the user of the session in each socket's handshake
    Faults,   \* a subset of {"crash", "earlyDisconnect"}
    None      \* an absent key

ASSUME ConstantsAssumption ==
    /\ UserOf \in [Sockets -> Users]
    /\ Faults \subseteq {"crash", "earlyDisconnect"}
    /\ None \notin Users

VARIABLES
    socketUser,   \* presence:socket:<id>:user
    userSockets,  \* presence:user:<id>:sockets, the members of the sorted set
    due,          \* the members whose score (expiresAt) has passed
    online,       \* presence:online_users
    link,         \* the transport of each socket
    timer,        \* the sockets whose presenceRefreshInterval is set
    at,           \* the next command of each task
    expired       \* what zRangeByScore answered to the cleanup of each user

vars == <<socketUser, userSockets, due, online, link, timer, at, expired>>
keys == <<socketUser, userSockets, due, online>>

Tasks == ({"connect", "disconnect", "refresh"} \X Sockets) \cup ({"cleanup"} \X Users)

Steps == {"idle", "auth", "exists", "register", "interval", "whose", "remove",
          "renew", "purge", "count", "forget"}

TaskUser(t) == IF t[1] = "cleanup" THEN t[2] ELSE UserOf[t[2]]

Init ==
    /\ socketUser = [s \in Sockets |-> None]
    /\ userSockets = [u \in Users |-> {}]
    /\ due = {}
    /\ online = {}
    /\ link = [s \in Sockets |-> "new"]
    /\ timer = {}
    /\ at = [t \in Tasks |-> "idle"]
    /\ expired = [u \in Users |-> {}]

Goto(t, step) == at' = [at EXCEPT ![t] = step]

(* zAdd with a score ten minutes ahead, and sAdd, in one MULTI.             *)
Enlist(s) ==
    /\ userSockets' = [userSockets EXCEPT ![UserOf[s]] = @ \cup {s}]
    /\ due' = due \ {s}
    /\ online' = online \cup {UserOf[s]}

(* zRem *)
Strike(u, S) ==
    /\ userSockets' = [userSockets EXCEPT ![u] = @ \ S]
    /\ due' = due \ S

-----------------------------------------------------------------------------
(* handleConnection and markSocketOnline *)

Connect(s) ==
    /\ link[s] = "new"
    /\ link' = [link EXCEPT ![s] = "open"]
    /\ Goto(<<"connect", s>>, "auth")
    /\ UNCHANGED <<keys, timer, expired>>

(* extractUserId finds the session ... *)
Authenticate(s) ==
    /\ at[<<"connect", s>>] = "auth"
    /\ Goto(<<"connect", s>>, "exists")
    /\ UNCHANGED <<keys, link, timer, expired>>

(* ... or does not, and the gateway closes the socket.                      *)
Reject(s) ==
    /\ at[<<"connect", s>>] = "auth"
    /\ IF link[s] = "open"
       THEN at' = [at EXCEPT ![<<"connect", s>>] = "idle", ![<<"disconnect", s>>] = "whose"]
       ELSE Goto(<<"connect", s>>, "idle")
    /\ link' = [link EXCEPT ![s] = "closed"]
    /\ UNCHANGED <<keys, timer, expired>>

CheckRegistered(s) ==
    /\ at[<<"connect", s>>] = "exists"
    /\ Goto(<<"connect", s>>, IF socketUser[s] = None THEN "register" ELSE "interval")
    /\ UNCHANGED <<keys, link, timer, expired>>

(* Mutant: key and value of SET swapped. *)
RegisterSwapped(s) ==
    /\ at[<<"connect", s>>] = "register"
    /\ socketUser' = [socketUser EXCEPT ![s] = s]
    /\ Enlist(s)
    /\ Goto(<<"connect", s>>, "interval")
    /\ UNCHANGED <<link, timer, expired>>

Register(s) ==
    /\ at[<<"connect", s>>] = "register"
    /\ socketUser' = [socketUser EXCEPT ![s] = UserOf[s]]
    /\ Enlist(s)
    /\ Goto(<<"connect", s>>, "interval")
    /\ UNCHANGED <<link, timer, expired>>

(* Back from markSocketOnline, whatever became of the socket meanwhile.     *)
SetRefreshInterval(s) ==
    /\ at[<<"connect", s>>] = "interval"
    /\ timer' = timer \cup {s}
    /\ Goto(<<"connect", s>>, "idle")
    /\ UNCHANGED <<keys, link, expired>>

-----------------------------------------------------------------------------
(* refreshSocket, on every tick of the interval *)

Tick(s) ==
    /\ s \in timer
    /\ at[<<"refresh", s>>] = "idle"
    /\ socketUser[s] = UserOf[s]
    /\ Goto(<<"refresh", s>>, "renew")
    /\ UNCHANGED <<keys, link, timer, expired>>

(* Mutants: the refresh leaves out sAdd; the refresh only extends the key.   *)
RenewEntryOnly(s) ==
    /\ at[<<"refresh", s>>] = "renew"
    /\ userSockets' = [userSockets EXCEPT ![UserOf[s]] = @ \cup {s}]
    /\ due' = due \ {s}
    /\ Goto(<<"refresh", s>>, "idle")
    /\ UNCHANGED <<socketUser, online, link, timer, expired>>

RenewKeyOnly(s) ==
    /\ at[<<"refresh", s>>] = "renew"
    /\ Goto(<<"refresh", s>>, "idle")
    /\ UNCHANGED <<keys, link, timer, expired>>

(* EXPIRE of a key that is gone does nothing; the rest of the MULTI does.   *)
Renew(s) ==
    /\ at[<<"refresh", s>>] = "renew"
    /\ Enlist(s)
    /\ Goto(<<"refresh", s>>, "idle")
    /\ UNCHANGED <<socketUser, link, timer, expired>>

-----------------------------------------------------------------------------
(* handleDisconnect and markSocketOffline *)

Disconnect(s) ==
    /\ link[s] = "open"
    /\ "earlyDisconnect" \notin Faults => at[<<"connect", s>>] = "idle"
    /\ link' = [link EXCEPT ![s] = "closed"]
    /\ timer' = timer \ {s}
    /\ Goto(<<"disconnect", s>>, "whose")
    /\ UNCHANGED <<keys, expired>>

FindUser(s) ==
    /\ at[<<"disconnect", s>>] = "whose"
    /\ Goto(<<"disconnect", s>>, IF socketUser[s] = None THEN "idle" ELSE "remove")
    /\ UNCHANGED <<keys, link, timer, expired>>

RemoveSocket(s) ==
    /\ at[<<"disconnect", s>>] = "remove"
    /\ socketUser' = [socketUser EXCEPT ![s] = None]
    /\ Strike(UserOf[s], {s})
    /\ Goto(<<"disconnect", s>>, "count")
    /\ UNCHANGED <<online, link, timer, expired>>

(* Mutant: the socket that leaves is counted. *)
CountLastSocket(t) ==
    /\ at[t] = "count"
    /\ Goto(t, IF Cardinality(userSockets[TaskUser(t)]) = 1 THEN "forget" ELSE "idle")
    /\ UNCHANGED <<keys, link, timer, expired>>

(* The last two commands are the same in cleanupExpiredSocketsForUser.      *)
CountSockets(t) ==
    /\ at[t] = "count"
    /\ Goto(t, IF userSockets[TaskUser(t)] = {} THEN "forget" ELSE "idle")
    /\ UNCHANGED <<keys, link, timer, expired>>

ForgetUser(t) ==
    /\ at[t] = "forget"
    /\ userSockets' = [userSockets EXCEPT ![TaskUser(t)] = {}]
    /\ due' = due \ userSockets[TaskUser(t)]
    /\ online' = online \ {TaskUser(t)}
    /\ Goto(t, "idle")
    /\ UNCHANGED <<socketUser, link, timer, expired>>

-----------------------------------------------------------------------------
(* cleanupExpiredSocketsForUser, run by isUserOnline, getOnlineUserIds and  *)
(* getSocketIdsForUser before they answer.  It returns if nothing is due.   *)

ReadExpired(u) ==
    /\ at[<<"cleanup", u>>] = "idle"
    /\ userSockets[u] \cap due # {}
    /\ expired' = [expired EXCEPT ![u] = userSockets[u] \cap due]
    /\ Goto(<<"cleanup", u>>, "purge")
    /\ UNCHANGED <<keys, link, timer>>

PurgeExpired(u) ==
    /\ at[<<"cleanup", u>>] = "purge"
    /\ socketUser' = [s \in Sockets |-> IF s \in expired[u] THEN None ELSE socketUser[s]]
    /\ Strike(u, expired[u])
    /\ expired' = [expired EXCEPT ![u] = {}]
    /\ Goto(<<"cleanup", u>>, "count")
    /\ UNCHANGED <<online, link, timer>>

-----------------------------------------------------------------------------
(* Time and faults.  Keys are written for 600 s and refreshed every 120 s:  *)
(* assumed is that the refresh of a socket that is kept comes in time.      *)

Kept(s) ==
    \/ s \in timer /\ socketUser[s] # None
    \/ at[<<"connect", s>>] = "interval"

(* Mutant: the score is out of reach (seconds taken for milliseconds). *)
EntryNeverDue(s) == FALSE

EntryFallsDue(s) ==
    /\ s \in userSockets[UserOf[s]] \ due
    /\ ~Kept(s)
    /\ due' = due \cup {s}
    /\ UNCHANGED <<socketUser, userSockets, online, link, timer, at, expired>>

SocketKeyExpires(s) ==
    /\ socketUser[s] # None
    /\ ~Kept(s)
    /\ socketUser' = [socketUser EXCEPT ![s] = None]
    /\ UNCHANGED <<userSockets, due, online, link, timer, at, expired>>

(* The process that serves the socket dies, before handleDisconnect runs or  *)
(* in the middle of it.  (Bound: the readers' cleanup is not interrupted.)   *)
ServerDies(s) ==
    /\ "crash" \in Faults
    /\ \/ link[s] = "open"
       \/ link[s] = "closed" /\ at[<<"disconnect", s>>] # "idle"
    /\ link' = [link EXCEPT ![s] = "dead"]
    /\ timer' = timer \ {s}
    /\ at' = [t \in Tasks |-> IF t[1] # "cleanup" /\ t[2] = s THEN "idle" ELSE at[t]]
    /\ UNCHANGED <<keys, expired>>

-----------------------------------------------------------------------------
Handle(t) ==
    \/ \E s \in Sockets :
          \/ t = <<"connect", s>> /\ (\/ Authenticate(s) \/ Reject(s) \/ CheckRegistered(s)
                                      \/ Register(s) \/ SetRefreshInterval(s))
          \/ t = <<"refresh", s>> /\ (Tick(s) \/ Renew(s))
          \/ t = <<"disconnect", s>> /\ (FindUser(s) \/ RemoveSocket(s))
    \/ \E u \in Users : t = <<"cleanup", u>> /\ PurgeExpired(u)
    \/ CountSockets(t)
    \/ ForgetUser(t)

Next ==
    \/ \E t \in Tasks : Handle(t)
    \/ \E s \in Sockets : \/ Connect(s) \/ Disconnect(s) \/ ServerDies(s)
                          \/ EntryFallsDue(s) \/ SocketKeyExpires(s)
    \/ \E u \in Users : ReadExpired(u)

(* Redis answers, timers tick and time passes; nobody has to connect, to     *)
(* disconnect or to ask who is online.                                      *)
Fairness ==
    /\ \A t \in Tasks : WF_vars(Handle(t))
    /\ \A s \in Sockets : WF_vars(EntryFallsDue(s))

Spec == Init /\ [][Next]_vars
FairSpec == Spec /\ Fairness

-----------------------------------------------------------------------------
(* Properties *)

TypeOK ==
    /\ socketUser \in [Sockets -> Users \cup {None}]
    /\ userSockets \in [Users -> SUBSET Sockets]
    /\ due \subseteq Sockets
    /\ online \subseteq Users
    /\ link \in [Sockets -> {"new", "open", "closed", "dead"}]
    /\ timer \subseteq Sockets
    /\ at \in [Tasks -> Steps]
    /\ expired \in [Users -> SUBSET Sockets]

(* getOnlineUserIds asks only for the users in presence:online_users: no    *)
(* order of the handlers' commands loses a user who still has sockets.      *)
IndexComplete == \A u \in Users : userSockets[u] # {} => u \in online

(* A user without sockets stays in the index only while some handler is     *)
(* about to look, or because a server died before it did: whoever leaves    *)
(* last takes the user out.                                                 *)
IndexExact == \A u \in Users : u \in online /\ userSockets[u] = {} =>
    \/ \E t \in Tasks : TaskUser(t) = u /\ at[t] \in {"count", "forget"}
    \/ \E s \in Sockets : UserOf[s] = u /\ link[s] = "dead"

(* isUserOnline counts the sockets whose score has not passed.              *)
Counted(s) == s \in userSockets[UserOf[s]] \ due

(* Whatever a handler that raced with it removed, a connected socket is     *)
(* counted again, for good: the refresh repairs the set.                    *)
ConnectedIsCounted == \A s \in Sockets :
    <>[](link[s] = "open" => Counted(s) /\ UserOf[s] \in online)

(* A socket that is gone stops counting, for good, although a refresh in    *)
(* flight may have put it back and a dead process never took it out.        *)
GoneIsNotCounted == \A s \in Sockets : <>[](link[s] \in {"closed", "dead"} => ~Counted(s))

=============================================================================
