----------------------- MODULE PresenceSubscriptions -----------------------
(***************************************************************************)
(* Who hears about whom: PresenceSubscriptionsService (two sorted sets in   *)
(* Redis for each user) and the messages of RealtimeGateway, which tells    *)
(* the watchers of a user that it came or went and answers a subscription   *)
(* with the presence of the users it names.                                 *)
(*                                                                         *)
(* A handler is a task that advances by one Redis command or MULTI per      *)
(* action.  Of PresenceService this module has the set of sockets of each   *)
(* user, with every step that changes it: markSocketOnline, refreshSocket,  *)
(* markSocketOffline (which leaves, counts, and deletes the set in three    *)
(* steps) and the cleanup.  Its index of online users and the expiry of its *)
(* keys one by one are the subject of module Presence.                      *)
(*                                                                         *)
(* An entry is a pair <<subscriber, watched user>>.  It may stand in the    *)
(* watchers key of its second user and in the watched key of its first.     *)
(***************************************************************************)
EXTENDS Naturals, FiniteSets

CONSTANTS
    Users,    \* user ids
    Sockets,  \* connections, one after the other: a client may connect again
    UserOf,   \* the user of the session in each socket's handshake
    Wants,    \* the userIds of the presence.subscribe message of each client
    Scenarios, \* which sockets leave, return and die in a behaviour (a bound)
    Faults    \* a subset of {"earlyDisconnect", "slow"}

ASSUME ConstantsAssumption ==
    /\ UserOf \in [Sockets -> Users]
    /\ Wants \in [Sockets -> SUBSET Users]
    /\ Scenarios \subseteq [leave : SUBSET Sockets, return : SUBSET Sockets, die : SUBSET Sockets]
    /\ Faults \subseteq {"earlyDisconnect", "slow"}

VARIABLES
    watchers,  \* presence_subscriptions:watchers:<id>, for all ids
    watched,   \* presence_subscriptions:watched:<id>, for all ids
    due,       \* the entries whose score (expiresAt) has passed
    present,   \* presence:user:<id>:sockets, the members for all ids
    link,      \* the transport of each socket
    ticking,   \* the sockets whose presenceRefreshInterval is set
    at,        \* the next command of each task
    found,     \* the entries each task last read and still has to deal with
    seen,      \* onlineUsers of each subscribe handler
    told,      \* what each client was last told of each user: see Hear
    scenario   \* which sockets leave, return and die (never changes)

vars == <<watchers, watched, due, present, link, ticking, at, found, seen, told, scenario>>
keys == <<watchers, watched, due>>

Entries == Users \X Users
Handlers == {"connect", "disconnect", "rejoin", "lapse", "refresh", "subscribe"}
Tasks == Handlers \X Sockets

Steps == {"idle", "register", "rejoin", "count", "wipe",
          "getWatchers", "dropWatchers", "listWatchers", "announce",
          "dropFirst", "getWatched", "dropWatched", "listWatched", "rewrite", "enlist", "ask"}

TaskUser(t) == UserOf[t[2]]
SocketsOf(u) == {s \in Sockets : UserOf[s] = u}
WatchersOf(u) == {e \in watchers : e[2] = u}
WatchedBy(u) == {e \in watched : e[1] = u}

OnlineAmong(U) == {u \in U : present \cap SocketsOf(u) # {}}
State(P, u) == IF P \cap SocketsOf(u) = {} THEN "offline" ELSE "online"

Init ==
    /\ watchers = {} /\ watched = {} /\ due = {}
    /\ present = {}
    /\ link = [s \in Sockets |-> "new"]
    /\ scenario \in Scenarios
    /\ ticking = {}
    /\ at = [t \in Tasks |-> "idle"]
    /\ found = [t \in Tasks |-> {}]
    /\ seen = [s \in Sockets |-> {}]
    /\ told = [s \in Sockets |-> [u \in Users |-> "unsure"]]

Goto(t, step) == at' = [at EXCEPT ![t] = step]
Keep(t, E) == found' = [found EXCEPT ![t] = E]

(* A client hears a message about u.  It knows better only if the message is *)
(* true as it leaves and the client is listed for the messages to come.      *)
Hear(s, u, state) ==
    IF state = State(present, u) /\ <<UserOf[s], u>> \in watchers THEN state ELSE "unsure"

(* Whoever was told otherwise of u is unsure when `present` changes without  *)
(* a message.                                                               *)
Unannounced(u) == told' = [s \in Sockets |-> [v \in Users |->
    IF /\ v = u
       /\ State(present', u) # State(present, u)
       /\ told[s][u] # State(present', u)
    THEN "unsure" ELSE told[s][v]]]

(* Whose entry is gone hears of no change from now on.                       *)
Unlearn(E) == told' = [s \in Sockets |-> [u \in Users |->
                          IF <<UserOf[s], u>> \in E THEN "unsure" ELSE told[s][u]]]

(* zRem of entries from both keys, in one MULTI.                            *)
Strike(E) ==
    /\ watchers' = watchers \ E
    /\ watched' = watched \ E
    /\ due' = due \ E
    /\ Unlearn(E)

(* zAdd of entries to both keys, in one MULTI, with one score.              *)
Enlist(E) ==
    /\ watchers' = watchers \cup E
    /\ watched' = watched \cup E
    /\ due' = due \ E

-----------------------------------------------------------------------------
(* The sockets of a user: markSocketOnline in handleConnection,              *)
(* markSocketOffline in handleDisconnect, refreshSocket on every tick of the *)
(* interval, and the cleanup of expired sockets by whoever asks.  (Bound: a  *)
(* name stands for one socket after the other; it is free when nothing of    *)
(* the last one is left that could be taken for the next one's.)             *)

Connect(s) ==
    /\ link[s] = "new" \/ (link[s] = "closed" /\ s \in scenario.return)
    /\ s \notin present \cup ticking
    /\ \A h \in Handlers \ {"disconnect", "refresh"} : at[<<h, s>>] = "idle"
    /\ link' = [link EXCEPT ![s] = "open"]
    /\ Goto(<<"connect", s>>, "register")
    /\ UNCHANGED <<keys, present, ticking, found, seen, told, scenario>>

(* Mutant: the arguments of markSocketOnline are swapped. *)
RegisterUser(s) ==
    /\ at[<<"connect", s>>] = "register"
    /\ present' = present \cup {UserOf[s]}
    /\ ticking' = ticking \cup {s}
    /\ Goto(<<"connect", s>>, "getWatchers")
    /\ UNCHANGED <<keys, link, found, seen, told, scenario>>

(* The MULTI of markSocketOnline, and the interval is set.                   *)
Register(s) ==
    /\ at[<<"connect", s>>] = "register"
    /\ present' = present \cup {s}
    /\ ticking' = ticking \cup {s}
    /\ Goto(<<"connect", s>>, "getWatchers")
    /\ UNCHANGED <<keys, link, found, seen, told, scenario>>

(* Mutant: clearInterval is forgotten. *)
DisconnectKeepsInterval(s) ==
    /\ link[s] = "open" /\ s \in scenario.leave /\ at[<<"disconnect", s>>] = "idle"
    /\ "earlyDisconnect" \notin Faults => at[<<"connect", s>>] # "register"
    /\ link' = [link EXCEPT ![s] = "closed"]
    /\ IF at[<<"connect", s>>] = "register" THEN UNCHANGED <<present, at>>
       ELSE /\ present' = present \ {s}
            /\ \E late \in {"idle", "rejoin"} :
                 at' = [at EXCEPT ![<<"disconnect", s>>] = "count", ![<<"rejoin", s>>] = late]
    /\ told' = [told EXCEPT ![s] = [u \in Users |-> "unsure"]]
    /\ UNCHANGED <<keys, ticking, found, seen, scenario>>

(* clearInterval, and markSocketOffline up to its first MULTI, unless the    *)
(* key of a socket that is not registered yet ends it.                       *)
Disconnect(s) ==
    /\ link[s] = "open" /\ s \in scenario.leave /\ at[<<"disconnect", s>>] = "idle"
    /\ "earlyDisconnect" \notin Faults => at[<<"connect", s>>] # "register"
    /\ link' = [link EXCEPT ![s] = "closed"]
    /\ ticking' = ticking \ {s}
    /\ IF at[<<"connect", s>>] = "register" THEN UNCHANGED <<present, at>>
       ELSE /\ present' = present \ {s}
            /\ \E late \in {"idle", "rejoin"} :
                 at' = [at EXCEPT ![<<"disconnect", s>>] = "count", ![<<"rejoin", s>>] = late]
    /\ told' = [told EXCEPT ![s] = [u \in Users |-> "unsure"]]
    /\ UNCHANGED <<keys, found, seen, scenario>>

(* zCard, of a disconnect or of a cleanup that removed an expired socket.    *)
Count(t) ==
    /\ at[t] = "count"
    /\ Goto(t, IF State(present, TaskUser(t)) = "offline" THEN "wipe" ELSE "idle")
    /\ UNCHANGED <<keys, present, link, ticking, found, seen, told, scenario>>

(* The set is deleted, with what was added to it since it was counted.       *)
(* Only handleDisconnect tells anybody (becameOffline).                      *)
Wipe(t) ==
    /\ at[t] = "wipe"
    /\ present' = present \ SocketsOf(TaskUser(t))
    /\ \/ t[1] = "disconnect" /\ Goto(t, "getWatchers") /\ UNCHANGED told
       \/ t[1] = "lapse" /\ Goto(t, "idle") /\ Unannounced(TaskUser(t))
    /\ UNCHANGED <<keys, link, ticking, found, seen, scenario>>

(* refreshSocket: the key of a socket that ticks is there, and zAdd brings    *)
(* the socket back into a set that was deleted, without telling anybody.  A  *)
(* refresh that read the key before a disconnect may write after it.         *)
Rejoin(s) ==
    /\ s \in ticking \ present \/ at[<<"rejoin", s>>] = "rejoin"
    /\ present' = present \cup {s}
    /\ Unannounced(UserOf[s])
    /\ Goto(<<"rejoin", s>>, "idle")
    /\ UNCHANGED <<keys, link, ticking, found, seen, scenario>>

-----------------------------------------------------------------------------
(* getWatchers and getWatchedUsers: cleanupExpiredSubscriptionsFor..., then   *)
(* the list.  (Bound: a cleanup that finds nothing due is one step with the   *)
(* list that follows; its only command is a read.)                           *)

List(t) == IF at[t] \in {"getWatchers", "listWatchers"}
           THEN WatchersOf(TaskUser(t)) ELSE WatchedBy(TaskUser(t))

FindDue(t) ==
    /\ at[t] \in {"getWatchers", "getWatched"}
    /\ List(t) \cap due # {}
    /\ Keep(t, List(t) \cap due)
    /\ Goto(t, IF at[t] = "getWatchers" THEN "dropWatchers" ELSE "dropWatched")
    /\ UNCHANGED <<keys, present, link, ticking, seen, told, scenario>>

Dropped(t) == IF at[t] = "dropWatchers" THEN "listWatchers"
              ELSE IF at[t] = "dropFirst" THEN "getWatched" ELSE "listWatched"

(* What was due leaves both keys, although it may have been renewed since.   *)
(* Mutant: the other key is forgotten.                                      *)
DropDueOneSided(t) ==
    /\ at[t] \in {"dropWatchers", "dropFirst", "dropWatched"}
    /\ watchers' = watchers \ found[t]
    /\ due' = due \ found[t]
    /\ Unlearn(found[t])
    /\ Keep(t, {})
    /\ Goto(t, Dropped(t))
    /\ UNCHANGED <<watched, present, link, ticking, seen, scenario>>

DropDue(t) ==
    /\ at[t] \in {"dropWatchers", "dropFirst", "dropWatched"}
    /\ Strike(found[t])
    /\ Keep(t, {})
    /\ Goto(t, Dropped(t))
    /\ UNCHANGED <<present, link, ticking, seen, scenario>>

(* The list may be read at once when nothing is due.                        *)
Listing(t, get, list) ==
    \/ at[t] = list
    \/ at[t] = get /\ List(t) \cap due = {}

-----------------------------------------------------------------------------
(* The message to every socket of every watcher                              *)

Announced(t) == IF t[1] = "connect" THEN "idle" ELSE "getWatched"

ListWatchers(t) ==
    /\ Listing(t, "getWatchers", "listWatchers")
    /\ Keep(t, List(t))
    /\ Goto(t, IF List(t) = {} THEN Announced(t) ELSE "announce")
    /\ UNCHANGED <<keys, present, link, ticking, seen, told, scenario>>

(* Mutant: the user who came is told of it, not those who watch. *)
AnnounceToSelf(t) ==
    /\ at[t] = "announce"
    /\ told' = [s \in Sockets |->
          IF s \in present /\ link[s] = "open" /\ UserOf[s] = TaskUser(t)
          THEN [told[s] EXCEPT ![TaskUser(t)] =
                  Hear(s, TaskUser(t), IF t[1] = "connect" THEN "online" ELSE "offline")]
          ELSE told[s]]
    /\ Keep(t, {})
    /\ Goto(t, Announced(t))
    /\ UNCHANGED <<keys, present, link, ticking, seen, scenario>>

(* getSocketIdsForUser for each watcher, and the messages, which leave in    *)
(* one go.  A socket that is gone does not hear them, nor one whose set was  *)
(* deleted and that is not back yet.  (Bound: the sockets are looked up, and *)
(* told, in one step.)                                                       *)
Announce(t) ==
    /\ at[t] = "announce"
    /\ LET u == TaskUser(t)
           now == IF t[1] = "connect" THEN "online" ELSE "offline"
       IN  told' = [s \in Sockets |->
             IF link[s] # "open" \/ <<UserOf[s], u>> \notin found[t] THEN told[s]
             ELSE IF s \in present THEN [told[s] EXCEPT ![u] = Hear(s, u, now)]
             ELSE IF told[s][u] # State(present, u) THEN [told[s] EXCEPT ![u] = "unsure"]
             ELSE told[s]]
    /\ Keep(t, {})
    /\ Goto(t, Announced(t))
    /\ UNCHANGED <<keys, present, link, ticking, seen, scenario>>

-----------------------------------------------------------------------------
(* refreshSubscriptions, on every tick of the interval: a cleanup of its     *)
(* own, then getWatchedUsers (another cleanup and the list), then zAdd.      *)
(* Where the watched key is empty these are reads without effect.            *)

Tick(s) ==
    /\ s \in ticking
    /\ at[<<"refresh", s>>] = "idle"
    /\ WatchedBy(UserOf[s]) # {}
    /\ LET E == WatchedBy(UserOf[s])
           D == E \cap due IN
          /\ Keep(<<"refresh", s>>, IF D = {} THEN E ELSE D)
          /\ Goto(<<"refresh", s>>, IF D = {} THEN "rewrite" ELSE "dropFirst")
    /\ UNCHANGED <<keys, present, link, ticking, seen, told, scenario>>

ListWatched(t) ==
    /\ Listing(t, "getWatched", "listWatched")
    /\ Keep(t, List(t))
    /\ Goto(t, IF t[1] = "refresh" /\ List(t) = {} THEN "idle" ELSE "rewrite")
    /\ UNCHANGED <<keys, present, link, ticking, seen, told, scenario>>

Renew(s) ==
    /\ at[<<"refresh", s>>] = "rewrite"
    /\ Enlist(found[<<"refresh", s>>])
    /\ Keep(<<"refresh", s>>, {})
    /\ Goto(<<"refresh", s>>, "idle")
    /\ UNCHANGED <<present, link, ticking, seen, told, scenario>>

(* unsubscribe, the end of handleDisconnect: the entries that were listed    *)
(* leave the watchers keys, and the whole watched key is deleted.            *)
Unsubscribe(s) ==
    /\ at[<<"disconnect", s>>] = "rewrite"
    /\ watchers' = watchers \ found[<<"disconnect", s>>]
    /\ watched' = watched \ WatchedBy(UserOf[s])
    /\ due' = due \ found[<<"disconnect", s>>]
    /\ Unlearn(found[<<"disconnect", s>>])
    /\ Keep(<<"disconnect", s>>, {})
    /\ Goto(<<"disconnect", s>>, "idle")
    /\ UNCHANGED <<present, link, ticking, seen, scenario>>

-----------------------------------------------------------------------------
(* handlePresenceSubscribeMessage, which does not wait for handleConnection. *)
(* (found holds the users still to be asked about.)                          *)

Receive(s) ==
    /\ link[s] = "open"
    /\ at[<<"subscribe", s>>] = "idle"
    /\ Wants[s] # {}
    /\ Goto(<<"subscribe", s>>, "enlist")
    /\ UNCHANGED <<keys, present, link, ticking, found, seen, told, scenario>>

Subscribe(s) ==
    /\ at[<<"subscribe", s>>] = "enlist"
    /\ Enlist({UserOf[s]} \X (Wants[s] \ {UserOf[s]}))
    /\ Keep(<<"subscribe", s>>, {UserOf[s]} \X Wants[s])
    /\ Goto(<<"subscribe", s>>, "ask")
    /\ UNCHANGED <<present, link, ticking, seen, told, scenario>>

(* isUserOnline, for one user after the other.                              *)
Ask(s) ==
    /\ at[<<"subscribe", s>>] = "ask"
    /\ \E e \in found[<<"subscribe", s>>] :
          /\ found[<<"subscribe", s>>] # {e}
          /\ seen' = [seen EXCEPT ![s] = @ \cup OnlineAmong({e[2]})]
          /\ Keep(<<"subscribe", s>>, found[<<"subscribe", s>>] \ {e})
    /\ UNCHANGED <<keys, present, link, ticking, at, told, scenario>>

(* The last of these, and PresenceInitial, to whose reader all the users it  *)
(* does not list are offline.                                                *)
Reply(s) ==
    /\ at[<<"subscribe", s>>] = "ask"
    /\ \E e \in found[<<"subscribe", s>>] :
          /\ found[<<"subscribe", s>>] = {e}
          /\ told' = IF link[s] # "open" THEN told
                     ELSE [told EXCEPT ![s] = [u \in Users |->
                       IF u \notin Wants[s] THEN told[s][u]
                       ELSE Hear(s, u, IF u \in seen[s] \cup OnlineAmong({e[2]})
                                       THEN "online" ELSE "offline")]]
    /\ Keep(<<"subscribe", s>>, {})
    /\ seen' = [seen EXCEPT ![s] = {}]
    /\ Goto(<<"subscribe", s>>, "idle")
    /\ UNCHANGED <<keys, present, link, ticking, scenario>>

-----------------------------------------------------------------------------
(* Messages on the way                                                       *)

(* A task that is going to tell socket s about user u, as it is.             *)
WillTell(t, s, u) ==
    /\ TaskUser(t) = u
    /\ t[1] = IF State(present, u) = "online" THEN "connect" ELSE "disconnect"
    /\ \/ at[t] \in {"count", "wipe", "getWatchers", "dropWatchers", "listWatchers"}
       \/ at[t] = "announce" /\ <<UserOf[s], u>> \in found[t]

-----------------------------------------------------------------------------
(* Time and faults.  Entries are written for 900 s and sockets for 600 s,    *)
(* and a tick comes every 120 s: assumed is that it comes in time.           *)

(* An entry is renewed where the watched key of a subscriber who ticks has   *)
(* it; one that stands in the watchers key alone is renewed by nobody.       *)
(* Unless handlers are slow, none of the subscriber's takes that long.       *)
Writers == {"connect", "disconnect", "refresh", "subscribe"}

EntryFallsDue(e) ==
    /\ e \in watchers \ due
    /\ ticking \cap SocketsOf(e[1]) = {} \/ e \notin watched
    /\ "slow" \in Faults \/ \A h \in Writers, s \in SocketsOf(e[1]) : at[<<h, s>>] = "idle"
    /\ due' = due \cup {e}
    /\ UNCHANGED <<watchers, watched, present, link, ticking, at, found, seen, told, scenario>>

(* The process that serves the socket dies, before handleDisconnect runs or  *)
(* in the middle of it; what it was about to announce nobody hears.          *)
ServerDies(s) ==
    /\ s \in scenario.die
    /\ link[s] = "open" \/ s \in ticking \/ \E h \in Handlers : at[<<h, s>>] # "idle"
    /\ link' = [link EXCEPT ![s] = "closed"]
    /\ ticking' = ticking \ {s}
    /\ at' = [t \in Tasks |-> IF t[2] = s THEN "idle" ELSE at[t]]
    /\ found' = [t \in Tasks |-> IF t[2] = s THEN {} ELSE found[t]]
    /\ seen' = [seen EXCEPT ![s] = {}]
    /\ told' = [c \in Sockets |-> [u \in Users |->
                  IF \/ c = s
                     \/ /\ told[c][u] # State(present, u)
                        /\ \E h \in Handlers : WillTell(<<h, s>>, c, u)
                  THEN "unsure" ELSE told[c][u]]]
    /\ UNCHANGED <<keys, present, scenario>>

(* The MULTI of a cleanup, whose reader found the score of a socket passed   *)
(* that nobody refreshes, left by a dead process or by a late refresh.       *)
Lapse(s) ==
    /\ s \in present \ ticking
    /\ at[<<"lapse", s>>] = "idle"
    /\ present' = present \ {s}
    /\ Unannounced(UserOf[s])
    /\ Goto(<<"lapse", s>>, "count")
    /\ UNCHANGED <<keys, link, ticking, found, seen, scenario>>

-----------------------------------------------------------------------------
Handle(t) ==
    /\ at[t] # "idle"
    /\ \/ t[1] = "connect" /\ Register(t[2])
       \/ t[1] \in {"disconnect", "lapse"} /\ (Count(t) \/ Wipe(t))
       \/ FindDue(t) \/ DropDue(t)
       \/ ListWatchers(t) \/ Announce(t)
       \/ ListWatched(t)
       \/ t[1] = "refresh" /\ Renew(t[2])
       \/ t[1] = "disconnect" /\ Unsubscribe(t[2])
       \/ t[1] = "subscribe" /\ (Subscribe(t[2]) \/ Ask(t[2]) \/ Reply(t[2]))

Next ==
    \/ \E t \in Tasks : Handle(t)
    \/ \E s \in Sockets : \/ Connect(s) \/ Disconnect(s) \/ Rejoin(s) \/ Tick(s) \/ Receive(s)
                          \/ ServerDies(s) \/ Lapse(s)
    \/ \E e \in Entries : EntryFallsDue(e)

(* Redis answers, and the time of an entry nobody renews comes; nobody has   *)
(* to connect, to disconnect or to subscribe.                                *)
Fairness ==
    /\ \A s \in Sockets : WF_vars(\E h \in Handlers : Handle(<<h, s>>))
    /\ \A e \in Entries : WF_vars(EntryFallsDue(e))

Spec == Init /\ [][Next]_vars
FairSpec == Spec /\ Fairness

-----------------------------------------------------------------------------
(* Properties *)

TypeOK ==
    /\ watchers \subseteq Entries
    /\ watched \subseteq Entries
    /\ due \subseteq watchers
    /\ present \subseteq Sockets
    /\ link \in [Sockets -> {"new", "open", "closed"}]
    /\ scenario \in Scenarios
    /\ ticking \subseteq Sockets
    /\ at \in [Tasks -> Steps]
    /\ found \in [Tasks -> SUBSET Entries]
    /\ seen \in [Sockets -> SUBSET Users]
    /\ told \in [Sockets -> [Users -> {"unsure", "online", "offline"}]]

(* Whoever is listed as watching someone is also found by the one who        *)
(* announces: no order of subscribe, refresh, unsubscribe and the two        *)
(* cleanups, each of which reads before it writes, leaves an entry in the    *)
(* watched key alone.  (The other direction fails: unsubscribe deletes the   *)
(* whole watched key but only the watchers entries it had listed.)           *)
Mirrored == watched \subseteq watchers

(* No watcher misses a change that is announced: what a client was told of a *)
(* user it watches is so, or a handler is under way that will tell it how it *)
(* is.  No order of two sockets of the user that come and go, of their       *)
(* zCard and DEL, of a subscription whose reply is under way, and of the     *)
(* cleanups loses the message in between.  What it does not cover: a client  *)
(* becomes unsure, and may stay wrong in the real program,                   *)
(*   - by a message, or a reply, that was out of date when it was sent;      *)
(*   - when its entry is taken out: by expiry, or by an unsubscribe, also    *)
(*     a late one that meets a client which is connected again;              *)
(*   - when the user comes or goes without a message: its last socket        *)
(*     expires, or a refresh brings back a set that was deleted;             *)
(*   - when the client's own socket was deleted with a set and is not back;  *)
(*   - when the process dies that was to send the message.                   *)
NoChangeMissed == \A s \in Sockets, u \in Users :
    /\ told[s][u] \in {"online", "offline"}
    /\ told[s][u] # State(present, u)
    => \E t \in Tasks : WillTell(t, s, u)

(* A user who is gone ends up watching nobody, for good, although a refresh  *)
(* or a subscription in flight may have put entries back after unsubscribe   *)
(* and a dead process never ran it.                                          *)
GoneWatchNobody == \A u \in Users :
    <>[](\A s \in SocketsOf(u) : link[s] # "open") => <>[](\A e \in watchers \ due : e[1] # u)

=============================================================================
