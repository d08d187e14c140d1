--------------------------- MODULE PresenceProofs ---------------------------
(***************************************************************************)
(* What is proved of Presence for every set of users and sockets: the keys *)
(* are well formed, and the index of online users neither misses a user    *)
(* with sockets nor keeps one without for no reason.                       *)
(***************************************************************************)
EXTENDS Presence, TLAPS

IInv == TypeOK /\ IndexComplete /\ IndexExact

Looking(t) == at[t] \in {"count", "forget"}

(* The handlers of one socket come in order: none disconnects before it is   *)
(* closed, and one whose server died does not connect any more.             *)
Ordered == \A s \in Sockets :
    /\ link[s] \in {"new", "open"} => at[<<"disconnect", s>>] = "idle"
    /\ link[s] \in {"new", "dead"} => at[<<"connect", s>>] = "idle"
    /\ at[<<"connect", s>>] \notin {"count", "forget"}

LEMMA TasksHaveUsers ==
    ASSUME NEW t \in Tasks
    PROVE  TaskUser(t) \in Users
  BY ConstantsAssumption DEF Tasks, TaskUser

LEMMA SocketTasks ==
    ASSUME NEW s \in Sockets, NEW kind \in {"connect", "disconnect", "refresh"}
    PROVE  <<kind, s>> \in Tasks /\ TaskUser(<<kind, s>>) = UserOf[s] /\ UserOf[s] \in Users
  BY ConstantsAssumption DEF Tasks, TaskUser

LEMMA CleanupTasks ==
    ASSUME NEW u \in Users
    PROVE  <<"cleanup", u>> \in Tasks /\ TaskUser(<<"cleanup", u>>) = u
  BY DEF Tasks, TaskUser

(* A step that leaves the sorted sets and the index alone, and at most moves *)
(* a task that was not about to look.                                       *)
LEMMA MovingStep ==
    ASSUME IInv, TypeOK', UNCHANGED <<userSockets, online>>,
           \A t \in Tasks : Looking(t) => Looking(t)',
           \A s \in Sockets : link[s] = "dead" => link'[s] = "dead"
    PROVE  IInv'
<1>1. IndexComplete' BY DEF IInv, IndexComplete
<1>2. IndexExact' BY DEF IInv, IndexExact, Looking
<1> QED BY <1>1, <1>2 DEF IInv

(* zAdd and sAdd in one MULTI.                                              *)
LEMMA EnlistStep ==
    ASSUME IInv, TypeOK', NEW s \in Sockets, Enlist(s),
           \A t \in Tasks : Looking(t) => Looking(t)',
           link' = link
    PROVE  IInv'
<1>1. UserOf[s] \in Users BY SocketTasks
<1>2. /\ userSockets'[UserOf[s]] # {}
      /\ \A u \in Users \ {UserOf[s]} : userSockets'[u] = userSockets[u]
      /\ online' = online \cup {UserOf[s]}
  BY <1>1 DEF Enlist, IInv, TypeOK
<1>3. IndexComplete' BY <1>2 DEF IInv, IndexComplete
<1>4. IndexExact' BY <1>2 DEF IInv, IndexExact, Looking
<1> QED BY <1>3, <1>4 DEF IInv

(* zRem by a task that counts next.                                         *)
LEMMA StrikeStep ==
    ASSUME IInv, TypeOK', NEW t \in Tasks, NEW S, Strike(TaskUser(t), S),
           Goto(t, "count"), UNCHANGED <<online, link>>
    PROVE  IInv'
<1>1. PICK v \in Users : v = TaskUser(t) BY TasksHaveUsers
<1>2. /\ userSockets'[v] \subseteq userSockets[v]
      /\ \A u \in Users \ {v} : userSockets'[u] = userSockets[u]
  BY <1>1 DEF Strike, IInv, TypeOK
<1>3. at'[t] = "count" /\ \A q \in Tasks \ {t} : at'[q] = at[q]
  BY DEF Goto, IInv, TypeOK
<1>4. IndexComplete' BY <1>2 DEF IInv, IndexComplete
<1>5. IndexExact'
  <2>1. ASSUME NEW u \in Users, u \in online', userSockets'[u] = {}
        PROVE  \/ \E q \in Tasks : TaskUser(q) = u /\ at'[q] \in {"count", "forget"}
               \/ \E s \in Sockets : UserOf[s] = u /\ link'[s] = "dead"
    <3>1. CASE u = v BY <1>1, <1>3, <3>1
    <3>2. CASE u # v
      BY <1>2, <1>3, <2>1, <3>2 DEF IInv, IndexExact
    <3> QED BY <3>1, <3>2
  <2>2. \A q \in Tasks : TaskUser(q)' = TaskUser(q) BY DEF TaskUser
  <2> QED BY <2>1, <2>2 DEF IndexExact
<1> QED BY <1>4, <1>5 DEF IInv

LEMMA CountSocketsStep ==
    ASSUME IInv, NEW t \in Tasks, CountSockets(t)
    PROVE  IInv'
<1>1. at'[t] = (IF userSockets[TaskUser(t)] = {} THEN "forget" ELSE "idle")
      /\ \A q \in Tasks \ {t} : at'[q] = at[q]
  BY DEF CountSockets, Goto, IInv, TypeOK
<1>2. at' \in [Tasks -> Steps]
  BY DEF CountSockets, Goto, IInv, TypeOK, Steps
<1>3. TypeOK' BY <1>2 DEF CountSockets, keys, IInv, TypeOK
<1>4. UNCHANGED <<userSockets, online, link>> BY DEF CountSockets, keys
<1>5. IndexComplete' BY <1>4 DEF IInv, IndexComplete
<1>6. IndexExact'
  <2>1. ASSUME NEW u \in Users, u \in online, userSockets[u] = {}
        PROVE  \/ \E q \in Tasks : TaskUser(q) = u /\ at'[q] \in {"count", "forget"}
               \/ \E s \in Sockets : UserOf[s] = u /\ link[s] = "dead"
    <3>1. CASE TaskUser(t) = u BY <1>1, <2>1, <3>1
    <3>2. CASE TaskUser(t) # u BY <1>1, <2>1, <3>2 DEF IInv, IndexExact
    <3> QED BY <3>1, <3>2
  <2>2. \A q \in Tasks : TaskUser(q)' = TaskUser(q) BY DEF TaskUser
  <2> QED BY <1>4, <2>1, <2>2 DEF IndexExact
<1> QED BY <1>3, <1>5, <1>6 DEF IInv

LEMMA ForgetUserStep ==
    ASSUME IInv, NEW t \in Tasks, ForgetUser(t)
    PROVE  IInv'
<1>1. PICK v \in Users : v = TaskUser(t) BY TasksHaveUsers
<1>2. /\ userSockets'[v] = {}
      /\ \A u \in Users \ {v} : userSockets'[u] = userSockets[u]
      /\ online' = online \ {v} /\ link' = link
  BY <1>1 DEF ForgetUser, IInv, TypeOK
<1>3. \A q \in Tasks \ {t} : at'[q] = at[q] BY DEF ForgetUser, Goto, IInv, TypeOK
<1>4. at' \in [Tasks -> Steps] BY DEF ForgetUser, Goto, IInv, TypeOK, Steps
<1>5. userSockets' \in [Users -> SUBSET Sockets] BY DEF ForgetUser, IInv, TypeOK
<1>6. due' \subseteq Sockets BY DEF ForgetUser, IInv, TypeOK
<1>7. UNCHANGED <<socketUser, timer, expired>> BY DEF ForgetUser
<1>8. TypeOK' BY <1>2, <1>4, <1>5, <1>6, <1>7 DEF IInv, TypeOK
<1>9. IndexComplete' BY <1>2 DEF IInv, IndexComplete
<1>10. IndexExact'
  <2>1. ASSUME NEW u \in Users, u \in online', userSockets'[u] = {}
        PROVE  \/ \E q \in Tasks : TaskUser(q) = u /\ at'[q] \in {"count", "forget"}
               \/ \E s \in Sockets : UserOf[s] = u /\ link'[s] = "dead"
    BY <1>1, <1>2, <1>3, <2>1 DEF IInv, IndexExact
  <2>2. \A q \in Tasks : TaskUser(q)' = TaskUser(q) BY DEF TaskUser
  <2> QED BY <2>1, <2>2 DEF IndexExact
<1> QED BY <1>8, <1>9, <1>10 DEF IInv

-----------------------------------------------------------------------------
(* The tasks of a connection *)

LEMMA ConnectTaskStep ==
    ASSUME IInv, Ordered, NEW s \in Sockets,
           Authenticate(s) \/ Reject(s) \/ CheckRegistered(s) \/ Register(s)
               \/ SetRefreshInterval(s)
    PROVE  IInv'
<1> DEFINE c == <<"connect", s>>
           d == <<"disconnect", s>>
<1>0. c \in Tasks /\ d \in Tasks /\ UserOf[s] \in Users BY SocketTasks
<1>1. CASE Authenticate(s)
  <2>1. TypeOK' BY <1>0, <1>1 DEF Authenticate, Goto, IInv, TypeOK, keys, Steps
  <2>2. \A t \in Tasks : Looking(t) => Looking(t)'
    BY <1>0, <1>1 DEF Authenticate, Goto, IInv, TypeOK, Looking
  <2> QED BY <1>1, <2>1, <2>2, MovingStep DEF Authenticate, keys
<1>2. CASE Reject(s)
  <2>1. TypeOK' BY <1>0, <1>2 DEF Reject, Goto, IInv, TypeOK, keys, Steps
  <2>2. \A t \in Tasks : Looking(t) => Looking(t)'
    <3>1. link[s] \notin {"new", "dead"} BY <1>2 DEF Reject, Ordered
    <3>2. at[c] = "auth" /\ (link[s] = "open" => at[d] = "idle")
      BY <1>2 DEF Reject, Ordered
    <3> QED BY <1>0, <1>2, <3>2 DEF Reject, Goto, IInv, TypeOK, Looking
  <2>3. \A r \in Sockets : link[r] = "dead" => link'[r] = "dead"
    BY <1>2 DEF Reject, Ordered, IInv, TypeOK
  <2> QED BY <1>2, <2>1, <2>2, <2>3, MovingStep DEF Reject, keys
<1>3. CASE CheckRegistered(s)
  <2>1. TypeOK' BY <1>0, <1>3 DEF CheckRegistered, Goto, IInv, TypeOK, keys, Steps
  <2>2. \A t \in Tasks : Looking(t) => Looking(t)'
    BY <1>0, <1>3 DEF CheckRegistered, Goto, IInv, TypeOK, Looking
  <2> QED BY <1>3, <2>1, <2>2, MovingStep DEF CheckRegistered, keys
<1>4. CASE Register(s)
  <2>1. TypeOK' BY <1>0, <1>4 DEF Register, Enlist, Goto, IInv, TypeOK, Steps
  <2>2. \A t \in Tasks : Looking(t) => Looking(t)'
    BY <1>0, <1>4 DEF Register, Goto, IInv, TypeOK, Looking
  <2> QED BY <1>4, <2>1, <2>2, EnlistStep DEF Register
<1>5. CASE SetRefreshInterval(s)
  <2>1. TypeOK' BY <1>0, <1>5 DEF SetRefreshInterval, Goto, IInv, TypeOK, keys, Steps
  <2>2. \A t \in Tasks : Looking(t) => Looking(t)'
    BY <1>0, <1>5 DEF SetRefreshInterval, Goto, IInv, TypeOK, Looking
  <2> QED BY <1>5, <2>1, <2>2, MovingStep DEF SetRefreshInterval, keys
<1> QED BY <1>1, <1>2, <1>3, <1>4, <1>5

LEMMA RefreshTaskStep ==
    ASSUME IInv, NEW s \in Sockets, Tick(s) \/ Renew(s)
    PROVE  IInv'
<1>0. <<"refresh", s>> \in Tasks /\ UserOf[s] \in Users BY SocketTasks
<1>1. CASE Tick(s)
  <2>1. TypeOK' BY <1>0, <1>1 DEF Tick, Goto, IInv, TypeOK, keys, Steps
  <2>2. \A t \in Tasks : Looking(t) => Looking(t)'
    BY <1>0, <1>1 DEF Tick, Goto, IInv, TypeOK, Looking
  <2> QED BY <1>1, <2>1, <2>2, MovingStep DEF Tick, keys
<1>2. CASE Renew(s)
  <2>1. TypeOK' BY <1>0, <1>2 DEF Renew, Enlist, Goto, IInv, TypeOK, Steps
  <2>2. \A t \in Tasks : Looking(t) => Looking(t)'
    BY <1>0, <1>2 DEF Renew, Goto, IInv, TypeOK, Looking
  <2> QED BY <1>2, <2>1, <2>2, EnlistStep DEF Renew
<1> QED BY <1>1, <1>2

LEMMA DisconnectTaskStep ==
    ASSUME IInv, NEW s \in Sockets, FindUser(s) \/ RemoveSocket(s)
    PROVE  IInv'
<1> DEFINE d == <<"disconnect", s>>
<1>0. d \in Tasks /\ TaskUser(d) = UserOf[s] /\ UserOf[s] \in Users BY SocketTasks
<1>1. CASE FindUser(s)
  <2>1. TypeOK' BY <1>0, <1>1 DEF FindUser, Goto, IInv, TypeOK, keys, Steps
  <2>2. \A t \in Tasks : Looking(t) => Looking(t)'
    BY <1>0, <1>1 DEF FindUser, Goto, IInv, TypeOK, Looking
  <2> QED BY <1>1, <2>1, <2>2, MovingStep DEF FindUser, keys
<1>2. CASE RemoveSocket(s)
  <2>1. TypeOK' BY <1>0, <1>2 DEF RemoveSocket, Strike, Goto, IInv, TypeOK, Steps
  <2> QED BY <1>0, <1>2, <2>1, StrikeStep DEF RemoveSocket
<1> QED BY <1>1, <1>2

LEMMA CleanupTaskStep ==
    ASSUME IInv, NEW u \in Users, ReadExpired(u) \/ PurgeExpired(u)
    PROVE  IInv'
<1> DEFINE c == <<"cleanup", u>>
<1>0. c \in Tasks /\ TaskUser(c) = u BY CleanupTasks
<1>1. CASE ReadExpired(u)
  <2>1. expired' \in [Users -> SUBSET Sockets]
    BY <1>1 DEF ReadExpired, IInv, TypeOK
  <2>2. TypeOK' BY <1>0, <1>1, <2>1 DEF ReadExpired, Goto, IInv, TypeOK, keys, Steps
  <2>3. \A t \in Tasks : Looking(t) => Looking(t)'
    BY <1>0, <1>1 DEF ReadExpired, Goto, IInv, TypeOK, Looking
  <2> QED BY <1>1, <2>2, <2>3, MovingStep DEF ReadExpired, keys
<1>2. CASE PurgeExpired(u)
  <2>1. expired' \in [Users -> SUBSET Sockets] /\ socketUser' \in [Sockets -> Users \cup {None}]
    BY <1>2 DEF PurgeExpired, IInv, TypeOK
  <2>2. TypeOK'
    BY <1>0, <1>2, <2>1 DEF PurgeExpired, Strike, Goto, IInv, TypeOK, Steps
  <2> QED BY <1>0, <1>2, <2>2, StrikeStep DEF PurgeExpired
<1> QED BY <1>1, <1>2

LEMMA EnvironmentStep ==
    ASSUME IInv, Ordered, NEW s \in Sockets,
           Connect(s) \/ Disconnect(s) \/ EntryFallsDue(s) \/ SocketKeyExpires(s)
    PROVE  IInv'
<1>0. <<"connect", s>> \in Tasks /\ <<"disconnect", s>> \in Tasks BY SocketTasks
<1>1. CASE Connect(s)
  <2>1. TypeOK' BY <1>0, <1>1 DEF Connect, Goto, IInv, TypeOK, keys, Steps
  <2>2. \A t \in Tasks : Looking(t) => Looking(t)'
    BY <1>0, <1>1 DEF Connect, Goto, IInv, TypeOK, Looking, Ordered
  <2> QED BY <1>1, <2>1, <2>2, MovingStep DEF Connect, keys
<1>2. CASE Disconnect(s)
  <2>1. TypeOK' BY <1>0, <1>2 DEF Disconnect, Goto, IInv, TypeOK, keys, Steps
  <2>2. \A t \in Tasks : Looking(t) => Looking(t)'
    BY <1>0, <1>2 DEF Disconnect, Goto, IInv, TypeOK, Looking, Ordered
  <2> QED BY <1>2, <2>1, <2>2, MovingStep DEF Disconnect, keys
<1>3. CASE EntryFallsDue(s)
  <2>1. TypeOK' BY <1>3 DEF EntryFallsDue, IInv, TypeOK
  <2> QED BY <1>3, <2>1, MovingStep DEF EntryFallsDue, Looking
<1>4. CASE SocketKeyExpires(s)
  <2>1. TypeOK' BY <1>4 DEF SocketKeyExpires, IInv, TypeOK
  <2> QED BY <1>4, <2>1, MovingStep DEF SocketKeyExpires, Looking
<1> QED BY <1>1, <1>2, <1>3, <1>4

(* A death interrupts the tasks of one socket, which explains what they no  *)
(* longer look at.                                                          *)
LEMMA ServerDiesStep ==
    ASSUME IInv, NEW s \in Sockets, ServerDies(s)
    PROVE  IInv'
<1>1. TypeOK' BY DEF ServerDies, IInv, TypeOK, keys, Steps
<1>2. UNCHANGED <<userSockets, online>> BY DEF ServerDies, keys
<1>3. IndexComplete' BY <1>2 DEF IInv, IndexComplete
<1>4. link'[s] = "dead" /\ \A r \in Sockets : link[r] = "dead" => link'[r] = "dead"
  BY DEF ServerDies, IInv, TypeOK
<1>5. \A t \in Tasks : at'[t] = at[t] \/ TaskUser(t) = UserOf[s]
  BY DEF ServerDies, TaskUser
<1>6. IndexExact'
  <2>1. ASSUME NEW u \in Users, u \in online, userSockets[u] = {}
        PROVE  \/ \E q \in Tasks : TaskUser(q) = u /\ at'[q] \in {"count", "forget"}
               \/ \E r \in Sockets : UserOf[r] = u /\ link'[r] = "dead"
    BY <1>4, <1>5, <2>1 DEF IInv, IndexExact
  <2>2. \A q \in Tasks : TaskUser(q)' = TaskUser(q) BY DEF TaskUser
  <2> QED BY <1>2, <2>1, <2>2 DEF IndexExact
<1> QED BY <1>1, <1>3, <1>6 DEF IInv

-----------------------------------------------------------------------------
LEMMA InitStep == Init => IInv /\ Ordered
<1> SUFFICES ASSUME Init PROVE IInv /\ Ordered OBVIOUS
<1>1. IInv BY DEF Init, IInv, TypeOK, IndexComplete, IndexExact, Steps
<1>2. Ordered BY SocketTasks DEF Init, Ordered
<1> QED BY <1>1, <1>2

(* A task that was under way, or the refresh and the cleanup at any time,    *)
(* goes on without touching the order of a connection's life.               *)
LEMMA OrderedMoves ==
    ASSUME TypeOK, Ordered, UNCHANGED link, NEW t \in Tasks, NEW step, Goto(t, step),
           at[t] # "idle" \/ t[1] \in {"refresh", "cleanup"},
           t[1] = "connect" => step \notin {"count", "forget"}
    PROVE  Ordered'
<1> SUFFICES ASSUME NEW s \in Sockets
    PROVE  /\ link[s] \in {"new", "open"} => at'[<<"disconnect", s>>] = "idle"
           /\ link[s] \in {"new", "dead"} => at'[<<"connect", s>>] = "idle"
           /\ at'[<<"connect", s>>] \notin {"count", "forget"}
  BY DEF Ordered
<1>1. <<"connect", s>> \in Tasks /\ <<"disconnect", s>> \in Tasks BY SocketTasks
<1>2. \A q \in Tasks : at'[q] = IF q = t THEN step ELSE at[q] BY DEF Goto, TypeOK
<1>3. CASE t = <<"connect", s>> BY <1>1, <1>2, <1>3 DEF Ordered
<1>4. CASE t = <<"disconnect", s>> BY <1>1, <1>2, <1>4 DEF Ordered
<1>5. CASE t # <<"connect", s>> /\ t # <<"disconnect", s>>
  BY <1>1, <1>2, <1>5 DEF Ordered
<1> QED BY <1>3, <1>4, <1>5

LEMMA RejectOrdered ==
    ASSUME TypeOK, Ordered, NEW s \in Sockets, Reject(s)
    PROVE  Ordered'
<1> DEFINE conn == <<"connect", s>>
           disc == <<"disconnect", s>>
<1>1. /\ at[conn] = "auth" /\ at'[conn] = "idle" /\ link'[s] = "closed"
      /\ \A r \in Sockets : r # s => link'[r] = link[r]
  BY SocketTasks DEF Reject, Goto, TypeOK
<1>2. \A q \in Tasks : q # conn /\ q # disc => at'[q] = at[q]
  BY DEF Reject, Goto, TypeOK
<1> SUFFICES ASSUME NEW r \in Sockets
    PROVE  /\ link'[r] \in {"new", "open"} => at'[<<"disconnect", r>>] = "idle"
           /\ link'[r] \in {"new", "dead"} => at'[<<"connect", r>>] = "idle"
           /\ at'[<<"connect", r>>] \notin {"count", "forget"}
  BY DEF Ordered
<1>3. CASE r = s BY <1>1, <1>3
<1>4. CASE r # s
  <2>1. /\ at'[<<"connect", r>>] = at[<<"connect", r>>]
        /\ at'[<<"disconnect", r>>] = at[<<"disconnect", r>>]
    BY <1>2, <1>4, SocketTasks
  <2> QED BY <1>1, <1>4, <2>1 DEF Ordered
<1> QED BY <1>3, <1>4

LEMMA OrderedStep ==
    ASSUME TypeOK, Ordered, [Next]_vars
    PROVE  Ordered'
<1>1. ASSUME NEW s \in Sockets,
             Authenticate(s) \/ Reject(s) \/ CheckRegistered(s) \/ Register(s)
                 \/ SetRefreshInterval(s)
      PROVE  Ordered'
  <2>1. CASE Authenticate(s)
    BY <2>1, SocketTasks, OrderedMoves DEF Authenticate
  <2>2. CASE Reject(s) BY <2>2, RejectOrdered
  <2>3. CASE CheckRegistered(s)
    BY <2>3, SocketTasks, OrderedMoves DEF CheckRegistered
  <2>4. CASE Register(s)
    BY <2>4, SocketTasks, OrderedMoves DEF Register
  <2>5. CASE SetRefreshInterval(s)
    BY <2>5, SocketTasks, OrderedMoves DEF SetRefreshInterval
  <2> QED BY <1>1, <2>1, <2>2, <2>3, <2>4, <2>5
<1>2. ASSUME NEW s \in Sockets, Tick(s) \/ Renew(s) PROVE Ordered'
  BY <1>2, SocketTasks, OrderedMoves DEF Tick, Renew, Enlist
<1>3. ASSUME NEW s \in Sockets, FindUser(s) \/ RemoveSocket(s) PROVE Ordered'
  BY <1>3, SocketTasks, OrderedMoves DEF FindUser, RemoveSocket
<1>4. ASSUME NEW u \in Users, ReadExpired(u) \/ PurgeExpired(u) PROVE Ordered'
  BY <1>4, CleanupTasks, OrderedMoves DEF ReadExpired, PurgeExpired
<1>5. ASSUME NEW t \in Tasks, CountSockets(t) \/ ForgetUser(t) PROVE Ordered'
  <2>1. at[t] \in {"count", "forget"} BY <1>5 DEF CountSockets, ForgetUser
  <2>2. t[1] # "connect"
    <3> SUFFICES ASSUME t[1] = "connect" PROVE FALSE OBVIOUS
    <3>1. PICK s \in Sockets : t = <<"connect", s>> BY DEF Tasks
    <3> QED BY <2>1, <3>1 DEF Ordered
  <2> QED BY <1>5, <2>1, <2>2, OrderedMoves DEF CountSockets, ForgetUser
<1>6. ASSUME NEW s \in Sockets, Connect(s) PROVE Ordered'
  BY <1>6, SocketTasks DEF Connect, TypeOK, Ordered, Goto
<1>7. ASSUME NEW s \in Sockets, Disconnect(s) PROVE Ordered'
  BY <1>7, SocketTasks DEF Disconnect, TypeOK, Ordered, Goto
<1>8. ASSUME NEW s \in Sockets, ServerDies(s) PROVE Ordered'
  BY <1>8, SocketTasks DEF ServerDies, TypeOK, Ordered
<1>9. ASSUME NEW s \in Sockets, EntryFallsDue(s) \/ SocketKeyExpires(s) PROVE Ordered'
  BY <1>9 DEF EntryFallsDue, SocketKeyExpires, Ordered
<1>10. ASSUME UNCHANGED vars PROVE Ordered' BY <1>10 DEF vars, Ordered
<1> QED BY <1>1, <1>2, <1>3, <1>4, <1>5, <1>6, <1>7, <1>8, <1>9, <1>10 DEF Next, Handle

LEMMA NextStep == IInv /\ Ordered /\ [Next]_vars => IInv'
<1> SUFFICES ASSUME IInv, Ordered, [Next]_vars PROVE IInv' OBVIOUS
<1>1. ASSUME NEW t \in Tasks, Handle(t) PROVE IInv'
  BY <1>1, ConnectTaskStep, RefreshTaskStep, DisconnectTaskStep, CleanupTaskStep,
     CountSocketsStep, ForgetUserStep DEF Handle
<1>2. ASSUME UNCHANGED vars PROVE IInv'
  BY <1>2 DEF vars, IInv, TypeOK, IndexComplete, IndexExact
<1> QED BY <1>1, <1>2, EnvironmentStep, ServerDiesStep, CleanupTaskStep DEF Next

LEMMA Invariance == Spec => [](IInv /\ Ordered)
<1>1. IInv /\ Ordered /\ [Next]_vars => (IInv /\ Ordered)'
  BY NextStep, OrderedStep DEF IInv
<1> QED BY <1>1, InitStep, PTL DEF Spec

(* The keys hold what they are read as, however many sockets there are.     *)
THEOREM PresenceTypeCorrect == Spec => []TypeOK
<1>1. IInv => TypeOK BY DEF IInv
<1> QED BY <1>1, Invariance, PTL

(* Every user with a socket in the sorted set is in presence:online_users,  *)
(* in whatever order connects, refreshes, disconnects and cleanups meet.    *)
THEOREM IndexIsComplete == Spec => []IndexComplete
<1>1. IInv => IndexComplete BY DEF IInv
<1> QED BY <1>1, Invariance, PTL

(* A user without sockets leaves the index, unless a server died on the way. *)
THEOREM IndexIsExact == Spec => []IndexExact
<1>1. IInv => IndexExact BY DEF IInv
<1> QED BY <1>1, Invariance, PTL

=============================================================================
