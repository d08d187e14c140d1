---------------------------- MODULE CallsProofs ----------------------------
(***************************************************************************)
(* What is proved of Calls for every set of users, rooms and handlers.     *)
(*                                                                         *)
(* PartiesAgree is not inductive: a handler writes what it read some       *)
(* awaits ago.  The strengthening says of every frame what the checks it   *)
(* has passed still guarantee (FrameOK: only facts about the history of a  *)
(* room, which never changes sides and never becomes unanswered again),    *)
(* and that a job is run by one handler at a time (JobsHeld).              *)
(***************************************************************************)
EXTENDS Calls, TLAPS

Known(c) == c # None =>
    Describes(c, c.roomId) /\ (c.status = "active" => Answered(c.roomId))

Paired(f) ==
    /\ f.mine \in Call /\ f.theirs \in Call
    /\ f.mine.roomId = f.theirs.roomId
    /\ f.mine.direction # f.theirs.direction

Offering  == {"calleeBusy", "create", "scheduleRinging"}
Accepting == {"acceptPeer", "acceptWrite", "scheduleMax"}
Ending    == {"members", "delete", "log", "notify"}

FrameOK(f) ==
    /\ Known(f.mine) /\ Known(f.theirs)
    /\ f.at \in Offering =>
          f.op = "offer" /\ f.from \in Users /\ f.to \in Users /\ f.from # f.to
    /\ f.at = "scheduleRinging" =>
          f.room \in Rooms /\ session[f.room] # None /\ session[f.room].callee = f.to
    /\ f.at \in Accepting =>
          f.op = "answer" /\ f.mine \in Call /\ f.mine.userId = f.from
    /\ f.at \in {"acceptWrite", "scheduleMax"} =>
          Paired(f) /\ f.mine.direction = "incoming"
    /\ f.at = "scheduleMax" => f.room = f.mine.roomId /\ Answered(f.room)
    /\ f.at = "reread" => f.from \in Users
    /\ f.at = "peer" => f.mine \in Call
    /\ f.at = "icePush" => f.mine \in Call /\ f.op = "ice"
    /\ f.at \in Ending =>
          /\ Paired(f)
          /\ f.op \notin {"decline", "cancel", "ringing-timeout"} => f.mine.status = "active"
          /\ f.op = "ringing-timeout" => f.mine.direction = "incoming"
    /\ f.at = "notify" => f.op = "ringing-timeout"
    /\ f.at = "complete" => f.op \in JobNames

FramesOK == \A h \in Handlers : FrameOK(handler[h])

RunsJob(f, n, r) == f.op = n /\ f.room = r

JobsHeld ==
    /\ \A h \in Handlers : handler[h].op \in JobNames =>
          /\ handler[h].room \in Rooms
          /\ jobs[handler[h].op][handler[h].room] # None
          /\ jobs[handler[h].op][handler[h].room].state = "active"
    /\ \A g, h \in Handlers : g # h /\ handler[g].op \in JobNames =>
          ~RunsJob(handler[h], handler[g].op, handler[g].room)

Store == PartiesAgree /\ ActiveIffAnswered /\ CompletedWasAnswered

IInv == TypeOK /\ Store /\ FramesOK /\ JobsHeld

-----------------------------------------------------------------------------
(* The history of a room only grows. *)

SessionGrows == \A r \in Rooms : session[r] # None =>
    /\ session'[r] # None
    /\ session'[r].caller = session[r].caller
    /\ session'[r].callee = session[r].callee
    /\ Answered(r) => Answered(r)'

(* What a frame knows of the history stays true as the history grows.       *)
LEMMA FrameStays ==
    ASSUME SessionGrows, NEW f \in Frame, FrameOK(f)
    PROVE  FrameOK(f)'
<1>1. ASSUME NEW c \in Call, Known(c) PROVE Known(c)'
  BY <1>1, ConstantsAssumption DEF SessionGrows, Known, Describes, Call
<1>2. Known(f.mine)' /\ Known(f.theirs)'
  BY <1>1 DEF FrameOK, Frame, Known
<1>3. f.at = "scheduleRinging" =>
         (session[f.room] # None)' /\ (session[f.room].callee = f.to)'
  BY DEF FrameOK, SessionGrows, Offering
<1>4. f.at = "scheduleMax" => Answered(f.room)'
  BY DEF FrameOK, SessionGrows, Answered, Accepting, Call
<1> QED BY <1>2, <1>3, <1>4 DEF FrameOK, Paired

(* Nothing that leaves the frames and the history alone disturbs the frames. *)
LEMMA HistoryKept ==
    ASSUME TypeOK, FramesOK, UNCHANGED <<handler, session>>
    PROVE  FramesOK'
<1>1. SessionGrows BY DEF SessionGrows, Answered
<1>2. ASSUME NEW h \in Handlers PROVE FrameOK(handler[h])'
  <2>1. PICK f \in Frame : f = handler[h] BY DEF TypeOK
  <2>2. FrameOK(f)' BY <1>1, <2>1, FrameStays DEF FramesOK
  <2> QED BY <2>1, <2>2
<1> QED BY <1>2 DEF FramesOK

(* A handler moves on to a frame that is in order; the others stay put.     *)
LEMMA FramesStep ==
    ASSUME TypeOK, FramesOK, SessionGrows,
           NEW h \in Handlers, NEW f \in Frame, Goto(h, f), FrameOK(f)'
    PROVE  FramesOK' /\ handler' \in [Handlers -> Frame]
<1>1. handler' \in [Handlers -> Frame] BY DEF TypeOK, Goto
<1>2. ASSUME NEW g \in Handlers PROVE FrameOK(handler[g])'
  <2>1. CASE g = h
    <3>1. handler'[g] = f BY <2>1 DEF TypeOK, Goto
    <3> QED BY <3>1 DEF FrameOK, Known, Paired, Describes, Answered
  <2>2. CASE g # h
    <3>1. PICK e \in Frame : e = handler[g] BY DEF TypeOK
    <3>2. handler'[g] = e BY <2>2, <3>1 DEF TypeOK, Goto
    <3>3. FrameOK(e) BY <3>1 DEF FramesOK
    <3>4. FrameOK(e)' BY <3>3, FrameStays
    <3> QED BY <3>2, <3>4 DEF FrameOK, Known, Paired, Describes, Answered
  <2> QED BY <2>1, <2>2
<1> QED BY <1>1, <1>2 DEF FramesOK

Holds(h, f) == f.op \in JobNames =>
    /\ f.room \in Rooms
    /\ jobs[f.op][f.room] # None
    /\ jobs[f.op][f.room].state = "active"
    /\ \A g \in Handlers \ {h} : ~RunsJob(handler[g], f.op, f.room)

(* A handler gives its job up, keeps it, or takes one nobody runs.          *)
LEMMA JobsStep ==
    ASSUME TypeOK, JobsHeld, NEW h \in Handlers, NEW f \in Frame, Goto(h, f),
           \A g \in Handlers \ {h} : handler[g].op \in JobNames =>
               /\ jobs'[handler[g].op][handler[g].room] # None
               /\ jobs'[handler[g].op][handler[g].room].state = "active",
           Holds(h, f)'
    PROVE  JobsHeld'
<1>1. handler' = [handler EXCEPT ![h] = f] /\ h \in DOMAIN handler
  BY DEF Goto, TypeOK
<1>2. \A g \in Handlers : handler'[g] = IF g = h THEN f ELSE handler[g]
  BY <1>1 DEF TypeOK
<1>3. ASSUME NEW g \in Handlers, handler'[g].op \in JobNames
      PROVE /\ handler'[g].room \in Rooms
            /\ jobs'[handler'[g].op][handler'[g].room] # None
            /\ jobs'[handler'[g].op][handler'[g].room].state = "active"
  BY <1>2, <1>3 DEF JobsHeld, Holds, JobNames
<1>4. ASSUME NEW g \in Handlers, NEW k \in Handlers, g # k, handler'[g].op \in JobNames
      PROVE ~RunsJob(handler'[k], handler'[g].op, handler'[g].room)
  <2>1. CASE g = h
    BY <1>2, <1>4, <2>1 DEF Holds, RunsJob, JobNames
  <2>2. CASE k = h
    BY <1>2, <1>4, <2>2 DEF Holds, RunsJob, JobNames
  <2>3. CASE g # h /\ k # h
    BY <1>2, <1>4, <2>3 DEF JobsHeld, RunsJob, JobNames
  <2> QED BY <2>1, <2>2, <2>3
<1> QED BY <1>3, <1>4 DEF JobsHeld, RunsJob, JobNames

(* A handler that only reads moves to a frame that is in order.             *)
LEMMA QuietStep ==
    ASSUME IInv, NEW h \in Handlers, NEW f \in Frame, Goto(h, f), FrameOK(f),
           f.op \in JobNames => RunsJob(handler[h], f.op, f.room),
           UNCHANGED stored
    PROVE  IInv'
<1>1. SessionGrows BY DEF SessionGrows, stored, Answered
<1>2. FrameOK(f)' BY <1>1, FrameStays
<1>3. FramesOK' /\ handler' \in [Handlers -> Frame]
  BY <1>1, <1>2, FramesStep DEF IInv
<1>4. TypeOK' BY <1>3 DEF IInv, TypeOK, stored
<1>5. Store'
  BY DEF IInv, Store, stored, PartiesAgree, RecordsAgree, MembersAgree, IceAgree,
         JobsAgree, LogsAgree, NotificationsAgree, ActiveIffAnswered,
         CompletedWasAnswered, Describes, Answered
<1>6. Holds(h, f)'
  <2>1. \A g \in Handlers \ {h} : handler'[g] = handler[g] BY DEF IInv, TypeOK, Goto
  <2>2. jobs' = jobs BY DEF stored
  <2> QED BY <2>1, <2>2 DEF IInv, JobsHeld, Holds, RunsJob, JobNames
<1>7. JobsHeld'
  BY <1>6, JobsStep DEF IInv, JobsHeld, stored
<1> QED BY <1>3, <1>4, <1>5, <1>7 DEF IInv


(* What a record read from Redis tells.                                     *)
LEMMA ReadIsKnown ==
    ASSUME IInv, NEW u \in Users, call[u] # None
    PROVE  call[u] \in Call /\ call[u].userId = u /\ Known(call[u])
  BY DEF IInv, TypeOK, Store, PartiesAgree, RecordsAgree, ActiveIffAnswered, Known

LEMMA IdleIsFrame == Idle \in Frame /\ Idle.mine = None /\ Idle.theirs = None
  BY DEF Idle, Frame, Steps

(* A handler that returns leaves a frame that knows nothing.                *)
LEMMA ReturnedOK ==
    ASSUME NEW f \in Frame
    PROVE  /\ Returned(f) \in Frame
           /\ FrameOK(Returned(f))
           /\ Returned(f).op \in JobNames => RunsJob(f, Returned(f).op, Returned(f).room)
<1>1. None \notin JobNames BY ConstantsAssumption DEF Ops
<1>2. FrameOK(Idle) /\ Idle.op \notin JobNames
  BY <1>1 DEF Idle, FrameOK, Known, Offering, Accepting, Ending
<1>3. CASE f.op \in JobNames
  <2>1. f.op \in Ops \cup {None} /\ f.room \in Rooms \cup {None} BY DEF Frame
  <2>2. Returned(f) = [at |-> "complete", op |-> f.op, from |-> None, to |-> None,
                       room |-> f.room, mine |-> None, theirs |-> None,
                       roomUsers |-> {}, unwritten |-> {}]
    BY <1>3 DEF Returned, Idle
  <2>3. Returned(f) \in Frame BY <2>1, <2>2 DEF Frame, Steps
  <2>4. FrameOK(Returned(f))
    BY <1>3, <2>2 DEF FrameOK, Known, Offering, Accepting, Ending
  <2> QED BY <2>2, <2>3, <2>4 DEF RunsJob
<1>4. CASE f.op \notin JobNames
  BY <1>2, <1>4, IdleIsFrame DEF Returned
<1> QED BY <1>3, <1>4

LEMMA QuietReturn ==
    ASSUME IInv, NEW h \in Handlers, Return(h), UNCHANGED stored
    PROVE  IInv'
<1>1. handler[h] \in Frame BY DEF IInv, TypeOK
<1>2. PICK f \in Frame : f = Returned(handler[h]) BY <1>1, ReturnedOK
<1>3. Goto(h, f) BY <1>2 DEF Return
<1>4. FrameOK(f) /\ (f.op \in JobNames => RunsJob(handler[h], f.op, f.room))
  BY <1>1, <1>2, ReturnedOK
<1> QED BY <1>3, <1>4, QuietStep

LEMMA InitiateCallStep ==
    ASSUME IInv, NEW h \in Handlers, NEW u \in Users, NEW v \in Users,
           InitiateCall(h, u, v)
    PROVE  IInv'
<1>1. PICK f \in Frame : f = [Idle EXCEPT !.at = "calleeBusy", !.op = "offer",
                                          !.from = u, !.to = v]
  BY DEF Frame, Idle, Steps, Ops, ClientOps
<1>2. FrameOK(f)
  BY <1>1 DEF InitiateCall, FrameOK, Idle, Known, Offering, Accepting, Ending
<1>3. f.op \notin JobNames BY <1>1 DEF Idle, JobNames
<1> QED BY <1>1, <1>2, <1>3, QuietStep DEF InitiateCall

LEMMA CheckCalleeBusyStep ==
    ASSUME IInv, NEW h \in Handlers, CheckCalleeBusy(h)
    PROVE  IInv'
<1>1. CASE Return(h) BY <1>1, QuietReturn DEF CheckCalleeBusy
<1>2. CASE Advance(h, "create")
  <2>1. handler[h] \in Frame /\ FrameOK(handler[h]) /\ handler[h].at = "calleeBusy"
    BY DEF IInv, TypeOK, FramesOK, CheckCalleeBusy
  <2>2. PICK f \in Frame : f = [handler[h] EXCEPT !.at = "create"]
    BY <2>1 DEF Frame, Steps
  <2>3. FrameOK(f)
    BY <2>1, <2>2 DEF FrameOK, Frame, Known, Paired, Offering, Accepting, Ending
  <2>4. f.op = handler[h].op /\ f.room = handler[h].room BY <2>1, <2>2 DEF Frame
  <2> QED BY <1>2, <2>2, <2>3, <2>4, QuietStep DEF Advance, CheckCalleeBusy, RunsJob
<1> QED BY <1>1, <1>2 DEF CheckCalleeBusy

LEMMA AcceptCallStep ==
    ASSUME IInv, NEW h \in Handlers, NEW u \in Users, AcceptCall(h, u)
    PROVE  IInv'
<1>1. call[u] \in Call /\ call[u].userId = u /\ Known(call[u])
  BY ReadIsKnown DEF AcceptCall
<1>2. PICK f \in Frame : f = [Idle EXCEPT !.at = "acceptPeer", !.op = "answer",
                                          !.from = u, !.mine = call[u]]
  BY <1>1 DEF Frame, Idle, Steps, Ops, ClientOps
<1>3. FrameOK(f)
  BY <1>1, <1>2 DEF FrameOK, Idle, Known, Offering, Accepting, Ending
<1>4. f.op \notin JobNames BY <1>2 DEF Idle, JobNames
<1> QED BY <1>2, <1>3, <1>4, QuietStep DEF AcceptCall

LEMMA ReadCallerToAcceptStep ==
    ASSUME IInv, NEW h \in Handlers, ReadCallerToAccept(h)
    PROVE  IInv'
<1> DEFINE theirs == call[handler[h].mine.peerUserId]
<1>1. CASE Return(h) BY <1>1, QuietReturn DEF ReadCallerToAccept
<1>2. CASE /\ Acceptable(handler[h].mine, theirs)
           /\ Goto(h, [handler[h] EXCEPT !.at = "acceptWrite", !.theirs = theirs])
  <2>1. handler[h] \in Frame /\ FrameOK(handler[h]) /\ handler[h].at = "acceptPeer"
    BY DEF IInv, TypeOK, FramesOK, ReadCallerToAccept
  <2>2. handler[h].mine \in Call BY <2>1 DEF FrameOK, Accepting
  <2>3. theirs \in Call /\ Known(theirs)
    BY <1>2, <2>2, ReadIsKnown DEF Acceptable, Call
  <2>4. PICK f \in Frame : f = [handler[h] EXCEPT !.at = "acceptWrite", !.theirs = theirs]
    BY <2>1, <2>3 DEF Frame, Steps
  <2>5. f.mine = handler[h].mine /\ f.theirs = theirs /\ f.at = "acceptWrite"
    BY <2>1, <2>4 DEF Frame
  <2>6. Paired(f) /\ f.mine.direction = "incoming"
    BY <1>2, <2>2, <2>3, <2>5 DEF Paired, Acceptable
  <2>7. f.op = handler[h].op /\ f.room = handler[h].room /\ f.from = handler[h].from
    BY <2>1, <2>4 DEF Frame
  <2>8. FrameOK(f)
    BY <2>1, <2>3, <2>5, <2>6, <2>7 DEF FrameOK, Offering, Accepting, Ending
  <2> QED BY <1>2, <2>4, <2>7, <2>8, QuietStep DEF ReadCallerToAccept, RunsJob
<1> QED BY <1>1, <1>2 DEF ReadCallerToAccept

LEMMA HangupStep ==
    ASSUME IInv, NEW h \in Handlers, NEW u \in Users,
           NEW op \in {"decline", "cancel", "end"}, Hangup(h, op, u)
    PROVE  IInv'
<1>1. call[u] \in Call /\ call[u].userId = u /\ Known(call[u])
  BY ReadIsKnown DEF Hangup
<1>2. PICK f \in Frame : f = [Idle EXCEPT !.at = "peer", !.op = op, !.from = u,
                                          !.mine = call[u]]
  BY <1>1 DEF Frame, Idle, Steps, Ops, ClientOps
<1>3. FrameOK(f)
  BY <1>1, <1>2 DEF FrameOK, Idle, Known, Offering, Accepting, Ending
<1>4. f.op \notin JobNames BY <1>2 DEF Idle, JobNames
<1> QED BY <1>2, <1>3, <1>4, QuietStep DEF Hangup


LEMMA RereadOwnCallStep ==
    ASSUME IInv, NEW h \in Handlers, RereadOwnCall(h)
    PROVE  IInv'
<1> DEFINE mine == call[handler[h].from]
<1>1. CASE Return(h) BY <1>1, QuietReturn DEF RereadOwnCall
<1>2. CASE mine # None /\ Goto(h, [handler[h] EXCEPT !.at = "peer", !.mine = mine])
  <2>1. handler[h] \in Frame /\ FrameOK(handler[h]) /\ handler[h].at = "reread"
    BY DEF IInv, TypeOK, FramesOK, RereadOwnCall
  <2>2. mine \in Call /\ Known(mine) BY <1>2, <2>1, ReadIsKnown DEF FrameOK
  <2>3. PICK f \in Frame : f = [handler[h] EXCEPT !.at = "peer", !.mine = mine]
    BY <2>1, <2>2 DEF Frame, Steps
  <2>4. /\ f.at = "peer" /\ f.mine = mine /\ f.theirs = handler[h].theirs
        /\ f.op = handler[h].op /\ f.room = handler[h].room
    BY <2>1, <2>3 DEF Frame
  <2>5. FrameOK(f)
    BY <2>1, <2>2, <2>4 DEF FrameOK, Offering, Accepting, Ending
  <2> QED BY <1>2, <2>3, <2>4, <2>5, QuietStep DEF RereadOwnCall, RunsJob
<1> QED BY <1>1, <1>2 DEF RereadOwnCall

LEMMA ReadPeerCallStep ==
    ASSUME IInv, NEW h \in Handlers, ReadPeerCall(h)
    PROVE  IInv'
<1> DEFINE theirs == call[handler[h].mine.peerUserId]
<1>1. CASE Return(h) BY <1>1, QuietReturn DEF ReadPeerCall
<1>2. CASE /\ Endable(handler[h].op, handler[h].mine, theirs)
           /\ Goto(h, [handler[h] EXCEPT !.at = "members", !.theirs = theirs])
  <2>1. handler[h] \in Frame /\ FrameOK(handler[h]) /\ handler[h].at = "peer"
    BY DEF IInv, TypeOK, FramesOK, ReadPeerCall
  <2>2. handler[h].mine \in Call BY <2>1 DEF FrameOK
  <2>3. theirs \in Call /\ Known(theirs)
    BY <1>2, <2>2, ReadIsKnown DEF Endable, Call
  <2>4. PICK f \in Frame : f = [handler[h] EXCEPT !.at = "members", !.theirs = theirs]
    BY <2>1, <2>3 DEF Frame, Steps
  <2>5. /\ f.at = "members" /\ f.mine = handler[h].mine /\ f.theirs = theirs
        /\ f.op = handler[h].op /\ f.room = handler[h].room
    BY <2>1, <2>4 DEF Frame
  <2>6. Paired(f)
    BY <1>2, <2>2, <2>3, <2>5 DEF Paired, Endable, Unanswered
  <2>7. /\ f.op \notin {"decline", "cancel", "ringing-timeout"} => f.mine.status = "active"
        /\ f.op = "ringing-timeout" => f.mine.direction = "incoming"
    BY <1>2, <2>5 DEF Endable, Unanswered
  <2>8. FrameOK(f)
    BY <2>1, <2>3, <2>5, <2>6, <2>7 DEF FrameOK, Offering, Accepting, Ending
  <2> QED BY <1>2, <2>4, <2>5, <2>8, QuietStep DEF ReadPeerCall, RunsJob
<1> QED BY <1>1, <1>2 DEF ReadPeerCall

LEMMA ReadRoomUsersStep ==
    ASSUME IInv, NEW h \in Handlers, ReadRoomUsers(h)
    PROVE  IInv'
<1> DEFINE users == members[handler[h].mine.roomId]
<1>1. handler[h] \in Frame /\ FrameOK(handler[h]) /\ handler[h].at = "members"
  BY DEF IInv, TypeOK, FramesOK, ReadRoomUsers
<1>2. users \in SUBSET Users
  BY <1>1 DEF IInv, TypeOK, FrameOK, Ending, Paired, Call
<1>3. PICK f \in Frame : f = [handler[h] EXCEPT !.at = "delete", !.roomUsers = users]
  BY <1>1, <1>2 DEF Frame, Steps
<1>4. /\ f.at = "delete" /\ f.mine = handler[h].mine /\ f.theirs = handler[h].theirs
      /\ f.op = handler[h].op /\ f.room = handler[h].room
  BY <1>1, <1>3 DEF Frame
<1>5. FrameOK(f)
  BY <1>1, <1>4 DEF FrameOK, Paired, Offering, Accepting, Ending
<1> QED BY <1>3, <1>4, <1>5, QuietStep DEF ReadRoomUsers, RunsJob

LEMMA HandleIceCandidateStep ==
    ASSUME IInv, NEW h \in Handlers, NEW u \in Users, HandleIceCandidate(h, u)
    PROVE  IInv'
<1>1. call[u] \in Call /\ call[u].userId = u /\ Known(call[u])
  BY ReadIsKnown DEF HandleIceCandidate
<1>2. PICK f \in Frame : f = [Idle EXCEPT !.at = "icePush", !.op = "ice", !.from = u,
                                          !.mine = call[u]]
  BY <1>1 DEF Frame, Idle, Steps, Ops, ClientOps
<1>3. FrameOK(f)
  BY <1>1, <1>2 DEF FrameOK, Idle, Known, Offering, Accepting, Ending
<1>4. f.op \notin JobNames BY <1>2 DEF Idle, JobNames
<1> QED BY <1>2, <1>3, <1>4, QuietStep DEF HandleIceCandidate


-----------------------------------------------------------------------------
(* Steps of the queue: only jobs and one frame change. *)

others == <<call, members, ice, callLogs, notifications, session>>

LEMMA QueueStep ==
    ASSUME IInv, NEW h \in Handlers, NEW f \in Frame, Goto(h, f), FrameOK(f),
           UNCHANGED others,
           jobs' \in [JobNames -> [Rooms -> JobState \cup {None}]],
           JobsAgree',
           \A r \in Rooms : jobs'["max-duration"][r] # None => Answered(r),
           JobsHeld'
    PROVE  IInv'
<1>1. SessionGrows BY DEF SessionGrows, others, Answered
<1>2. FrameOK(f)' BY <1>1, FrameStays
<1>3. FramesOK' /\ handler' \in [Handlers -> Frame]
  BY <1>1, <1>2, FramesStep DEF IInv
<1>4. TypeOK' BY <1>3 DEF IInv, TypeOK, others
<1>5. PartiesAgree'
  BY DEF IInv, Store, others, PartiesAgree, RecordsAgree, MembersAgree, IceAgree,
         LogsAgree, NotificationsAgree, Describes
<1>6. ActiveIffAnswered' /\ CompletedWasAnswered'
  BY DEF IInv, Store, others, ActiveIffAnswered, CompletedWasAnswered, Answered
<1> QED BY <1>3, <1>4, <1>5, <1>6 DEF IInv, Store

LEMMA DispatchStep ==
    ASSUME IInv, NEW h \in Handlers, NEW n \in JobNames, NEW r \in Rooms,
           NEW f \in Frame, Dispatch(h, n, r), Goto(h, f), FrameOK(f),
           f.op = n, f.room = r, UNCHANGED others
    PROVE  IInv'
<1>1. jobs \in [JobNames -> [Rooms -> JobState \cup {None}]] BY DEF IInv, TypeOK
<1>2. jobs[n][r] \in JobState /\ jobs[n][r].state = "delayed"
  BY <1>1 DEF Dispatch
<1>3. PICK j \in JobState : j = [jobs[n][r] EXCEPT !.state = "active"]
  BY <1>2 DEF JobState
<1>4. j.state = "active" /\ j.userId = jobs[n][r].userId
  BY <1>2, <1>3 DEF JobState
<1>5. jobs' = [jobs EXCEPT ![n][r] = j]
  BY <1>1, <1>3 DEF Dispatch
<1>6. jobs' \in [JobNames -> [Rooms -> JobState \cup {None}]]
  BY <1>1, <1>5
<1>7. /\ jobs'[n][r] = j
      /\ \A m \in JobNames, q \in Rooms : <<m, q>> # <<n, r>> => jobs'[m][q] = jobs[m][q]
  BY <1>1, <1>5
<1>8. JobsAgree'
  BY <1>2, <1>4, <1>7, ConstantsAssumption
  DEF IInv, Store, PartiesAgree, JobsAgree, others
<1>9. \A q \in Rooms : jobs'["max-duration"][q] # None => Answered(q)
  BY <1>2, <1>7, ConstantsAssumption DEF IInv, Store, CompletedWasAnswered, JobNames
<1>10. \A g \in Handlers \ {h} : handler'[g] = handler[g] BY DEF IInv, TypeOK, Goto
<1>11. \A g \in Handlers : ~RunsJob(handler[g], n, r)
  BY <1>2 DEF IInv, JobsHeld, RunsJob
<1>12. Holds(h, f)'
  BY <1>3, <1>4, <1>7, <1>10, <1>11, ConstantsAssumption DEF Holds, RunsJob
<1>13. \A g \in Handlers \ {h} : handler[g].op \in JobNames =>
          /\ jobs'[handler[g].op][handler[g].room] # None
          /\ jobs'[handler[g].op][handler[g].room].state = "active"
  BY <1>7, <1>11 DEF IInv, JobsHeld, RunsJob
<1>14. JobsHeld' BY <1>12, <1>13, JobsStep DEF IInv
<1> QED BY <1>6, <1>8, <1>9, <1>14, QueueStep

LEMMA TimeoutRingingCallStep ==
    ASSUME IInv, NEW h \in Handlers, NEW r \in Rooms, TimeoutRingingCall(h, r)
    PROVE  IInv'
<1> DEFINE n == "ringing-timeout"
           u == jobs[n][r].userId
           f == [Idle EXCEPT !.at = "peer", !.op = n, !.from = u, !.room = r,
                             !.mine = call[u]]
           e == [Idle EXCEPT !.at = "complete", !.op = n, !.room = r]
<1>1. n \in JobNames BY DEF JobNames
<1>2. u \in Users
  BY <1>1 DEF TimeoutRingingCall, Dispatch, IInv, TypeOK, JobState
<1>3. UNCHANGED others BY DEF TimeoutRingingCall, others
<1>4. CASE HasRoom(call[u], r)
  <2>1. call[u] \in Call /\ Known(call[u]) BY <1>2, <1>4, ReadIsKnown DEF HasRoom
  <2>2. PICK g \in Frame : g = f
    BY <1>1, <1>2, <2>1 DEF Frame, Idle, Steps, Ops
  <2>3. g.op = n /\ g.room = r /\ Goto(h, g)
    BY <1>4, <2>2 DEF TimeoutRingingCall, Idle
  <2>4. FrameOK(g)
    BY <2>1, <2>2 DEF FrameOK, Idle, Known, Offering, Accepting, Ending
  <2> QED BY <1>1, <1>3, <2>3, <2>4, DispatchStep DEF TimeoutRingingCall
<1>5. CASE ~HasRoom(call[u], r)
  <2>1. Returned(f) = e BY <1>1 DEF Returned, Idle
  <2>2. PICK g \in Frame : g = e BY <1>1 DEF Frame, Idle, Steps, Ops
  <2>3. g.op = n /\ g.room = r /\ Goto(h, g)
    BY <1>5, <2>1, <2>2 DEF TimeoutRingingCall, Idle
  <2>4. FrameOK(g)
    BY <1>1, <2>2 DEF FrameOK, Idle, Known, Offering, Accepting, Ending
  <2> QED BY <1>1, <1>3, <2>3, <2>4, DispatchStep DEF TimeoutRingingCall
<1> QED BY <1>4, <1>5

LEMMA EndCallByRoomStep ==
    ASSUME IInv, NEW h \in Handlers, NEW r \in Rooms, EndCallByRoom(h, r)
    PROVE  IInv'
<1> DEFINE n == "max-duration"
           u == jobs[n][r].userId
           f == [Idle EXCEPT !.at = "reread", !.op = n, !.from = u, !.room = r]
           e == [Idle EXCEPT !.at = "complete", !.op = n, !.room = r]
<1>1. n \in JobNames BY DEF JobNames
<1>2. u \in Users
  BY <1>1 DEF EndCallByRoom, Dispatch, IInv, TypeOK, JobState
<1>3. UNCHANGED others BY DEF EndCallByRoom, others
<1>4. CASE HasRoom(call[u], r)
  <2>1. PICK g \in Frame : g = f
    BY <1>1, <1>2 DEF Frame, Idle, Steps, Ops
  <2>2. g.op = n /\ g.room = r /\ Goto(h, g)
    BY <1>4, <2>1 DEF EndCallByRoom, Idle
  <2>3. FrameOK(g)
    BY <1>2, <2>1 DEF FrameOK, Idle, Known, Offering, Accepting, Ending
  <2> QED BY <1>1, <1>3, <2>2, <2>3, DispatchStep DEF EndCallByRoom
<1>5. CASE ~HasRoom(call[u], r)
  <2>1. Returned(f) = e BY <1>1 DEF Returned, Idle
  <2>2. PICK g \in Frame : g = e BY <1>1 DEF Frame, Idle, Steps, Ops
  <2>3. g.op = n /\ g.room = r /\ Goto(h, g)
    BY <1>5, <2>1, <2>2 DEF EndCallByRoom, Idle
  <2>4. FrameOK(g)
    BY <1>1, <2>2 DEF FrameOK, Idle, Known, Offering, Accepting, Ending
  <2> QED BY <1>1, <1>3, <2>3, <2>4, DispatchStep DEF EndCallByRoom
<1> QED BY <1>4, <1>5


LEMMA ScheduleStep ==
    ASSUME IInv, NEW h \in Handlers, NEW n \in JobNames, NEW r \in Rooms,
           NEW u \in Users, Schedule(n, r, u), Return(h), UNCHANGED others,
           handler[h].op \notin JobNames,
           session[r] # None, session[r].callee = u,
           n = "max-duration" => Answered(r)
    PROVE  IInv'
<1>1. jobs \in [JobNames -> [Rooms -> JobState \cup {None}]] BY DEF IInv, TypeOK
<1>2. PICK j \in JobState : j = [userId |-> u, state |-> "delayed", stalled |-> FALSE]
  BY DEF JobState
<1>3. /\ jobs' \in [JobNames -> [Rooms -> JobState \cup {None}]]
      /\ jobs'[n][r] = IF jobs[n][r] = None THEN j ELSE jobs[n][r]
      /\ \A m \in JobNames, q \in Rooms : <<m, q>> # <<n, r>> => jobs'[m][q] = jobs[m][q]
  BY <1>1, <1>2 DEF Schedule
<1>4. JobsAgree'
  BY <1>2, <1>3 DEF IInv, Store, PartiesAgree, JobsAgree, others
<1>5. \A q \in Rooms : jobs'["max-duration"][q] # None => Answered(q)
  BY <1>3 DEF IInv, Store, CompletedWasAnswered, JobNames
<1>6. \A g \in Handlers : handler[g].op \in JobNames =>
          /\ jobs'[handler[g].op][handler[g].room] # None
          /\ jobs'[handler[g].op][handler[g].room].state = "active"
  BY <1>3 DEF IInv, JobsHeld
<1>7. PICK f \in Frame : f = Returned(handler[h])
  BY ReturnedOK DEF IInv, TypeOK
<1>8. FrameOK(f) BY <1>7, ReturnedOK DEF IInv, TypeOK
<1>9. f.op \notin JobNames
  BY <1>7, ConstantsAssumption DEF Returned, Idle, Ops
<1>10. Holds(h, f)' BY <1>9 DEF Holds
<1>11. JobsHeld' BY <1>6, <1>7, <1>10, JobsStep DEF IInv, Return
<1> QED BY <1>3, <1>4, <1>5, <1>7, <1>8, <1>11, QueueStep DEF Return

LEMMA ScheduleRingingTimeoutStep ==
    ASSUME IInv, NEW h \in Handlers, ScheduleRingingTimeout(h)
    PROVE  IInv'
<1>1. FrameOK(handler[h]) /\ handler[h].at = "scheduleRinging"
  BY DEF IInv, FramesOK, ScheduleRingingTimeout
<1>2. /\ handler[h].room \in Rooms /\ handler[h].to \in Users
      /\ session[handler[h].room] # None
      /\ session[handler[h].room].callee = handler[h].to
      /\ handler[h].op \notin JobNames
  BY <1>1 DEF FrameOK, Offering, JobNames
<1> QED BY <1>2, ScheduleStep DEF ScheduleRingingTimeout, others, JobNames

LEMMA ScheduleMaxDurationTimeoutStep ==
    ASSUME IInv, NEW h \in Handlers, ScheduleMaxDurationTimeout(h)
    PROVE  IInv'
<1>1. FrameOK(handler[h]) /\ handler[h].at = "scheduleMax"
  BY DEF IInv, FramesOK, ScheduleMaxDurationTimeout
<1>2. /\ Paired(handler[h]) /\ handler[h].mine.direction = "incoming"
      /\ handler[h].room = handler[h].mine.roomId /\ Answered(handler[h].room)
      /\ handler[h].op \notin JobNames
      /\ Known(handler[h].mine)
  BY <1>1 DEF FrameOK, Accepting, JobNames
<1>3. /\ handler[h].room \in Rooms /\ handler[h].mine.userId \in Users
      /\ handler[h].mine # None
  BY <1>2, ConstantsAssumption DEF Paired, Call
<1>4. /\ session[handler[h].room] # None
      /\ session[handler[h].room].callee = handler[h].mine.userId
  BY <1>2, <1>3 DEF Known, Describes
<1> QED BY <1>2, <1>3, <1>4, ScheduleStep DEF ScheduleMaxDurationTimeout, others, JobNames

(* A handler drops its job: acknowledged, failed, or found stalled.         *)
LEMMA ReleaseStep ==
    ASSUME IInv, NEW h \in Handlers, NEW x \in JobState \cup {None},
           handler[h].op \in JobNames, Goto(h, Idle), UNCHANGED others,
           jobs' = [jobs EXCEPT ![handler[h].op][handler[h].room] = x],
           x # None => x.userId = jobs[handler[h].op][handler[h].room].userId
    PROVE  IInv'
<1> DEFINE n == handler[h].op
           r == handler[h].room
<1>1. jobs \in [JobNames -> [Rooms -> JobState \cup {None}]] BY DEF IInv, TypeOK
<1>2. r \in Rooms /\ jobs[n][r] # None BY DEF IInv, JobsHeld
<1>3. /\ jobs' \in [JobNames -> [Rooms -> JobState \cup {None}]]
      /\ jobs'[n][r] = x
      /\ \A m \in JobNames, q \in Rooms : <<m, q>> # <<n, r>> => jobs'[m][q] = jobs[m][q]
  BY <1>1, <1>2
<1>4. JobsAgree'
  BY <1>2, <1>3 DEF IInv, Store, PartiesAgree, JobsAgree, others
<1>5. \A q \in Rooms : jobs'["max-duration"][q] # None => Answered(q)
  BY <1>2, <1>3 DEF IInv, Store, CompletedWasAnswered, JobNames
<1>6. ASSUME NEW g \in Handlers \ {h}, handler[g].op \in JobNames
      PROVE  /\ jobs'[handler[g].op][handler[g].room] # None
             /\ jobs'[handler[g].op][handler[g].room].state = "active"
  <2>1. /\ handler[g].room \in Rooms
        /\ jobs[handler[g].op][handler[g].room] # None
        /\ jobs[handler[g].op][handler[g].room].state = "active"
    BY <1>6 DEF IInv, JobsHeld
  <2>2. <<handler[g].op, handler[g].room>> # <<n, r>>
    BY <1>6 DEF IInv, JobsHeld, RunsJob
  <2>3. jobs'[handler[g].op][handler[g].room] = jobs[handler[g].op][handler[g].room]
    BY <1>3, <1>6, <2>1, <2>2
  <2> QED BY <2>1, <2>3
<1>7. Idle \in Frame /\ FrameOK(Idle) /\ Idle.op \notin JobNames
  BY IdleIsFrame, ConstantsAssumption
  DEF Idle, FrameOK, Known, Offering, Accepting, Ending, Ops
<1>8. Holds(h, Idle)' BY <1>7 DEF Holds, Idle
<1>9. JobsHeld' BY <1>6, <1>7, <1>8, JobsStep DEF IInv
<1> QED BY <1>3, <1>4, <1>5, <1>7, <1>9, QueueStep

LEMMA CompleteJobStep ==
    ASSUME IInv, NEW h \in Handlers, CompleteJob(h)
    PROVE  IInv'
<1>1. handler[h].op \in JobNames
  BY DEF IInv, FramesOK, FrameOK, CompleteJob
<1> QED BY <1>1, ReleaseStep DEF CompleteJob, others

(* The job a handler fails with keeps its user.                             *)
LEMMA FailedJob ==
    ASSUME IInv, NEW h \in Handlers, handler[h].op \in JobNames, Goto(h, Idle),
           UNCHANGED others,
           jobs' = [jobs EXCEPT ![handler[h].op][handler[h].room].state = "failed"]
    PROVE  IInv'
<1> DEFINE n == handler[h].op
           r == handler[h].room
<1>1. jobs[n][r] \in JobState BY DEF IInv, TypeOK, JobsHeld
<1>2. PICK x \in JobState : x = [jobs[n][r] EXCEPT !.state = "failed"]
  BY <1>1 DEF JobState
<1>3. x.userId = jobs[n][r].userId BY <1>1, <1>2 DEF JobState
<1>4. jobs' = [jobs EXCEPT ![n][r] = x] BY <1>2 DEF IInv, TypeOK
<1> QED BY <1>3, <1>4, ReleaseStep

LEMMA AbortStep ==
    ASSUME IInv, NEW h \in Handlers, Abort(h)
    PROVE  IInv'
<1>1. CASE handler[h].op \in JobNames
  BY <1>1, FailedJob DEF Abort, others
<1>2. CASE handler[h].op \notin JobNames
  <2>1. UNCHANGED stored BY <1>2 DEF Abort, stored
  <2>2. Idle \in Frame /\ FrameOK(Idle) /\ Idle.op \notin JobNames
    BY IdleIsFrame, ConstantsAssumption
    DEF Idle, FrameOK, Known, Offering, Accepting, Ending, Ops
  <2> QED BY <2>1, <2>2, QuietStep DEF Abort
<1> QED BY <1>1, <1>2

LEMMA StallStep ==
    ASSUME IInv, NEW h \in Handlers, Stall(h)
    PROVE  IInv'
<1> DEFINE n == handler[h].op
           r == handler[h].room
<1>1. n \in JobNames BY DEF Stall
<1>2. jobs[n][r] \in JobState BY <1>1 DEF IInv, TypeOK, JobsHeld
<1>3. PICK x \in JobState : x = [jobs[n][r] EXCEPT !.state = "delayed", !.stalled = TRUE]
  BY <1>2 DEF JobState
<1>4. x.userId = jobs[n][r].userId BY <1>2, <1>3 DEF JobState
<1>5. jobs' = [jobs EXCEPT ![n][r] = x] BY <1>3 DEF IInv, TypeOK, Stall
<1> QED BY <1>1, <1>4, <1>5, ReleaseStep DEF Stall, others


-----------------------------------------------------------------------------
(* Steps that write: the queue is left alone. *)

StoreTypeOK ==
    /\ call \in [Users -> Call \cup {None}]
    /\ members \in [Rooms -> SUBSET Users]
    /\ ice \subseteq Rooms \X Users
    /\ DOMAIN callLogs \subseteq LogDoc
    /\ \A d \in DOMAIN callLogs : callLogs[d] \in Nat \ {0}
    /\ notifications \subseteq Users \X Rooms
    /\ session \in [Rooms -> Session \cup {None}]

LEMMA WriteStep ==
    ASSUME IInv, NEW h \in Handlers, NEW f \in Frame, Goto(h, f), SessionGrows,
           FrameOK(f)', f.op \in JobNames => RunsJob(handler[h], f.op, f.room),
           jobs' = jobs, StoreTypeOK', Store'
    PROVE  IInv'
<1>1. FramesOK' /\ handler' \in [Handlers -> Frame] BY FramesStep DEF IInv
<1>2. TypeOK' BY <1>1 DEF IInv, TypeOK, StoreTypeOK
<1>3. \A g \in Handlers \ {h} : handler'[g] = handler[g] BY DEF IInv, TypeOK, Goto
<1>4. Holds(h, f)' BY <1>3 DEF IInv, JobsHeld, Holds, RunsJob, JobNames
<1>5. JobsHeld' BY <1>4, JobsStep DEF IInv, JobsHeld
<1> QED BY <1>1, <1>2, <1>5 DEF IInv

(* Redis drops a key: less is stored, the frames stay as they are.          *)
LEMMA ExpireStep ==
    ASSUME IInv, Expire
    PROVE  IInv'
<1>1. UNCHANGED <<jobs, callLogs, notifications, handler, session>>
  BY DEF Expire, ExpireCall, ExpireRoom, ExpireIce
<1>2. call' \in [Users -> Call \cup {None}] /\ \A u \in Users : call'[u] \in {call[u], None}
  BY DEF Expire, ExpireCall, ExpireRoom, ExpireIce, IInv, TypeOK
<1>3. members' \in [Rooms -> SUBSET Users] /\ \A r \in Rooms : members'[r] \in {members[r], {}}
  BY DEF Expire, ExpireCall, ExpireRoom, ExpireIce, IInv, TypeOK
<1>4. ice' \subseteq ice
  BY DEF Expire, ExpireCall, ExpireRoom, ExpireIce
<1>5. TypeOK' BY <1>1, <1>2, <1>3, <1>4 DEF IInv, TypeOK
<1>6. RecordsAgree' /\ ActiveIffAnswered'
  BY <1>1, <1>2 DEF IInv, Store, PartiesAgree, RecordsAgree, ActiveIffAnswered, Describes,
                    Answered
<1>7. MembersAgree' /\ IceAgree'
  BY <1>1, <1>3, <1>4 DEF IInv, Store, PartiesAgree, MembersAgree, IceAgree
<1>8. JobsAgree' /\ LogsAgree' /\ NotificationsAgree' /\ CompletedWasAnswered'
  BY <1>1 DEF IInv, Store, PartiesAgree, JobsAgree, LogsAgree, NotificationsAgree,
              CompletedWasAnswered, Describes, Answered
<1>9. FramesOK' BY <1>1, HistoryKept DEF IInv
<1>10. JobsHeld' BY <1>1 DEF IInv, JobsHeld, RunsJob
<1> QED BY <1>5, <1>6, <1>7, <1>8, <1>9, <1>10 DEF IInv, Store, PartiesAgree

LEMMA AddPendingIceCandidateStep ==
    ASSUME IInv, NEW h \in Handlers, AddPendingIceCandidate(h)
    PROVE  IInv'
<1> DEFINE m == handler[h].mine
<1>1. m \in Call /\ Known(m) /\ handler[h].op = "ice"
  BY DEF IInv, FramesOK, FrameOK, AddPendingIceCandidate
<1>2. PICK f \in Frame : f = Returned(handler[h])
  BY ReturnedOK DEF IInv, TypeOK
<1>3. FrameOK(f) BY <1>2, ReturnedOK DEF IInv, TypeOK
<1>4. f.op \notin JobNames
  BY <1>1, <1>2, ConstantsAssumption DEF Returned, Idle, Ops, JobNames
<1>5. UNCHANGED <<call, members, jobs, callLogs, notifications, session>>
  BY DEF AddPendingIceCandidate
<1>6. SessionGrows BY <1>5 DEF SessionGrows, Answered
<1>7. FrameOK(f)' BY <1>3, <1>6, FrameStays
<1>8. ice' = ice \cup {<<m.roomId, m.peerUserId>>} BY DEF AddPendingIceCandidate
<1>9. StoreTypeOK'
  BY <1>1, <1>5, <1>8 DEF IInv, TypeOK, StoreTypeOK, Call
<1>10. session[m.roomId] # None /\ m.peerUserId \in {session[m.roomId].caller, session[m.roomId].callee}
  BY <1>1, ConstantsAssumption DEF Known, Describes
<1>11. IceAgree'
  BY <1>5, <1>8, <1>10 DEF IInv, Store, PartiesAgree, IceAgree
<1>12. Store'
  BY <1>5, <1>11 DEF IInv, Store, PartiesAgree, RecordsAgree, MembersAgree,
         JobsAgree, LogsAgree, NotificationsAgree, ActiveIffAnswered,
         CompletedWasAnswered, Describes, Answered
<1> QED BY <1>2, <1>4, <1>5, <1>6, <1>7, <1>9, <1>12, WriteStep
        DEF AddPendingIceCandidate, Return


LEMMA CreateCallStep ==
    ASSUME IInv, NEW h \in Handlers, NEW r \in Rooms, CreateCall(h, r)
    PROVE  IInv'
<1>1. handler[h] \in Frame /\ FrameOK(handler[h]) /\ handler[h].at = "create"
  BY DEF IInv, TypeOK, FramesOK, CreateCall
<1>a. PICK u \in Users, v \in Users : u = handler[h].from /\ v = handler[h].to
  BY <1>1 DEF FrameOK, Offering
<1>2. u # v /\ handler[h].op = "offer"
  BY <1>1, <1>a DEF FrameOK, Offering
<1>3. PICK c \in Call : c = OutgoingCall(u, v, r, "calling")
  BY <1>2 DEF OutgoingCall, Call, Directions, Statuses
<1>4. PICK d \in Call : d = IncomingCall(v, u, r, "ringing")
  BY <1>2 DEF IncomingCall, Call, Directions, Statuses
<1>5. PICK s \in Session : s = [caller |-> u, callee |-> v, answers |-> 0, outcome |-> None]
  BY <1>2 DEF Session
<1>6. PICK f \in Frame : f = [handler[h] EXCEPT !.at = "scheduleRinging", !.room = r]
  BY <1>1 DEF Frame, Steps
<1>7. /\ f.at = "scheduleRinging" /\ f.room = r /\ f.op = "offer" /\ f.from = u /\ f.to = v
      /\ f.mine = handler[h].mine /\ f.theirs = handler[h].theirs
  BY <1>1, <1>2, <1>a, <1>6 DEF Frame
<1>8. call' \in [Users -> Call \cup {None}] /\ call'[u] = c /\ call'[v] = d
      /\ \A w \in Users \ {u, v} : call'[w] = call[w]
  BY <1>2, <1>a, <1>3, <1>4 DEF CreateCall, IInv, TypeOK
<1>9. session[r] = None /\ session' \in [Rooms -> Session \cup {None}] /\ session'[r] = s
      /\ \A q \in Rooms \ {r} : session'[q] = session[q]
  BY <1>a, <1>5 DEF CreateCall, IInv, TypeOK
<1>10. members' \in [Rooms -> SUBSET Users] /\ members'[r] = {u, v}
       /\ \A q \in Rooms \ {r} : members'[q] = members[q]
  BY <1>a DEF CreateCall, IInv, TypeOK
<1>11. UNCHANGED <<ice, jobs, callLogs, notifications>> BY DEF CreateCall
<1>12. s # None /\ s.caller = u /\ s.callee = v /\ s.answers = 0
  BY <1>5, ConstantsAssumption
<1>13. SessionGrows BY <1>9 DEF SessionGrows, Answered
<1>14. ASSUME NEW e \in Call, Known(e) PROVE Known(e)'
  BY <1>13, <1>14, ConstantsAssumption DEF SessionGrows, Known, Describes, Call
<1>15. FrameOK(f)'
  <2>1. Known(f.mine)' /\ Known(f.theirs)'
    BY <1>1, <1>7, <1>14 DEF FrameOK, Frame, Known
  <2>2. (session[f.room] # None)' /\ (session[f.room].callee = f.to)'
    BY <1>7, <1>9, <1>12
  <2> QED BY <1>2, <1>7, <2>1, <2>2 DEF FrameOK, Offering, Accepting, Ending
<1>16. StoreTypeOK'
  BY <1>8, <1>9, <1>10, <1>11 DEF IInv, TypeOK, StoreTypeOK
<1>17. RecordsAgree'
  <2>1. c.userId = u /\ d.userId = v /\ Describes(c, c.roomId)' /\ Describes(d, d.roomId)'
    BY <1>3, <1>4, <1>9, <1>12 DEF OutgoingCall, IncomingCall, Describes
  <2>2. ASSUME NEW w \in Users \ {u, v}, call'[w] # None
        PROVE  call'[w].userId = w /\ Describes(call[w], call[w].roomId)'
    <3>1. PICK e \in Call : e = call[w] BY <1>8, <2>2, ReadIsKnown
    <3>2. call'[w] = e /\ e.userId = w /\ Known(e) /\ e # None
      BY <1>8, <2>2, <3>1, ReadIsKnown
    <3>3. Describes(e, e.roomId)' BY <1>14, <3>2 DEF Known
    <3> QED BY <3>2, <3>3 DEF Describes
  <2>3. RecordsAgree' <=> \A w \in Users : call'[w] # None =>
                            call'[w].userId = w /\ Describes(call[w], call[w].roomId)'
    BY DEF RecordsAgree
  <2>4. Describes(call[u], call[u].roomId)' /\ Describes(call[v], call[v].roomId)'
    BY <1>8, <2>1 DEF Describes
  <2> QED BY <1>8, <2>1, <2>2, <2>3, <2>4
<1>18. ActiveIffAnswered'
  <2>1. ASSUME NEW w \in Users \ {u, v}, call[w] # None
        PROVE  call'[w].status = "active" <=> Answered(call[w].roomId)'
    <3>1. PICK e \in Call : e = call[w] BY <2>1, ReadIsKnown
    <3>2. e.roomId \in Rooms /\ session[e.roomId] # None
      BY <2>1, <3>1, ReadIsKnown DEF Known, Describes, Call
    <3>3. e.roomId # r /\ call'[w] = e BY <1>8, <1>9, <3>1, <3>2
    <3>4. e.status = "active" <=> Answered(e.roomId)
      BY <2>1, <3>1 DEF IInv, Store, ActiveIffAnswered
    <3> QED BY <1>9, <3>2, <3>3, <3>4 DEF Answered
  <2>2. c.status = "calling" /\ d.status = "ringing" /\ c.roomId = r /\ d.roomId = r
    BY <1>3, <1>4 DEF OutgoingCall, IncomingCall
  <2>3. ~Answered(r)' BY <1>9, <1>12 DEF Answered
  <2> QED BY <1>8, <2>1, <2>2, <2>3 DEF ActiveIffAnswered, Answered
<1>19. MembersAgree' /\ IceAgree' /\ JobsAgree' /\ NotificationsAgree'
  <2>1. MembersAgree'
    BY <1>9, <1>10, <1>12 DEF IInv, Store, PartiesAgree, MembersAgree
  <2>2. IceAgree'
    BY <1>9, <1>11 DEF IInv, Store, TypeOK, PartiesAgree, IceAgree
  <2>3. JobsAgree'
    BY <1>9, <1>11 DEF IInv, Store, PartiesAgree, JobsAgree
  <2>4. NotificationsAgree'
    BY <1>9, <1>11 DEF IInv, Store, TypeOK, PartiesAgree, NotificationsAgree
  <2> QED BY <2>1, <2>2, <2>3, <2>4
<1>20. LogsAgree' /\ CompletedWasAnswered'
  BY <1>9, <1>11 DEF IInv, Store, TypeOK, PartiesAgree, LogsAgree, CompletedWasAnswered,
                     Describes, Answered, LogDoc
<1>21. Store'
  BY <1>17, <1>18, <1>19, <1>20 DEF Store, PartiesAgree
<1>22. f.op \notin JobNames BY <1>7 DEF JobNames
<1>23. Goto(h, f) BY <1>6 DEF CreateCall
<1> QED BY <1>11, <1>13, <1>15, <1>16, <1>21, <1>22, <1>23, WriteStep

LEMMA WriteAcceptedStep ==
    ASSUME IInv, NEW h \in Handlers, WriteAccepted(h)
    PROVE  IInv'
<1> DEFINE mine   == handler[h].mine
           theirs == handler[h].theirs
<1>1. handler[h] \in Frame /\ FrameOK(handler[h]) /\ handler[h].at = "acceptWrite"
  BY DEF IInv, TypeOK, FramesOK, WriteAccepted
<1>2. /\ mine \in Call /\ theirs \in Call /\ mine.userId = handler[h].from
      /\ theirs.roomId = mine.roomId /\ mine.direction = "incoming" /\ theirs.direction = "outgoing"
      /\ Known(mine) /\ Known(theirs) /\ handler[h].op = "answer"
  BY <1>1 DEF FrameOK, Accepting, Paired, Call, Directions
<1>r. PICK r \in Rooms : r = mine.roomId BY <1>2 DEF Call
<1>3. /\ session[r] # None
      /\ mine.userId = session[r].callee /\ mine.peerUserId = session[r].caller
      /\ theirs.userId = session[r].caller /\ theirs.peerUserId = session[r].callee
      /\ mine.userId \in Users /\ theirs.userId \in Users
  BY <1>2, <1>r, ConstantsAssumption DEF Known, Describes, Call
<1>4. PICK c \in Call : c = [mine EXCEPT !.status = "active"]
  BY <1>2 DEF Call, Statuses
<1>5. PICK d \in Call : d = [theirs EXCEPT !.status = "active"]
  BY <1>2 DEF Call, Statuses
<1>6. /\ c.userId = mine.userId /\ c.peerUserId = mine.peerUserId /\ c.roomId = r
      /\ c.direction = "incoming" /\ c.status = "active"
  BY <1>2, <1>r, <1>4 DEF Call
<1>7. /\ d.userId = theirs.userId /\ d.peerUserId = theirs.peerUserId /\ d.roomId = r
      /\ d.direction = "outgoing" /\ d.status = "active"
  BY <1>2, <1>r, <1>5 DEF Call
<1>8. /\ call' \in [Users -> Call \cup {None}]
      /\ call'[mine.userId] \in {c, d} /\ call'[theirs.userId] = d
      /\ theirs.userId # mine.userId => call'[mine.userId] = c
      /\ \A w \in Users \ {mine.userId, theirs.userId} : call'[w] = call[w]
  BY <1>2, <1>3, <1>4, <1>5 DEF WriteAccepted, IInv, TypeOK
<1>9. session[r] \in Session BY <1>3 DEF IInv, TypeOK
<1>b. PICK n \in Nat : n = session[r].answers + 1 /\ n > 0 BY <1>9 DEF Session
<1>10. PICK s \in Session : s = [session[r] EXCEPT !.answers = n] BY <1>9 DEF Session
<1>11. s.caller = session[r].caller /\ s.callee = session[r].callee /\ s.answers > 0 /\ s # None
  BY <1>9, <1>b, <1>10, ConstantsAssumption DEF Session
<1>12. session' \in [Rooms -> Session \cup {None}] /\ session'[r] = s
       /\ \A q \in Rooms \ {r} : session'[q] = session[q]
  BY <1>3, <1>r, <1>b, <1>10 DEF WriteAccepted, IInv, TypeOK
<1>13. UNCHANGED <<members, ice, jobs, callLogs, notifications>> BY DEF WriteAccepted
<1>14. SessionGrows BY <1>11, <1>12 DEF SessionGrows, Answered
<1>15. Answered(r)' BY <1>11, <1>12 DEF Answered
<1>16. ASSUME NEW e \in Call, Known(e) PROVE Known(e)'
  BY <1>14, <1>16, ConstantsAssumption DEF SessionGrows, Known, Describes, Call
<1>17. PICK f \in Frame : f = [handler[h] EXCEPT !.at = "scheduleMax", !.room = r]
  BY <1>1 DEF Frame, Steps
<1>18. /\ f.at = "scheduleMax" /\ f.room = r /\ f.op = "answer" /\ f.from = mine.userId
       /\ f.mine = mine /\ f.theirs = theirs
  BY <1>1, <1>2, <1>17 DEF Frame
<1>19. FrameOK(f)'
  <2>1. Known(f.mine)' /\ Known(f.theirs)'
    BY <1>1, <1>16, <1>18 DEF FrameOK, Frame, Known
  <2>2. Paired(f) /\ f.mine.direction = "incoming" /\ f.mine.roomId = r
        /\ f.mine.userId = f.from
    BY <1>2, <1>r, <1>18 DEF Paired
  <2> QED BY <1>15, <1>18, <2>1, <2>2 DEF FrameOK, Paired, Offering, Accepting, Ending
<1>20. StoreTypeOK'
  BY <1>8, <1>12, <1>13 DEF IInv, TypeOK, StoreTypeOK
<1>21. Describes(c, r)' /\ Describes(d, r)'
  BY <1>3, <1>6, <1>7, <1>11, <1>12 DEF Describes
<1>22. ASSUME NEW w \in Users, call'[w] # None
       PROVE  \E e \in Call : /\ e = call'[w] /\ e.userId = w
                              /\ Describes(e, e.roomId)'
                              /\ e.status = "active" <=> Answered(e.roomId)'
  <2>1. CASE w = theirs.userId BY <1>7, <1>8, <1>15, <1>21, <2>1
  <2>2. CASE w = mine.userId /\ w # theirs.userId
    BY <1>6, <1>8, <1>15, <1>21, <2>2
  <2>3. CASE w \notin {mine.userId, theirs.userId}
    <3>1. call'[w] = call[w] BY <1>8, <2>3
    <3>2. PICK e \in Call : e = call[w] BY <1>22, <3>1, ReadIsKnown
    <3>3. e.userId = w /\ Known(e) /\ e # None BY <1>22, <3>1, <3>2, ReadIsKnown
    <3>4. e.roomId \in Rooms /\ e.roomId # r
      BY <1>3, <2>3, <3>3 DEF Known, Describes, Call
    <3>5. Describes(e, e.roomId)' BY <1>16, <3>3 DEF Known
    <3>6. e.status = "active" <=> Answered(e.roomId)
      BY <3>2, <3>3 DEF IInv, Store, ActiveIffAnswered
    <3>7. Answered(e.roomId)' <=> Answered(e.roomId)
      BY <1>12, <3>4 DEF Answered
    <3> QED BY <3>1, <3>2, <3>3, <3>5, <3>6, <3>7
  <2> QED BY <2>1, <2>2, <2>3
<1>23. RecordsAgree' /\ ActiveIffAnswered'
  BY <1>22 DEF RecordsAgree, ActiveIffAnswered, Describes, Answered
<1>24. MembersAgree' /\ IceAgree' /\ JobsAgree' /\ NotificationsAgree'
  <2>1. MembersAgree'
    BY <1>13, <1>14 DEF IInv, Store, PartiesAgree, MembersAgree, SessionGrows
  <2>2. IceAgree'
    BY <1>13, <1>14 DEF IInv, Store, TypeOK, PartiesAgree, IceAgree, SessionGrows
  <2>3. JobsAgree'
    BY <1>13, <1>14 DEF IInv, Store, PartiesAgree, JobsAgree, SessionGrows
  <2>4. NotificationsAgree'
    BY <1>13, <1>14 DEF IInv, Store, TypeOK, PartiesAgree, NotificationsAgree, SessionGrows
  <2> QED BY <2>1, <2>2, <2>3, <2>4
<1>25. LogsAgree' /\ CompletedWasAnswered'
  <2>1. LogsAgree'
    BY <1>13, <1>14 DEF IInv, Store, TypeOK, PartiesAgree, LogsAgree, SessionGrows,
                        Describes, LogDoc
  <2>2. \A q \in Rooms : Answered(q) => Answered(q)'
    BY <1>14 DEF SessionGrows, Answered
  <2>3. CompletedWasAnswered'
    BY <1>13, <2>2 DEF IInv, Store, TypeOK, CompletedWasAnswered, LogDoc
  <2> QED BY <2>1, <2>3
<1>26. Store' BY <1>23, <1>24, <1>25 DEF Store, PartiesAgree
<1>27. f.op \notin JobNames BY <1>18 DEF JobNames
<1>28. Goto(h, f) BY <1>r, <1>17 DEF WriteAccepted
<1> QED BY <1>13, <1>14, <1>19, <1>20, <1>26, <1>27, <1>28, WriteStep


LEMMA DeleteRoomStep ==
    ASSUME IInv, NEW h \in Handlers, DeleteRoom(h)
    PROVE  IInv'
<1>1. PICK e \in Frame : e = handler[h] BY DEF IInv, TypeOK
<1>2. FrameOK(e) /\ e.at = "delete" /\ Paired(e)
  BY <1>1 DEF IInv, FramesOK, DeleteRoom, FrameOK, Ending
<1>3. PICK r \in Rooms : r = e.mine.roomId BY <1>2 DEF Paired, Call
<1>4. PICK D \in SUBSET Users : D = UsersToDelete(e)
  BY <1>2 DEF UsersToDelete, Paired, Frame, Call
<1>5. PICK f \in Frame : f = [e EXCEPT !.at = "log", !.unwritten = Directions]
  BY DEF Frame, Steps
<1>6. /\ f.at = "log" /\ f.op = e.op /\ f.room = e.room
      /\ f.mine = e.mine /\ f.theirs = e.theirs
  BY <1>5 DEF Frame
<1>7. session[r] # None
  BY <1>2, <1>3, ConstantsAssumption DEF FrameOK, Known, Describes, Paired
<1>8. PICK o \in Outcomes : o = Outcome(e.op)
  BY DEF Outcome, Outcomes
<1>9. session[r] \in Session BY <1>7 DEF IInv, TypeOK
<1>10. PICK s \in Session : s = [session[r] EXCEPT !.outcome = o]
  BY <1>9 DEF Session
<1>11. /\ s.caller = session[r].caller /\ s.callee = session[r].callee
       /\ s.answers = session[r].answers /\ s # None
  BY <1>9, <1>10, ConstantsAssumption DEF Session
<1>12. session' \in [Rooms -> Session \cup {None}] /\ session'[r] = s
       /\ \A q \in Rooms \ {r} : session'[q] = session[q]
  BY <1>1, <1>3, <1>7, <1>8, <1>10 DEF DeleteRoom, IInv, TypeOK
<1>13. SessionGrows /\ \A q \in Rooms : Answered(q)' <=> Answered(q)
  BY <1>7, <1>11, <1>12 DEF SessionGrows, Answered
<1>14. call' \in [Users -> Call \cup {None}] /\ \A u \in Users : call'[u] \in {call[u], None}
  BY DEF DeleteRoom, IInv, TypeOK
<1>15. members' \in [Rooms -> SUBSET Users] /\ \A q \in Rooms : members'[q] \in {members[q], {}}
  BY DEF DeleteRoom, IInv, TypeOK
<1>16. ice' \subseteq ice /\ UNCHANGED <<jobs, callLogs, notifications>>
  BY DEF DeleteRoom
<1>17. FrameOK(f)'
  <2>1. ASSUME NEW c \in Call, Known(c) PROVE Known(c)'
    BY <1>13, <2>1, ConstantsAssumption DEF SessionGrows, Known, Describes, Call
  <2>2. Known(f.mine)' /\ Known(f.theirs)'
    BY <1>2, <1>6, <2>1 DEF FrameOK, Paired
  <2>3. Paired(f) BY <1>2, <1>6 DEF Paired
  <2>4. /\ f.op \notin {"decline", "cancel", "ringing-timeout"} => f.mine.status = "active"
        /\ f.op = "ringing-timeout" => f.mine.direction = "incoming"
    BY <1>2, <1>6 DEF FrameOK, Ending
  <2> QED BY <1>6, <2>2, <2>3, <2>4 DEF FrameOK, Paired, Offering, Accepting, Ending
<1>18. StoreTypeOK'
  BY <1>12, <1>14, <1>15, <1>16 DEF IInv, TypeOK, StoreTypeOK
<1>19. RecordsAgree' /\ ActiveIffAnswered'
  <2>1. ASSUME NEW w \in Users, call'[w] # None
        PROVE  \E c \in Call : /\ c = call'[w] /\ c.userId = w
                               /\ Describes(c, c.roomId)'
                               /\ c.status = "active" <=> Answered(c.roomId)'
    <3>1. PICK c \in Call : c = call[w] /\ c = call'[w] /\ c.userId = w /\ Known(c) /\ c # None
      BY <1>14, <2>1, ReadIsKnown
    <3>2. c.roomId \in Rooms /\ (c.status = "active" <=> Answered(c.roomId))
      BY <3>1 DEF IInv, Store, ActiveIffAnswered, Call
    <3>3. Describes(c, c.roomId)'
      BY <1>13, <3>1, <3>2 DEF SessionGrows, Known, Describes
    <3> QED BY <1>13, <3>1, <3>2, <3>3
  <2> QED BY <2>1 DEF RecordsAgree, ActiveIffAnswered, Describes, Answered
<1>20. MembersAgree' /\ IceAgree' /\ JobsAgree' /\ NotificationsAgree'
  <2>1. MembersAgree'
    BY <1>13, <1>15 DEF IInv, Store, PartiesAgree, MembersAgree, SessionGrows
  <2>2. IceAgree'
    BY <1>13, <1>16 DEF IInv, Store, TypeOK, PartiesAgree, IceAgree, SessionGrows
  <2>3. JobsAgree'
    BY <1>13, <1>16 DEF IInv, Store, PartiesAgree, JobsAgree, SessionGrows
  <2>4. NotificationsAgree'
    BY <1>13, <1>16 DEF IInv, Store, TypeOK, PartiesAgree, NotificationsAgree, SessionGrows
  <2> QED BY <2>1, <2>2, <2>3, <2>4
<1>21. LogsAgree' /\ CompletedWasAnswered'
  <2>1. LogsAgree'
    BY <1>13, <1>16 DEF IInv, Store, TypeOK, PartiesAgree, LogsAgree, SessionGrows,
                        Describes, LogDoc
  <2>2. CompletedWasAnswered'
    BY <1>13, <1>16 DEF IInv, Store, TypeOK, CompletedWasAnswered, LogDoc
  <2> QED BY <2>1, <2>2
<1>22. Store' BY <1>19, <1>20, <1>21 DEF Store, PartiesAgree
<1>23. Goto(h, f) BY <1>1, <1>5 DEF DeleteRoom
<1> QED BY <1>1, <1>6, <1>13, <1>16, <1>17, <1>18, <1>22, <1>23, WriteStep DEF RunsJob

(* The document written for one side tells what that side's record told.    *)
LEMMA LogIsTrue ==
    ASSUME IInv, NEW f \in Frame, FrameOK(f), f.at = "log", NEW side \in Directions
    PROVE  /\ LogOf(f, side) \in LogDoc
           /\ Describes(LogOf(f, side), LogOf(f, side).callId)
           /\ LogOf(f, side).status = "completed" => Answered(LogOf(f, side).callId)
<1>1. Paired(f) /\ Known(f.mine) /\ Known(f.theirs)
      /\ (f.op \notin {"decline", "cancel", "ringing-timeout"} => f.mine.status = "active")
  BY DEF FrameOK, Ending
<1>2. PICK c \in Call : c = (IF f.mine.direction = side THEN f.mine ELSE f.theirs)
  BY <1>1 DEF Paired
<1>3. Known(c) /\ c # None /\ c.roomId = f.mine.roomId
  BY <1>1, <1>2, ConstantsAssumption DEF Paired
<1>4. PICK s \in Outcomes \cup {"no_answer"} : s = LogStatus(f.op, side)
  BY DEF LogStatus, Outcome, Outcomes
<1>5. s = "completed" => f.op \notin {"decline", "cancel", "ringing-timeout"}
  BY <1>4 DEF LogStatus, Outcome
<1>6. LogOf(f, side) = [callId |-> c.roomId, userId |-> c.userId, peerUserId |-> c.peerUserId,
                        direction |-> c.direction, status |-> s]
  BY <1>2, <1>4 DEF LogOf
<1>7. f.mine.status = "active" => Answered(f.mine.roomId)
  BY <1>1, ConstantsAssumption DEF Known, Paired
<1>8. LogOf(f, side) \in LogDoc BY <1>6 DEF LogDoc, Call
<1>9. Describes(LogOf(f, side), LogOf(f, side).callId)
  BY <1>3, <1>6 DEF Known, Describes
<1>10. LogOf(f, side).status = "completed" => Answered(LogOf(f, side).callId)
  BY <1>1, <1>3, <1>5, <1>6, <1>7
<1> QED BY <1>8, <1>9, <1>10


LEMMA WriteCallLogStep ==
    ASSUME IInv, NEW h \in Handlers, NEW side \in Directions, WriteCallLog(h, side)
    PROVE  IInv'
<1>1. PICK e \in Frame : e = handler[h] BY DEF IInv, TypeOK
<1>2. FrameOK(e) /\ e.at = "log"
  BY <1>1 DEF IInv, FramesOK, WriteCallLog
<1>3. Paired(e)
      /\ (e.op \notin {"decline", "cancel", "ringing-timeout"} => e.mine.status = "active")
      /\ (e.op = "ringing-timeout" => e.mine.direction = "incoming")
  BY <1>2 DEF FrameOK, Ending
<1>4. PICK d \in LogDoc : d = LogOf(e, side) BY <1>2, LogIsTrue
<1>5. Describes(d, d.callId) /\ (d.status = "completed" => Answered(d.callId))
  BY <1>2, <1>4, LogIsTrue
<1>6. /\ DOMAIN callLogs' = DOMAIN callLogs \cup {d}
      /\ \A x \in DOMAIN callLogs' : callLogs'[x] \in Nat \ {0}
  BY <1>1, <1>4 DEF WriteCallLog, BagAdd, IInv, TypeOK
<1>7. UNCHANGED <<call, members, ice, jobs, notifications, session>>
  BY DEF WriteCallLog
<1>8. SessionGrows BY <1>7 DEF SessionGrows, Answered
<1>9. PICK f \in Frame :
         /\ Goto(h, f) /\ FrameOK(f)
         /\ f.op \in JobNames => RunsJob(e, f.op, f.room)
  <2> DEFINE left == e.unwritten \ {side}
             m == [e EXCEPT !.unwritten = left]
             n == [e EXCEPT !.at = "notify", !.unwritten = {}]
  <2>1. CASE left # {}
    <3>1. m \in Frame BY DEF Frame
    <3>2. FrameOK(m)
      BY <1>2 DEF Frame, FrameOK, Paired, Known, Offering, Accepting, Ending
    <3>3. Goto(h, m) BY <1>1, <2>1 DEF WriteCallLog
    <3>4. m.op = e.op /\ m.room = e.room BY DEF Frame
    <3> QED BY <3>1, <3>2, <3>3, <3>4 DEF RunsJob
  <2>2. CASE left = {} /\ e.op = "ringing-timeout"
    <3>1. n \in Frame BY DEF Frame, Steps
    <3>2. FrameOK(n)
      BY <1>2, <2>2 DEF Frame, FrameOK, Paired, Known, Offering, Accepting, Ending
    <3>3. Goto(h, n) BY <1>1, <2>2 DEF WriteCallLog
    <3>4. n.op = e.op /\ n.room = e.room BY DEF Frame
    <3> QED BY <3>1, <3>2, <3>3, <3>4 DEF RunsJob
  <2>3. CASE left = {} /\ e.op # "ringing-timeout"
    <3>1. Goto(h, Returned(e)) BY <1>1, <2>3 DEF WriteCallLog
    <3> QED BY <3>1, ReturnedOK
  <2> QED BY <2>1, <2>2, <2>3
<1>10. FrameOK(f)' BY <1>8, <1>9, FrameStays
<1>11. StoreTypeOK'
  BY <1>6, <1>7 DEF IInv, TypeOK, StoreTypeOK
<1>12. LogsAgree' /\ CompletedWasAnswered'
  BY <1>5, <1>6, <1>7 DEF IInv, Store, PartiesAgree, LogsAgree, CompletedWasAnswered,
                          Describes, Answered
<1>13. Store'
  BY <1>7, <1>12 DEF IInv, Store, PartiesAgree, RecordsAgree, MembersAgree, IceAgree,
         JobsAgree, NotificationsAgree, ActiveIffAnswered, Describes, Answered
<1> QED BY <1>1, <1>7, <1>8, <1>9, <1>10, <1>11, <1>13, WriteStep

LEMMA CreateMissedCallNotificationStep ==
    ASSUME IInv, NEW h \in Handlers, CreateMissedCallNotification(h)
    PROVE  IInv'
<1>1. PICK e \in Frame : e = handler[h] BY DEF IInv, TypeOK
<1>2. FrameOK(e) /\ e.at = "notify"
  BY <1>1 DEF IInv, FramesOK, CreateMissedCallNotification
<1>3. Paired(e) /\ Known(e.mine) /\ e.op = "ringing-timeout" /\ e.mine.direction = "incoming"
  BY <1>2 DEF FrameOK, Ending
<1>4. /\ session[e.mine.roomId] # None /\ e.mine.userId = session[e.mine.roomId].callee
      /\ e.mine.userId \in Users /\ e.mine.roomId \in Rooms
  BY <1>3, ConstantsAssumption DEF Known, Describes, Paired, Call
<1>5. UNCHANGED <<call, members, ice, callLogs, session>>
  BY DEF CreateMissedCallNotification
<1>6. CASE <<e.mine.userId, e.mine.roomId>> \notin notifications
  <2>1. /\ notifications' = notifications \cup {<<e.mine.userId, e.mine.roomId>>}
        /\ Return(h) /\ jobs' = jobs
    BY <1>1, <1>6 DEF CreateMissedCallNotification
  <2>2. PICK f \in Frame : f = Returned(e) BY ReturnedOK
  <2>3. FrameOK(f) /\ (f.op \in JobNames => RunsJob(e, f.op, f.room))
    BY <2>2, ReturnedOK
  <2>4. SessionGrows BY <1>5 DEF SessionGrows, Answered
  <2>5. FrameOK(f)' BY <2>3, <2>4, FrameStays
  <2>6. StoreTypeOK'
    BY <1>4, <1>5, <2>1 DEF IInv, TypeOK, StoreTypeOK
  <2>7. NotificationsAgree'
    BY <1>4, <1>5, <2>1 DEF IInv, Store, PartiesAgree, NotificationsAgree
  <2>8. Store'
    BY <1>5, <2>1, <2>7 DEF IInv, Store, PartiesAgree, RecordsAgree, MembersAgree, IceAgree,
           JobsAgree, LogsAgree, ActiveIffAnswered, CompletedWasAnswered, Describes, Answered
  <2> QED BY <1>1, <2>1, <2>2, <2>3, <2>4, <2>5, <2>6, <2>8, WriteStep DEF Return
<1>7. CASE <<e.mine.userId, e.mine.roomId>> \in notifications
  <2>1. /\ notifications' = notifications /\ Goto(h, Idle)
        /\ jobs' = [jobs EXCEPT ![e.op][e.room].state = "failed"]
    BY <1>1, <1>7 DEF CreateMissedCallNotification
  <2>2. handler[h].op \in JobNames BY <1>1, <1>3 DEF JobNames
  <2> QED BY <1>1, <1>5, <2>1, <2>2, FailedJob DEF others
<1> QED BY <1>6, <1>7

-----------------------------------------------------------------------------
(* IInv is inductive. *)

LEMMA InitStep == Init => IInv
<1> SUFFICES ASSUME Init PROVE IInv OBVIOUS
<1>1. DOMAIN callLogs = {} BY DEF Init, EmptyBag, SetToBag
<1>2. \A h \in Handlers : handler[h] = Idle BY DEF Init
<1>3. TypeOK BY <1>1, IdleIsFrame DEF Init, TypeOK
<1>4. Store
  BY <1>1 DEF Init, Store, PartiesAgree, RecordsAgree, MembersAgree, IceAgree, JobsAgree,
              LogsAgree, NotificationsAgree, ActiveIffAnswered, CompletedWasAnswered, JobNames
<1>5. Idle.at = "idle" /\ Idle.op \notin JobNames /\ FrameOK(Idle)
  BY ConstantsAssumption DEF Idle, Ops, FrameOK, Known, Offering, Accepting, Ending
<1>6. FramesOK BY <1>2, <1>5 DEF FramesOK
<1>7. JobsHeld BY <1>2, <1>5 DEF JobsHeld
<1> QED BY <1>3, <1>4, <1>6, <1>7 DEF IInv

LEMMA NextStep == IInv /\ [Next]_vars => IInv'
<1> SUFFICES ASSUME IInv, [Next]_vars PROVE IInv' OBVIOUS
<1>1. ASSUME NEW h \in Handlers, ClientEvent(h) PROVE IInv'
  BY <1>1, InitiateCallStep, AcceptCallStep, HangupStep, HandleIceCandidateStep
  DEF ClientEvent
<1>2. ASSUME NEW h \in Handlers, StartJob(h) PROVE IInv'
  BY <1>2, TimeoutRingingCallStep, EndCallByRoomStep DEF StartJob
<1>3. ASSUME NEW h \in Handlers, Resume(h) PROVE IInv'
  <2>1. CASE CheckCalleeBusy(h) BY <2>1, CheckCalleeBusyStep
  <2>2. CASE \E r \in Rooms : CreateCall(h, r) BY <2>2, CreateCallStep
  <2>3. CASE ScheduleRingingTimeout(h) BY <2>3, ScheduleRingingTimeoutStep
  <2>4. CASE ReadCallerToAccept(h) BY <2>4, ReadCallerToAcceptStep
  <2>5. CASE WriteAccepted(h) BY <2>5, WriteAcceptedStep
  <2>6. CASE ScheduleMaxDurationTimeout(h) BY <2>6, ScheduleMaxDurationTimeoutStep
  <2>7. CASE RereadOwnCall(h) BY <2>7, RereadOwnCallStep
  <2>8. CASE ReadPeerCall(h) BY <2>8, ReadPeerCallStep
  <2>9. CASE ReadRoomUsers(h) BY <2>9, ReadRoomUsersStep
  <2>10. CASE DeleteRoom(h) BY <2>10, DeleteRoomStep
  <2>11. CASE \E side \in Directions : WriteCallLog(h, side) BY <2>11, WriteCallLogStep
  <2>12. CASE CreateMissedCallNotification(h) BY <2>12, CreateMissedCallNotificationStep
  <2>13. CASE CompleteJob(h) BY <2>13, CompleteJobStep
  <2>14. CASE AddPendingIceCandidate(h) BY <2>14, AddPendingIceCandidateStep
  <2> QED BY <1>3, <2>1, <2>2, <2>3, <2>4, <2>5, <2>6, <2>7, <2>8, <2>9, <2>10, <2>11,
             <2>12, <2>13, <2>14 DEF Resume
<1>4. CASE Expire BY <1>4, ExpireStep
<1>5. ASSUME UNCHANGED vars PROVE IInv'
  <2>1. TypeOK' BY <1>5 DEF vars, IInv, TypeOK
  <2>2. PartiesAgree'
    BY <1>5 DEF vars, IInv, Store, PartiesAgree, RecordsAgree, MembersAgree, IceAgree,
           JobsAgree, LogsAgree, NotificationsAgree, Describes
  <2>3. ActiveIffAnswered' /\ CompletedWasAnswered'
    BY <1>5 DEF vars, IInv, Store, ActiveIffAnswered, CompletedWasAnswered, Answered
  <2>4. FramesOK' BY <1>5, HistoryKept DEF vars, IInv
  <2>5. JobsHeld' BY <1>5 DEF vars, IInv, JobsHeld
  <2> QED BY <2>1, <2>2, <2>3, <2>4, <2>5 DEF IInv, Store
<1> QED BY <1>1, <1>2, <1>3, <1>4, <1>5, AbortStep, StallStep DEF Next

LEMMA Invariance == Spec => []IInv
<1>1. Init => IInv BY InitStep
<1>2. IInv /\ [Next]_vars => IInv' BY NextStep
<1> QED BY <1>1, <1>2, PTL DEF Spec

(* Every reachable state is well formed, however many users, calls and      *)
(* handlers there are.                                                      *)
THEOREM TypeCorrect == Spec => []TypeOK
<1>1. IInv => TypeOK BY DEF IInv
<1> QED BY <1>1, Invariance, PTL

(* No interleaving of the handlers of CallsService, no expiry, crash or     *)
(* rerun of a job mixes up two calls: every record, room, queue job, call   *)
(* log and notification names the two users its room was created with.      *)
THEOREM PartiesAlwaysAgree == Spec => []PartiesAgree
<1>1. IInv => PartiesAgree BY DEF IInv, Store
<1> QED BY <1>1, Invariance, PTL

(* A participant's record is active exactly when acceptCall has written the *)
(* room's records: the two sides never disagree on it.                      *)
THEOREM ActiveMeansAnswered == Spec => []ActiveIffAnswered
<1>1. IInv => ActiveIffAnswered BY DEF IInv, Store
<1> QED BY <1>1, Invariance, PTL

(* Only an answered call is logged as completed or given a maximum duration. *)
THEOREM CompletedMeansAnswered == Spec => []CompletedWasAnswered
<1>1. IInv => CompletedWasAnswered BY DEF IInv, Store
<1> QED BY <1>1, Invariance, PTL


-----------------------------------------------------------------------------
(* What a deletion leaves. *)

LEMMA OnlyDeleteRoomDeletes ==
    ASSUME TypeOK, [Next]_vars, NEW k \in Handlers, Deletes(k)
    PROVE  DeleteRoom(k)
<1>1. handler[k].at = "delete" /\ handler'[k].at = "log" BY DEF Deletes
<1>2. handler' # handler BY <1>1
<1>3. ~Expire BY <1>2 DEF Expire, ExpireCall, ExpireRoom, ExpireIce
<1>4. PICK h \in Handlers :
         ClientEvent(h) \/ StartJob(h) \/ Resume(h) \/ Abort(h) \/ Stall(h)
  BY <1>2, <1>3 DEF Next, vars
<1>5. \A f : Goto(h, f) => h = k /\ f = handler'[k]
  BY <1>1 DEF Goto, TypeOK
<1>6. handler[k] # Idle BY <1>1 DEF Idle
<1>7. ~ClientEvent(h)
  BY <1>5, <1>6 DEF ClientEvent, InitiateCall, AcceptCall, Hangup, HandleIceCandidate, Receives
<1>8. ~StartJob(h)
  BY <1>5, <1>6 DEF StartJob, TimeoutRingingCall, EndCallByRoom, Dispatch
<1>9. ~Abort(h) /\ ~Stall(h)
  <2>1. ~Goto(h, Idle) BY <1>1, <1>5 DEF Idle
  <2> QED BY <2>1 DEF Abort, Stall
<1>10. \A step : Advance(h, step) \/ Return(h) => h = k BY <1>5 DEF Advance, Return
<1>11. h = k
  <2>1. CASE \/ CheckCalleeBusy(h) \/ (\E r \in Rooms : CreateCall(h, r))
             \/ ScheduleRingingTimeout(h) \/ ReadCallerToAccept(h) \/ WriteAccepted(h)
             \/ ScheduleMaxDurationTimeout(h) \/ RereadOwnCall(h)
    BY <1>5, <1>10, <2>1
       DEF CheckCalleeBusy, CreateCall, ScheduleRingingTimeout, ReadCallerToAccept,
           WriteAccepted, ScheduleMaxDurationTimeout, RereadOwnCall
  <2>2. CASE \/ ReadPeerCall(h) \/ ReadRoomUsers(h) \/ DeleteRoom(h)
             \/ (\E side \in Directions : WriteCallLog(h, side))
    BY <1>5, <1>10, <2>2 DEF ReadPeerCall, ReadRoomUsers, DeleteRoom, WriteCallLog
  <2>3. CASE \/ CreateMissedCallNotification(h) \/ CompleteJob(h)
             \/ AddPendingIceCandidate(h)
    BY <1>5, <1>10, <2>3 DEF CreateMissedCallNotification, CompleteJob, AddPendingIceCandidate
  <2> QED BY <1>4, <1>7, <1>8, <1>9, <2>1, <2>2, <2>3 DEF Resume
<1> QED
  BY <1>1, <1>4, <1>7, <1>8, <1>9, <1>11
     DEF Resume, CheckCalleeBusy, CreateCall, ScheduleRingingTimeout, ReadCallerToAccept,
         WriteAccepted, ScheduleMaxDurationTimeout, RereadOwnCall, ReadPeerCall, ReadRoomUsers,
         WriteCallLog, CreateMissedCallNotification, CompleteJob, AddPendingIceCandidate

LEMMA DeleteRoomFrees ==
    ASSUME IInv, NEW h \in Handlers, DeleteRoom(h)
    PROVE  LET r == handler[h].mine.roomId
           IN  /\ \A u \in Users : ~HasRoom(call'[u], r)
               /\ members'[r] = {}
               /\ ice' \cap ({r} \X Users) = {}
<1>1. PICK e \in Frame : e = handler[h] BY DEF IInv, TypeOK
<1>2. FrameOK(e) /\ e.at = "delete"
  BY <1>1 DEF IInv, FramesOK, DeleteRoom
<1>3. Paired(e) /\ Known(e.mine) /\ Known(e.theirs)
  BY <1>2 DEF FrameOK, Ending
<1>4. PICK r \in Rooms : r = e.mine.roomId /\ r = e.theirs.roomId
  BY <1>3 DEF Paired, Call
<1>5. session[r] # None
      /\ {session[r].caller, session[r].callee} = {e.mine.userId, e.theirs.userId}
  BY <1>3, <1>4, ConstantsAssumption DEF Paired, Known, Describes, Call, Directions
<1>6. session[r].caller \in UsersToDelete(e) /\ session[r].callee \in UsersToDelete(e)
  BY <1>5 DEF UsersToDelete
<1>7. ASSUME NEW u \in Users PROVE ~HasRoom(call'[u], r)
  <2>1. call'[u] = IF u \in UsersToDelete(e) THEN None ELSE call[u]
    BY <1>1 DEF DeleteRoom
  <2>2. HasRoom(call[u], r) => u \in {session[r].caller, session[r].callee}
    BY DEF HasRoom, IInv, Store, PartiesAgree, RecordsAgree, Describes
  <2> QED BY <1>6, <2>1, <2>2 DEF HasRoom
<1>8. members'[r] = {} BY <1>1, <1>4 DEF DeleteRoom, IInv, TypeOK
<1>9. ASSUME NEW u \in Users, <<r, u>> \in ice' PROVE FALSE
  <2>1. <<r, u>> \in ice /\ u \notin UsersToDelete(e)
    BY <1>1, <1>4, <1>9 DEF DeleteRoom
  <2>2. u \in {session[r].caller, session[r].callee}
    BY <2>1 DEF IInv, Store, PartiesAgree, IceAgree
  <2> QED BY <1>6, <2>1, <2>2
<1> QED BY <1>1, <1>4, <1>7, <1>8, <1>9

(* Whoever ends a call, and whatever expired before, deleteCallRoom leaves   *)
(* no record of the room, no user set and no ICE list.                      *)
THEOREM DeletionIsComplete == Spec => EndLeavesNothing
<1> DEFINE Clean == \A h \in Handlers : Deletes(h) =>
          LET r == handler[h].mine.roomId
          IN  /\ \A u \in Users : ~HasRoom(call'[u], r)
              /\ members'[r] = {}
              /\ ice' \cap ({r} \X Users) = {}
<1>1. IInv /\ [Next]_vars => Clean
  BY OnlyDeleteRoomDeletes, DeleteRoomFrees DEF IInv
<1>2. Spec => [][Clean]_vars
  BY <1>1, Invariance, PTL DEF Spec
<1> QED BY <1>2 DEF EndLeavesNothing

-----------------------------------------------------------------------------
(* What an ended call can come back as. *)

(* Few steps write a record, the history of a room or a log document.       *)
LEMMA WhoeverWrites ==
    ASSUME [Next]_vars
    PROVE  \/ UNCHANGED <<call, callLogs, session>>
           \/ \E h \in Handlers, r \in Rooms : CreateCall(h, r)
           \/ \E h \in Handlers : WriteAccepted(h) \/ DeleteRoom(h)
           \/ \E h \in Handlers, side \in Directions : WriteCallLog(h, side)
           \/ \E u \in Users : ExpireCall(u)
<1> DEFINE Quiet == UNCHANGED <<call, callLogs, session>>
<1>1. ASSUME NEW h \in Handlers, ClientEvent(h) PROVE Quiet
  BY <1>1 DEF ClientEvent, InitiateCall, AcceptCall, Hangup, HandleIceCandidate, stored
<1>2. ASSUME NEW h \in Handlers, StartJob(h) PROVE Quiet
  BY <1>2 DEF StartJob, TimeoutRingingCall, EndCallByRoom
<1>3. ASSUME NEW h \in Handlers, Resume(h)
      PROVE  \/ Quiet \/ (\E r \in Rooms : CreateCall(h, r))
             \/ WriteAccepted(h) \/ DeleteRoom(h)
             \/ \E side \in Directions : WriteCallLog(h, side)
  BY <1>3 DEF Resume, CheckCalleeBusy, ScheduleRingingTimeout, ReadCallerToAccept,
              ScheduleMaxDurationTimeout, RereadOwnCall, ReadPeerCall, ReadRoomUsers,
              CreateMissedCallNotification, CompleteJob, AddPendingIceCandidate, stored
<1>4. ASSUME NEW h \in Handlers, Abort(h) \/ Stall(h) PROVE Quiet
  BY <1>4 DEF Abort, Stall
<1>5. ASSUME Expire PROVE Quiet \/ \E u \in Users : ExpireCall(u)
  BY <1>5 DEF Expire, ExpireRoom, ExpireIce
<1>6. CASE UNCHANGED vars BY <1>6 DEF vars
<1> QED BY <1>1, <1>2, <1>3, <1>4, <1>5, <1>6 DEF Next

(* The records of a room that is ended are active, if there are any: they   *)
(* were, when it was ended, and acceptCall writes no others.                *)
LEMMA EndedStep ==
    ASSUME IInv, EndedNeverRings, [Next]_vars
    PROVE  EndedNeverRings'
<1> DEFINE Old(u) == call'[u] # None => call'[u] = call[u]
           Same(r) == session[r] # None /\ session'[r].outcome = session[r].outcome
<1>1. \A u \in Users : call[u] # None =>
         call[u] \in Call /\ call[u].roomId \in Rooms /\ session[call[u].roomId] # None
  BY DEF IInv, TypeOK, Call, Store, PartiesAgree, RecordsAgree, Describes
<1>2. ASSUME NEW u \in Users, Old(u), Same(call[u].roomId), call'[u] # None
      PROVE  call'[u].status # "active" => session'[call'[u].roomId].outcome = None
  BY <1>2 DEF EndedNeverRings
<1>3. ASSUME NEW h \in Handlers, NEW r \in Rooms, CreateCall(h, r) PROVE EndedNeverRings'
  <2> PICK v \in Users, w \in Users : v = handler[h].from /\ w = handler[h].to
    BY <1>3 DEF CreateCall, IInv, FramesOK, FrameOK, Offering
  <2> PICK s : s = [caller |-> v, callee |-> w, answers |-> 0, outcome |-> None] OBVIOUS
  <2>1. /\ session[r] = None /\ session' = [session EXCEPT ![r] = s]
        /\ call' = [call EXCEPT ![v] = OutgoingCall(v, w, r, "calling"),
                                ![w] = IncomingCall(w, v, r, "ringing")]
    BY <1>3 DEF CreateCall
  <2>2. session'[r].outcome = None /\ \A q \in Rooms : q # r => session'[q] = session[q]
    BY <2>1 DEF IInv, TypeOK
  <2>3. \A u \in Users : Old(u) \/ call'[u].roomId = r
    BY <2>1 DEF IInv, TypeOK, OutgoingCall, IncomingCall
  <2>4. SUFFICES ASSUME NEW u \in Users, call'[u] # None
                 PROVE  call'[u].status # "active" => session'[call'[u].roomId].outcome = None
    BY DEF EndedNeverRings
  <2>5. CASE call'[u].roomId = r BY <2>2, <2>5
  <2>6. CASE call'[u].roomId # r
    <3>1. Old(u) BY <2>3, <2>6
    <3>2. call[u] = call'[u] BY <3>1, <2>4
    <3>3. Same(call[u].roomId) BY <1>1, <2>2, <2>4, <2>6, <3>2
    <3> QED BY <1>2, <2>4, <3>1, <3>3
  <2> QED BY <2>5, <2>6
<1>4. ASSUME NEW h \in Handlers, WriteAccepted(h) PROVE EndedNeverRings'
  <2> PICK mine \in Call, theirs \in Call : mine = handler[h].mine /\ theirs = handler[h].theirs
    BY <1>4 DEF WriteAccepted, IInv, FramesOK, FrameOK, Accepting, Paired
  <2>1. /\ session' = [session EXCEPT ![mine.roomId].answers = @ + 1]
        /\ call' = [call EXCEPT ![handler[h].from] = [mine EXCEPT !.status = "active"],
                                ![theirs.userId] = [theirs EXCEPT !.status = "active"]]
    BY <1>4 DEF WriteAccepted
  <2>2. \A q \in Rooms : session[q] # None => Same(q)
    BY <2>1 DEF IInv, TypeOK, Session
  <2>3. \A u \in Users : Old(u) \/ call'[u].status = "active"
    BY <2>1 DEF IInv, TypeOK, Call
  <2> QED BY <1>1, <1>2, <2>2, <2>3 DEF EndedNeverRings
<1>5. ASSUME NEW h \in Handlers, DeleteRoom(h) PROVE EndedNeverRings'
  <2> PICK r : r = handler[h].mine.roomId OBVIOUS
  <2>1. \A u \in Users : ~HasRoom(call'[u], r) BY <1>5, DeleteRoomFrees
  <2>2. \A u \in Users : Old(u) BY <1>5 DEF DeleteRoom
  <2>3. session' = [session EXCEPT ![r].outcome = Outcome(handler[h].op)]
    BY <1>5 DEF DeleteRoom
  <2>4. \A q \in Rooms : q # r /\ session[q] # None => Same(q)
    BY <2>3 DEF IInv, TypeOK
  <2> QED BY <1>1, <1>2, <2>1, <2>2, <2>4 DEF EndedNeverRings, HasRoom
<1>6. ASSUME UNCHANGED session, \A u \in Users : Old(u) PROVE EndedNeverRings'
  BY <1>1, <1>2, <1>6 DEF EndedNeverRings
<1>7. ASSUME NEW h \in Handlers, NEW side \in Directions, WriteCallLog(h, side)
      PROVE  UNCHANGED <<call, session>>
  BY <1>7 DEF WriteCallLog
<1>8. ASSUME NEW v \in Users, ExpireCall(v)
      PROVE  UNCHANGED session /\ \A u \in Users : Old(u)
  BY <1>8 DEF ExpireCall, IInv, TypeOK
<1> QED BY <1>3, <1>4, <1>5, <1>6, <1>7, <1>8, WhoeverWrites

(* Nobody is ever left ringing or calling in a call that was ended, whatever *)
(* overlaps, expires, fails or is run again: acceptCall can bring an ended   *)
(* call back, but only as one that was answered.                            *)
THEOREM NoEndedCallRings == Spec => []EndedNeverRings
<1>1. Init => EndedNeverRings BY DEF Init, EndedNeverRings
<1>2. IInv /\ EndedNeverRings /\ [Next]_vars => EndedNeverRings' BY EndedStep
<1> QED BY <1>1, <1>2, Invariance, PTL DEF Spec

=============================================================================
