------------------------------- MODULE Calls -------------------------------
(***************************************************************************)
(* The calls of the server: CallsService (the call records in Redis),      *)
(* CallLifecycleService (what is done around them) and the BullMQ jobs     *)
(* that end a call nobody ended.                                           *)
(*                                                                         *)
(* Every await is a point where another handler may run, and nothing in    *)
(* CallsService guards a write by what was read before it (no WATCH, no    *)
(* script).  So a handler is a frame that advances by ONE Redis, MongoDB   *)
(* or queue command per action; the checks between two awaits belong to    *)
(* the action of the command whose answer they look at.                    *)
(*                                                                         *)
(* A frame's `at' names the command it is about to issue:                  *)
(*   calleeBusy create scheduleRinging          initiateCall, tryStartCall *)
(*   acceptPeer acceptWrite scheduleMax         registerCallAccept         *)
(*   reread                                     endCallByRoom -> endCall   *)
(*   peer members delete                        the second read, and       *)
(*                                              deleteCallRoom             *)
(*   log notify complete                        writePair, the missed-call *)
(*                                              notification, BullMQ's ack *)
(*   icePush                                    addPendingIceCandidate     *)
(*                                                                         *)
(* Left out: the SDP and ICE payloads, dates, socket ids and the call type *)
(* (copied, never tested); getCall's deletion of a record that is not JSON *)
(* (only JSON.stringify writes the key); the three read-only queries.      *)
(***************************************************************************)
EXTENDS Naturals, FiniteSets, Bags, BagsExt

CONSTANTS
    Users,       \* user ids
    Rooms,       \* the uuids randomUUID will return: bounds the calls started
    Requests,    \* slots for client events being handled at the same time
    JobWorkers,  \* slots for queue jobs being processed at the same time
    Events,      \* the client events that arrive, a subset of ClientOps
    Faults,      \* a subset of {"expire", "abort", "stall"}
    None         \* an absent record, job or field

ClientOps == {"offer", "answer", "decline", "cancel", "end", "ice"}
JobNames  == {"ringing-timeout", "max-duration"}
Ops       == ClientOps \cup JobNames

Handlers == Requests \cup JobWorkers

VARIABLES
    call,           \* calls:user:<id>, the record of each user or None
    members,        \* calls:room:<id>:users
    ice,            \* the calls:room:<id>:pending-ice:<user> lists that exist
    jobs,           \* the call-timeouts queue, by job name and room (the jobId)
    callLogs,       \* the call-logs collection, a bag: no index makes it a set
    notifications,  \* the missed_call notifications, <<userId, callId>>
    handler,        \* the frame of each slot
    session         \* history: who started the call of each room, with whom,
                    \* how often it was answered, the outcome last given to it

vars == <<call, members, ice, jobs, callLogs, notifications, handler, session>>
stored == <<call, members, ice, jobs, callLogs, notifications, session>>

-----------------------------------------------------------------------------
(* Records *)

Directions == {"outgoing", "incoming"}
Statuses   == {"calling", "ringing", "active"}
Outcomes   == {"declined", "cancelled", "missed", "completed"}

Call == [direction : Directions, userId : Users, peerUserId : Users,
         roomId : Rooms, status : Statuses]

JobState == [userId : Users, state : {"delayed", "active", "failed"}, stalled : BOOLEAN]

LogDoc == [callId : Rooms, userId : Users, peerUserId : Users,
           direction : Directions, status : Outcomes \cup {"no_answer"}]

Session == [caller : Users, callee : Users, answers : Nat,
            outcome : Outcomes \cup {None}]

Steps == {"idle", "calleeBusy", "create", "scheduleRinging", "acceptPeer",
          "acceptWrite", "scheduleMax", "reread", "peer", "members", "delete",
          "log", "notify", "complete", "icePush"}

Frame == [at : Steps, op : Ops \cup {None}, from : Users \cup {None},
          to : Users \cup {None}, room : Rooms \cup {None},
          mine : Call \cup {None}, theirs : Call \cup {None},
          roomUsers : SUBSET Users, unwritten : SUBSET Directions]

ASSUME ConstantsAssumption ==
    /\ Events \subseteq ClientOps
    /\ Faults \subseteq {"expire", "abort", "stall"}
    /\ None \notin Users \cup Rooms \cup Ops \cup Outcomes
    /\ None \notin Call /\ None \notin Session /\ None \notin JobState

Idle == [at |-> "idle", op |-> None, from |-> None, to |-> None, room |-> None,
         mine |-> None, theirs |-> None, roomUsers |-> {}, unwritten |-> {}]

OutgoingCall(u, v, r, s) ==
    [direction |-> "outgoing", userId |-> u, peerUserId |-> v, roomId |-> r, status |-> s]
IncomingCall(u, v, r, s) ==
    [direction |-> "incoming", userId |-> u, peerUserId |-> v, roomId |-> r, status |-> s]

(* What the handler hands to its caller when it returns: a job still has to *)
(* be acknowledged to the queue.                                            *)
Returned(f) == IF f.op \in JobNames
               THEN [Idle EXCEPT !.at = "complete", !.op = f.op, !.room = f.room]
               ELSE Idle

Goto(h, f)  == handler' = [handler EXCEPT ![h] = f]
Advance(h, step) == Goto(h, [handler[h] EXCEPT !.at = step])
Return(h)   == Goto(h, Returned(handler[h]))

Init ==
    /\ call = [u \in Users |-> None]
    /\ members = [r \in Rooms |-> {}]
    /\ ice = {}
    /\ jobs = [n \in JobNames |-> [r \in Rooms |-> None]]
    /\ callLogs = EmptyBag
    /\ notifications = {}
    /\ handler = [h \in Handlers |-> Idle]
    /\ session = [r \in Rooms |-> None]

(* Mutant of Schedule: the job id is the room alone, so that the two jobs   *)
(* of a room collide.                                                       *)
ScheduleByRoom(name, r, u) ==
    jobs' = IF \A n \in JobNames : jobs[n][r] = None
            THEN [jobs EXCEPT ![name][r] =
                      [userId |-> u, state |-> "delayed", stalled |-> FALSE]]
            ELSE jobs

(* queue.add with a jobId: a job of that id that still exists, be it        *)
(* waiting, running or kept because it failed, makes the call a no-op.      *)
Schedule(name, r, u) ==
    jobs' = IF jobs[name][r] = None
            THEN [jobs EXCEPT ![name][r] =
                      [userId |-> u, state |-> "delayed", stalled |-> FALSE]]
            ELSE jobs

(* A client event reaches its handler: the slot is free. *)
Receives(h, event) == h \in Requests /\ event \in Events /\ handler[h] = Idle

-----------------------------------------------------------------------------
(* call.offer: CallsService.initiateCall, then tryStartCall's job.  An      *)
(* offer to oneself and an offer while busy return without a trace.         *)

(* The bound on the calls of a behaviour: an offer is taken up only while    *)
(* there is a room id for it and for every other offer being handled.       *)
RoomLeft ==
    Cardinality({h \in Handlers : handler[h].at \in {"calleeBusy", "create"}})
        < Cardinality({r \in Rooms : session[r] = None})

InitiateCall(h, u, v) ==
    /\ Receives(h, "offer")
    /\ RoomLeft
    /\ u # v
    /\ call[u] = None
    /\ Goto(h, [Idle EXCEPT !.at = "calleeBusy", !.op = "offer", !.from = u, !.to = v])
    /\ UNCHANGED stored

(* Mutant: the callee's record is not looked at. *)
CheckCalleeNever(h) ==
    /\ handler[h].at = "calleeBusy"
    /\ Advance(h, "create")
    /\ UNCHANGED stored

CheckCalleeBusy(h) ==
    /\ handler[h].at = "calleeBusy"
    /\ IF call[handler[h].to] = None THEN Advance(h, "create") ELSE Return(h)
    /\ UNCHANGED stored

CreateCall(h, r) ==
    LET u == handler[h].from
        v == handler[h].to
    IN  /\ handler[h].at = "create"
        /\ session[r] = None
        /\ call' = [call EXCEPT ![u] = OutgoingCall(u, v, r, "calling"),
                                ![v] = IncomingCall(v, u, r, "ringing")]
        /\ members' = [members EXCEPT ![r] = {u, v}]
        /\ session' = [session EXCEPT ![r] = [caller |-> u, callee |-> v,
                                              answers |-> 0, outcome |-> None]]
        /\ Goto(h, [handler[h] EXCEPT !.at = "scheduleRinging", !.room = r])
        /\ UNCHANGED <<ice, jobs, callLogs, notifications>>

ScheduleRingingTimeout(h) ==
    /\ handler[h].at = "scheduleRinging"
    /\ Schedule("ringing-timeout", handler[h].room, handler[h].to)
    /\ Return(h)
    /\ UNCHANGED <<call, members, ice, callLogs, notifications, session>>

-----------------------------------------------------------------------------
(* call.answer: CallsService.acceptCall, then registerCallAccept's job.     *)

AcceptCall(h, u) ==
    /\ Receives(h, "answer")
    /\ call[u] # None
    /\ call[u].status = "ringing"
    /\ Goto(h, [Idle EXCEPT !.at = "acceptPeer", !.op = "answer", !.from = u,
                            !.mine = call[u]])
    /\ UNCHANGED stored

(* Mutant: the rooms of the two records are not compared. *)
AcceptableAnyRoom(mine, theirs) ==
    /\ theirs # None
    /\ theirs.status = "calling"
    /\ mine.direction = "incoming"
    /\ theirs.direction = "outgoing"

Acceptable(mine, theirs) ==
    /\ theirs # None
    /\ mine.roomId = theirs.roomId
    /\ theirs.status = "calling"
    /\ mine.direction = "incoming"
    /\ theirs.direction = "outgoing"

ReadCallerToAccept(h) ==
    LET theirs == call[handler[h].mine.peerUserId]
    IN  /\ handler[h].at = "acceptPeer"
        /\ IF Acceptable(handler[h].mine, theirs)
           THEN Goto(h, [handler[h] EXCEPT !.at = "acceptWrite", !.theirs = theirs])
           ELSE Return(h)
        /\ UNCHANGED stored

(* Mutant: the status stays what it was. *)
WriteAcceptedUnchanged(h) ==
    /\ handler[h].at = "acceptWrite"
    /\ call' = [call EXCEPT ![handler[h].from] = handler[h].mine,
                            ![handler[h].theirs.userId] = handler[h].theirs]
    /\ session' = [session EXCEPT ![handler[h].mine.roomId].answers = @ + 1]
    /\ Goto(h, [handler[h] EXCEPT !.at = "scheduleMax", !.room = handler[h].mine.roomId])
    /\ UNCHANGED <<members, ice, jobs, callLogs, notifications>>

(* Both records are SET, whether or not the keys still exist.               *)
WriteAccepted(h) ==
    LET mine   == handler[h].mine
        theirs == handler[h].theirs
    IN  /\ handler[h].at = "acceptWrite"
        /\ call' = [call EXCEPT ![handler[h].from]  = [mine EXCEPT !.status = "active"],
                                ![theirs.userId] = [theirs EXCEPT !.status = "active"]]
        /\ session' = [session EXCEPT ![mine.roomId].answers = @ + 1]
        /\ Goto(h, [handler[h] EXCEPT !.at = "scheduleMax", !.room = mine.roomId])
        /\ UNCHANGED <<members, ice, jobs, callLogs, notifications>>

(* Mutant: the job is given the user an offer names, not the one who accepts. *)
ScheduleMaxDurationOfCallee(h) ==
    /\ handler[h].at = "scheduleMax"
    /\ Schedule("max-duration", handler[h].room, handler[h].to)
    /\ Return(h)
    /\ UNCHANGED <<call, members, ice, callLogs, notifications, session>>

ScheduleMaxDurationTimeout(h) ==
    /\ handler[h].at = "scheduleMax"
    /\ Schedule("max-duration", handler[h].room, handler[h].mine.userId)
    /\ Return(h)
    /\ UNCHANGED <<call, members, ice, callLogs, notifications, session>>

-----------------------------------------------------------------------------
(* Ending a call.  decline, cancel and end come from a client and read its  *)
(* own record first; the two jobs read the record of the user they name and *)
(* look at the room.  All of them then read the peer's record, check the    *)
(* pair and delete the room.                                                *)

Hangup(h, op, u) ==
    /\ op \in {"decline", "cancel", "end"}
    /\ Receives(h, op)
    /\ call[u] # None
    /\ Goto(h, [Idle EXCEPT !.at = "peer", !.op = op, !.from = u, !.mine = call[u]])
    /\ UNCHANGED stored

(* BullMQ hands a due job to a worker.  Whether it comes before or after    *)
(* the call has ended is open: a scheduled job is never cancelled.          *)
Dispatch(h, name, r) ==
    /\ h \in JobWorkers
    /\ handler[h] = Idle
    /\ jobs[name][r] # None
    /\ jobs[name][r].state = "delayed"
    /\ jobs' = [jobs EXCEPT ![name][r].state = "active"]

(* Mutant: any call of the user will do. *)
HasCall(c, r) == c # None

HasRoom(c, r) == c # None /\ c.roomId = r

TimeoutRingingCall(h, r) ==
    LET u == jobs["ringing-timeout"][r].userId
        f == [Idle EXCEPT !.at = "peer", !.op = "ringing-timeout", !.from = u,
                          !.room = r, !.mine = call[u]]
    IN  /\ Dispatch(h, "ringing-timeout", r)
        /\ Goto(h, IF HasRoom(call[u], r) THEN f ELSE Returned(f))
        /\ UNCHANGED <<call, members, ice, callLogs, notifications, session>>

EndCallByRoom(h, r) ==
    LET u == jobs["max-duration"][r].userId
        f == [Idle EXCEPT !.at = "reread", !.op = "max-duration", !.from = u, !.room = r]
    IN  /\ Dispatch(h, "max-duration", r)
        /\ Goto(h, IF HasRoom(call[u], r) THEN f ELSE Returned(f))
        /\ UNCHANGED <<call, members, ice, callLogs, notifications, session>>

(* endCallByRoom checked the room of one read; endCall reads again.         *)
RereadOwnCall(h) ==
    LET mine == call[handler[h].from]
    IN  /\ handler[h].at = "reread"
        /\ IF mine # None
           THEN Goto(h, [handler[h] EXCEPT !.at = "peer", !.mine = mine])
           ELSE Return(h)
        /\ UNCHANGED stored

(* The checks of declineCall, cancelCall, endCall and timeoutRingingCall.   *)
Unanswered(incoming, outgoing) ==
    /\ incoming.direction = "incoming" /\ incoming.status = "ringing"
    /\ outgoing.direction = "outgoing" /\ outgoing.status = "calling"

(* Mutants: the rooms are not compared; `end' does not look at the status.   *)
EndableAnyRoom(op, mine, theirs) ==
    /\ theirs # None
    /\ \/ op \in {"decline", "ringing-timeout"} /\ Unanswered(mine, theirs)
       \/ op = "cancel" /\ Unanswered(theirs, mine)
       \/ /\ op \in {"end", "max-duration"}
          /\ mine.direction # theirs.direction
          /\ mine.status = "active" /\ theirs.status = "active"

EndableAnyStatus(op, mine, theirs) ==
    /\ theirs # None
    /\ mine.roomId = theirs.roomId
    /\ \/ op \in {"decline", "ringing-timeout"} /\ Unanswered(mine, theirs)
       \/ op = "cancel" /\ Unanswered(theirs, mine)
       \/ op \in {"end", "max-duration"} /\ mine.direction # theirs.direction

Endable(op, mine, theirs) ==
    /\ theirs # None
    /\ mine.roomId = theirs.roomId
    /\ \/ op \in {"decline", "ringing-timeout"} /\ Unanswered(mine, theirs)
       \/ op = "cancel" /\ Unanswered(theirs, mine)
       \/ /\ op \in {"end", "max-duration"}
          /\ mine.direction # theirs.direction
          /\ mine.status = "active" /\ theirs.status = "active"

ReadPeerCall(h) ==
    LET theirs == call[handler[h].mine.peerUserId]
    IN  /\ handler[h].at = "peer"
        /\ IF Endable(handler[h].op, handler[h].mine, theirs)
           THEN Goto(h, [handler[h] EXCEPT !.at = "members", !.theirs = theirs])
           ELSE Return(h)
        /\ UNCHANGED stored

(* Mutant: the room is not deleted. *)
ReadRoomUsersOnly(h) ==
    /\ handler[h].at = "members"
    /\ Goto(h, [handler[h] EXCEPT !.at = "log", !.unwritten = Directions])
    /\ UNCHANGED stored

ReadRoomUsers(h) ==
    /\ handler[h].at = "members"
    /\ Goto(h, [handler[h] EXCEPT !.at = "delete",
                                  !.roomUsers = members[handler[h].mine.roomId]])
    /\ UNCHANGED stored

Outcome(op) ==
    CASE op = "decline"         -> "declined"
      [] op = "cancel"          -> "cancelled"
      [] op = "ringing-timeout" -> "missed"
      [] OTHER                  -> "completed"

LogStatus(op, side) ==
    IF op = "ringing-timeout" /\ side = "outgoing" THEN "no_answer" ELSE Outcome(op)

(* Mutant: only the users the room's set still names. *)
UsersInRoom(f) == f.roomUsers

UsersToDelete(f) == f.roomUsers \cup {f.mine.userId, f.theirs.userId}

(* The MULTI of deleteCallRoom: DEL of a user's key whatever it now holds.  *)
DeleteRoom(h) ==
    LET f == handler[h]
        r == f.mine.roomId
    IN  /\ f.at = "delete"
        /\ call' = [u \in Users |-> IF u \in UsersToDelete(f) THEN None ELSE call[u]]
        /\ ice' = ice \ ({r} \X UsersToDelete(f))
        /\ members' = [members EXCEPT ![r] = {}]
        /\ session' = [session EXCEPT ![r].outcome = Outcome(f.op)]
        /\ Goto(h, [f EXCEPT !.at = "log", !.unwritten = Directions])
        /\ UNCHANGED <<jobs, callLogs, notifications>>

(* Mutant of LogOf: both documents are made from the record of whoever ends   *)
(* the call.                                                                *)
LogOfMine(f, side) ==
    [callId |-> f.mine.roomId, userId |-> f.mine.userId, peerUserId |-> f.mine.peerUserId,
     direction |-> side, status |-> LogStatus(f.op, side)]

(* writePair: two inserts side by side, the caller's and the callee's.      *)
LogOf(f, side) ==
    LET c == IF f.mine.direction = side THEN f.mine ELSE f.theirs
    IN  [callId |-> c.roomId, userId |-> c.userId, peerUserId |-> c.peerUserId,
         direction |-> c.direction, status |-> LogStatus(f.op, side)]

(* Mutant: the handler goes on after the first insert. *)
WriteCallLogRace(h, side) ==
    LET f == handler[h]
    IN  /\ f.at = "log"
        /\ side \in f.unwritten
        /\ callLogs' = BagAdd(callLogs, LogOf(f, side))
        /\ Goto(h, IF f.op = "ringing-timeout"
                   THEN [f EXCEPT !.at = "notify", !.unwritten = {}]
                   ELSE Returned(f))
        /\ UNCHANGED <<call, members, ice, jobs, notifications, session>>

(* If one insert is rejected Promise.all is, and the other may still land:   *)
(* here it lands first and Abort comes then.  Nothing reads the log between, *)
(* and a job that failed is not run again, so the order does not show.       *)
WriteCallLog(h, side) ==
    LET f == handler[h]
        left == f.unwritten \ {side}
    IN  /\ f.at = "log"
        /\ side \in f.unwritten
        /\ callLogs' = BagAdd(callLogs, LogOf(f, side))
        /\ Goto(h, IF left # {} THEN [f EXCEPT !.unwritten = left]
                   ELSE IF f.op = "ringing-timeout"
                        THEN [f EXCEPT !.at = "notify", !.unwritten = {}]
                        ELSE Returned(f))
        /\ UNCHANGED <<call, members, ice, jobs, notifications, session>>

(* The unique index on (userId, type, callId) rejects a second insert, and  *)
(* the rejection fails the job.                                             *)
CreateMissedCallNotification(h) ==
    LET f == handler[h]
        n == <<f.mine.userId, f.mine.roomId>>
    IN  /\ f.at = "notify"
        /\ IF n \notin notifications
           THEN /\ notifications' = notifications \cup {n}
                /\ Return(h)
                /\ UNCHANGED jobs
           ELSE /\ Goto(h, Idle)
                /\ jobs' = [jobs EXCEPT ![f.op][f.room].state = "failed"]
                /\ UNCHANGED notifications
        /\ UNCHANGED <<call, members, ice, callLogs, session>>

(* removeOnComplete: the id of a completed job is free again.               *)
CompleteJob(h) ==
    /\ handler[h].at = "complete"
    /\ jobs' = [jobs EXCEPT ![handler[h].op][handler[h].room] = None]
    /\ Goto(h, Idle)
    /\ UNCHANGED <<call, members, ice, callLogs, notifications, session>>

-----------------------------------------------------------------------------
(* call.ice-candidate: handleIceCandidate reads the sender's call, then     *)
(* pushes to the peer's list of that room, whatever became of the room.     *)

HandleIceCandidate(h, u) ==
    /\ Receives(h, "ice")
    /\ call[u] # None
    /\ Goto(h, [Idle EXCEPT !.at = "icePush", !.op = "ice", !.from = u, !.mine = call[u]])
    /\ UNCHANGED stored

AddPendingIceCandidate(h) ==
    /\ handler[h].at = "icePush"
    /\ ice' = ice \cup {<<handler[h].mine.roomId, handler[h].mine.peerUserId>>}
    /\ Return(h)
    /\ UNCHANGED <<call, members, jobs, callLogs, notifications, session>>

-----------------------------------------------------------------------------
(* What the environment does.  Every key of this module is written with an  *)
(* expiry, so Redis may drop it; the keys are dropped one by one.           *)

ExpireCall(u) ==
    /\ "expire" \in Faults
    /\ call[u] # None
    /\ call' = [call EXCEPT ![u] = None]
    /\ UNCHANGED <<members, ice, jobs, callLogs, notifications, handler, session>>

ExpireRoom(r) ==
    /\ "expire" \in Faults
    /\ members[r] # {}
    /\ members' = [members EXCEPT ![r] = {}]
    /\ UNCHANGED <<call, ice, jobs, callLogs, notifications, handler, session>>

ExpireIce(key) ==
    /\ "expire" \in Faults
    /\ key \in ice
    /\ ice' = ice \ {key}
    /\ UNCHANGED <<call, members, jobs, callLogs, notifications, handler, session>>

(* A command is rejected, or the connection is lost: the handler stops where *)
(* it is.  A job it ran has failed and, with BullMQ's default of one         *)
(* attempt, is kept but never run again.                                     *)
Abort(h) ==
    LET f == handler[h]
    IN  /\ "abort" \in Faults
        /\ f # Idle
        /\ Goto(h, Idle)
        /\ jobs' = IF f.op \in JobNames
                   THEN [jobs EXCEPT ![f.op][f.room].state = "failed"]
                   ELSE jobs
        /\ UNCHANGED <<call, members, ice, callLogs, notifications, session>>

(* The process dies while it runs a job.  The queue finds the job stalled    *)
(* and runs it again, once (maxStalledCount is 1 by default).  Assumed: a    *)
(* worker that lives keeps its job's lock, which BullMQ renews by a timer,   *)
(* so that the first run has stopped when the second begins.                 *)
Stall(h) ==
    LET f == handler[h]
    IN  /\ "stall" \in Faults
        /\ f.op \in JobNames
        /\ ~jobs[f.op][f.room].stalled
        /\ Goto(h, Idle)
        /\ jobs' = [jobs EXCEPT ![f.op][f.room] = [@ EXCEPT !.state = "delayed",
                                                            !.stalled = TRUE]]
        /\ UNCHANGED <<call, members, ice, callLogs, notifications, session>>

-----------------------------------------------------------------------------
(* The next-state relation *)

ClientEvent(h) ==
    \E u \in Users :
        \/ \E v \in Users : InitiateCall(h, u, v)
        \/ AcceptCall(h, u)
        \/ \E op \in {"decline", "cancel", "end"} : Hangup(h, op, u)
        \/ HandleIceCandidate(h, u)

StartJob(h) == \E r \in Rooms : TimeoutRingingCall(h, r) \/ EndCallByRoom(h, r)

Resume(h) ==
    \/ CheckCalleeBusy(h)
    \/ \E r \in Rooms : CreateCall(h, r)
    \/ ScheduleRingingTimeout(h)
    \/ ReadCallerToAccept(h)
    \/ WriteAccepted(h)
    \/ ScheduleMaxDurationTimeout(h)
    \/ RereadOwnCall(h)
    \/ ReadPeerCall(h)
    \/ ReadRoomUsers(h)
    \/ DeleteRoom(h)
    \/ \E side \in Directions : WriteCallLog(h, side)
    \/ CreateMissedCallNotification(h)
    \/ CompleteJob(h)
    \/ AddPendingIceCandidate(h)

Expire ==
    \/ \E u \in Users : ExpireCall(u)
    \/ \E r \in Rooms : ExpireRoom(r)
    \/ \E key \in ice : ExpireIce(key)

Next ==
    \/ \E h \in Handlers : ClientEvent(h) \/ StartJob(h) \/ Resume(h)
                           \/ Abort(h) \/ Stall(h)
    \/ Expire

Spec == Init /\ [][Next]_vars


-----------------------------------------------------------------------------
(* Invariants *)

TypeOK ==
    /\ call \in [Users -> Call \cup {None}]
    /\ members \in [Rooms -> SUBSET Users]
    /\ ice \subseteq Rooms \X Users
    /\ jobs \in [JobNames -> [Rooms -> JobState \cup {None}]]
    /\ DOMAIN callLogs \subseteq LogDoc
    /\ \A d \in DOMAIN callLogs : callLogs[d] \in Nat \ {0}
    /\ notifications \subseteq Users \X Rooms
    /\ handler \in [Handlers -> Frame]
    /\ session \in [Rooms -> Session \cup {None}]

(* d (a record or a log document) describes the call of room r from the     *)
(* side of one of the two users who were in it.                             *)
Describes(d, r) ==
    /\ session[r] # None
    /\ IF d.direction = "outgoing"
       THEN d.userId = session[r].caller /\ d.peerUserId = session[r].callee
       ELSE d.userId = session[r].callee /\ d.peerUserId = session[r].caller

(* No interleaving of handlers mixes up two calls: whatever is stored under *)
(* a room id, in Redis, in the queue or in MongoDB, names the two users     *)
(* initiateCall started that room with, each on the right side.             *)
RecordsAgree == \A u \in Users : call[u] # None =>
    call[u].userId = u /\ Describes(call[u], call[u].roomId)

MembersAgree == \A r \in Rooms : members[r] # {} =>
    session[r] # None /\ members[r] = {session[r].caller, session[r].callee}

IceAgree == \A key \in ice :
    session[key[1]] # None /\ key[2] \in {session[key[1]].caller, session[key[1]].callee}

JobsAgree == \A n \in JobNames, r \in Rooms : jobs[n][r] # None =>
    session[r] # None /\ jobs[n][r].userId = session[r].callee

LogsAgree == \A d \in DOMAIN callLogs : Describes(d, d.callId)

NotificationsAgree == \A n \in notifications :
    session[n[2]] # None /\ n[1] = session[n[2]].callee

PartiesAgree ==
    /\ RecordsAgree /\ MembersAgree /\ IceAgree
    /\ JobsAgree /\ LogsAgree /\ NotificationsAgree

Answered(r) == session[r] # None /\ session[r].answers > 0

(* The two records of a call never disagree on whether it was answered: once *)
(* acceptCall has written, no participant is left ringing or calling in that *)
(* room, and before it has, nobody is active in it.                          *)
ActiveIffAnswered == \A u \in Users : call[u] # None =>
    (call[u].status = "active" <=> Answered(call[u].roomId))

(* A call is logged as completed, and a maximum-duration job exists, only    *)
(* for a room whose call was answered; registerCallEnd and the job cannot    *)
(* complete a call that only rang.                                           *)
CompletedWasAnswered ==
    /\ \A d \in DOMAIN callLogs : d.status = "completed" => Answered(d.callId)
    /\ \A r \in Rooms : jobs["max-duration"][r] # None => Answered(r)

(* The ringing timeout reports a missed call at most once, although its job  *)
(* may be run again after a crash: registerRingingTimeout deletes the        *)
(* records before it logs, so that a second run finds nothing to do.         *)
MissedCallOnce == \A d \in DOMAIN callLogs :
    d.status \in {"missed", "no_answer"} => callLogs[d] = 1

(* registerRingingTimeout writes the pair before the notification: a user    *)
(* told of a missed call finds it in the log, and so does the caller.        *)
NotifiedIsLogged == \A n \in notifications :
    \A side \in Directions : \E d \in DOMAIN callLogs :
        /\ d.callId = n[2] /\ d.direction = side
        /\ d.status \in {"missed", "no_answer"}

(* Once a handler has ended a call nobody rings or calls in its room: a      *)
(* deletion misses no record although the room's user set may be gone, an    *)
(* expired record or a rerun job brings none back, and acceptCall, which may *)
(* (NoResurrection), writes both as answered.                                *)
EndedNeverRings == \A u \in Users :
    call[u] # None /\ call[u].status # "active" => session[call[u].roomId].outcome = None

-----------------------------------------------------------------------------
(* Action properties *)

Deletes(h) == handler[h].at = "delete" /\ handler'[h].at = "log"

(* deleteCallRoom frees both participants and drops all of the room's keys,  *)
(* even when the room's user set is gone (expired, or deleted before         *)
(* acceptCall wrote the records back).                                       *)
EndLeavesNothing ==
    [][\A h \in Handlers : Deletes(h) =>
          LET r == handler[h].mine.roomId
          IN  /\ \A u \in Users : ~HasRoom(call'[u], r)
              /\ members'[r] = {}
              /\ ice' \cap ({r} \X Users) = {}]_vars

(* initiateCall never takes a record that is in use from its owner.          *)
NoDoubleBooking ==
    [][\A u \in Users : call[u] # None =>
          call'[u] = None \/ call'[u].roomId = call[u].roomId]_vars

(* Ending one call leaves the records of other calls alone.                  *)
DeletesOnlyItsCall ==
    [][\A h \in Handlers : Deletes(h) =>
          \A u \in Users : call[u] # None /\ call'[u] = None =>
              call[u].roomId = handler[h].mine.roomId]_vars

(* A timeout job ends the call of the room it was scheduled for, no other.   *)
JobEndsItsRoom ==
    [][\A h \in Handlers : Deletes(h) /\ handler[h].op \in JobNames =>
          handler[h].mine.roomId = handler[h].room]_vars

(* A call that a handler has ended stays ended: no record of the room        *)
(* appears again.                                                            *)
NoResurrection ==
    [][\A r \in Rooms : session[r] # None /\ session[r].outcome # None =>
          \A u \in Users : HasRoom(call'[u], r) => HasRoom(call[u], r)]_vars

(* A call is accepted once, by one device of the callee.                     *)
AcceptedOnce == \A r \in Rooms : session[r] # None => session[r].answers <= 1

(* Each participant has one log entry for a call: a call has one outcome.    *)
LoggedOnce ==
    /\ \A d \in DOMAIN callLogs : callLogs[d] = 1
    /\ \A d, e \in DOMAIN callLogs :
          d.callId = e.callId /\ d.userId = e.userId => d = e

-----------------------------------------------------------------------------
(* Liveness.  Node resumes a handler whose command was answered, and the     *)
(* queue dispatches a due job; nobody is obliged to send an event.           *)

Fairness ==
    /\ \A h \in Handlers : WF_vars(Resume(h))
    /\ \A r \in Rooms :
          /\ WF_vars(\E h \in Handlers : TimeoutRingingCall(h, r))
          /\ WF_vars(\E h \in Handlers : EndCallByRoom(h, r))

FairSpec == Spec /\ Fairness

Freed(r) == \A u \in Users : ~HasRoom(call[u], r)

Logged(r) == \A side \in Directions :
    \E d \in DOMAIN callLogs : d.callId = r /\ d.direction = side

(* The jobs alone bring every call to its end: both participants are free    *)
(* of it for good.                                                           *)
EveryCallFreed == \A r \in Rooms : <>[]Freed(r)

(* ... and both find it in their log, other than if a worker died in one of  *)
(* the room's two jobs: what it had deleted but not logged is lost.          *)
Ongoing(r) == session[r] # None /\ session[r].outcome = None

(* Wherever it died: the queue keeps no more of it than that.                *)
WorkerDied(r) == \E n \in JobNames : jobs[n][r] # None /\ jobs[n][r].stalled

EveryCallLogged == \A r \in Rooms :
    Ongoing(r) ~> Freed(r) /\ (Logged(r) \/ WorkerDied(r))

=============================================================================
