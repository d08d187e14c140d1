------------------------- MODULE MissedCallsProofs -------------------------
(***************************************************************************)
(* What registerRingingTimeout promises of a missed call, proved for every *)
(* set of users, rooms and handlers: it is logged once and before it is    *)
(* told.                                                                   *)
(*                                                                         *)
(* The job may be run again after a crash, so that neither follows from    *)
(* one run.  What carries over to the next run is in Redis: once a room    *)
(* was reported as missed, or its records were deleted to do so, none of   *)
(* its records rings (RingsUnreported), and a run that finds no ringing    *)
(* record stops before it deletes or logs (TimeoutOK).  That no second run *)
(* overlaps the first is JobsHeld of CallsProofs.                          *)
(***************************************************************************)
EXTENDS CallsProofs

MissedLog(d, r) == d.callId = r /\ d.status \in {"missed", "no_answer"}
MissedIn(r)     == \E d \in DOMAIN callLogs : MissedLog(d, r)

MissedOnSide(r, side) == \E d \in DOMAIN callLogs : MissedLog(d, r) /\ d.direction = side

Reporting(f)  == f.op = "ringing-timeout" /\ f.at \in {"log", "notify"}
Reported(r)   ==
    MissedIn(r) \/ \E h \in Handlers : Reporting(handler[h]) /\ handler[h].mine.roomId = r

RingsUnreported == \A u \in Users :
    call[u] # None /\ call[u].status = "ringing" => ~Reported(call[u].roomId)

TimeoutOK(f) == f.op = "ringing-timeout" =>
    /\ f.at # "reread"
    /\ f.at \in {"peer"} \cup Ending => f.mine.roomId = f.room
    /\ f.at \in {"members", "delete"} => f.mine.status = "ringing"
    /\ f.at \in {"peer", "members", "delete"} /\ f.mine.status = "ringing" => ~MissedIn(f.room)
    /\ f.at = "log" => \A side \in f.unwritten : ~MissedOnSide(f.room, side)
    /\ Reporting(f) => \A side \in Directions \ f.unwritten : MissedOnSide(f.room, side)
    /\ f.at = "notify" => f.unwritten = {}

TimeoutsOK == \A h \in Handlers : TimeoutOK(handler[h])

MInv == RingsUnreported /\ TimeoutsOK /\ MissedCallOnce /\ NotifiedIsLogged

-----------------------------------------------------------------------------
(* Steps that report nothing. *)

reports == <<callLogs, notifications>>

LEMMA OthersStay ==
    ASSUME IInv, NEW h \in Handlers, NEW f, Goto(h, f)
    PROVE  \A g \in Handlers : handler'[g] = IF g = h THEN f ELSE handler[g]
  BY DEF IInv, TypeOK, Goto

(* A handler that logs nothing and is not about to, and lets no record ring  *)
(* but in rooms not reported.                                               *)
LEMMA UnloggedStep ==
    ASSUME IInv, MInv, NEW h \in Handlers, NEW f, Goto(h, f), TimeoutOK(f), ~Reporting(f),
           callLogs' = callLogs,
           \A u \in Users : call'[u] # None /\ call'[u].status = "ringing" =>
               call'[u] = call[u] \/ ~Reported(call'[u].roomId)
    PROVE  RingsUnreported' /\ TimeoutsOK' /\ MissedCallOnce'
<1>1. \A g \in Handlers : handler'[g] = IF g = h THEN f ELSE handler[g] BY OthersStay
<1>2. \A r : Reported(r)' => Reported(r)
  BY <1>1 DEF Reported, Reporting, MissedIn
<1>3. RingsUnreported'
  <2>1. ASSUME NEW u \in Users, call'[u] # None, call'[u].status = "ringing"
        PROVE  ~Reported(call[u].roomId)'
    <3>1. PICK r : r = call'[u].roomId OBVIOUS
    <3>2. ~Reported(r) BY <2>1, <3>1 DEF MInv, RingsUnreported
    <3>3. ~Reported(r)' BY <1>2, <3>2
    <3> QED BY <3>1, <3>3 DEF Reported, MissedIn
  <2> QED BY <2>1 DEF RingsUnreported
<1>4. ASSUME NEW g \in Handlers PROVE TimeoutOK(handler[g])'
  <2>1. TimeoutOK(handler'[g]) BY <1>1 DEF MInv, TimeoutsOK
  <2> QED BY <2>1 DEF TimeoutOK, MissedIn, MissedOnSide
<1> QED BY <1>3, <1>4 DEF MInv, TimeoutsOK, MissedCallOnce

(* ... and tells nobody either.                                             *)
LEMMA UnreportedStep ==
    ASSUME IInv, MInv, NEW h \in Handlers, NEW f, Goto(h, f), TimeoutOK(f), ~Reporting(f),
           UNCHANGED reports,
           \A u \in Users : call'[u] # None /\ call'[u].status = "ringing" =>
               call'[u] = call[u] \/ ~Reported(call'[u].roomId)
    PROVE  MInv'
<1>1. callLogs' = callLogs /\ notifications' = notifications BY DEF reports
<1>2. NotifiedIsLogged' BY <1>1 DEF MInv, NotifiedIsLogged
<1> QED BY <1>1, <1>2, UnloggedStep DEF MInv

LEMMA IdleIsOK == TimeoutOK(Idle) /\ ~Reporting(Idle)
  BY ConstantsAssumption DEF Idle, TimeoutOK, Reporting, Ops, JobNames

LEMMA ReturnedIsOK ==
    ASSUME NEW f PROVE TimeoutOK(Returned(f)) /\ ~Reporting(Returned(f))
<1>1. CASE f.op \in JobNames
  <2>1. Returned(f) = [at |-> "complete", op |-> f.op, from |-> None, to |-> None,
                       room |-> f.room, mine |-> None, theirs |-> None,
                       roomUsers |-> {}, unwritten |-> {}]
    BY <1>1 DEF Returned, Idle
  <2>2. Returned(f).at = "complete" BY <2>1
  <2> QED BY <2>2 DEF TimeoutOK, Reporting, Ending
<1>2. CASE f.op \notin JobNames BY <1>2, IdleIsOK DEF Returned
<1> QED BY <1>1, <1>2

LEMMA Returns ==
    ASSUME IInv, MInv, NEW h \in Handlers, Return(h), UNCHANGED <<reports, call>>
    PROVE  MInv'
  BY ReturnedIsOK, UnreportedStep DEF Return

LEMMA Stops ==
    ASSUME IInv, MInv, NEW h \in Handlers, Goto(h, Idle), UNCHANGED <<reports, call>>
    PROVE  MInv'
  BY IdleIsOK, UnreportedStep

(* A handler of another operation never reports.                            *)
LEMMA OtherOperation ==
    ASSUME IInv, MInv, NEW h \in Handlers, NEW f, Goto(h, f), f.op # "ringing-timeout",
           UNCHANGED reports,
           \A u \in Users : call'[u] # None /\ call'[u].status = "ringing" =>
               call'[u] = call[u] \/ ~Reported(call'[u].roomId)
    PROVE  MInv'
  BY UnreportedStep DEF TimeoutOK, Reporting

LEMMA ClientEventStep ==
    ASSUME IInv, MInv, NEW h \in Handlers, ClientEvent(h)
    PROVE  MInv'
<1>1. ASSUME NEW u \in Users, NEW v \in Users, InitiateCall(h, u, v) PROVE MInv'
  BY <1>1, OtherOperation DEF InitiateCall, Idle, stored, reports
<1>2. ASSUME NEW u \in Users, AcceptCall(h, u) PROVE MInv'
  BY <1>2, OtherOperation DEF AcceptCall, Idle, stored, reports
<1>3. ASSUME NEW u \in Users, NEW op \in {"decline", "cancel", "end"}, Hangup(h, op, u)
      PROVE  MInv'
  BY <1>3, OtherOperation DEF Hangup, Idle, stored, reports
<1>4. ASSUME NEW u \in Users, HandleIceCandidate(h, u) PROVE MInv'
  BY <1>4, OtherOperation DEF HandleIceCandidate, Idle, stored, reports
<1> QED BY <1>1, <1>2, <1>3, <1>4 DEF ClientEvent

(* The job starts only with the record of its own room, and if that rings   *)
(* nothing was reported.                                                    *)
LEMMA StartRingingTimeout ==
    ASSUME IInv, MInv, NEW h \in Handlers, NEW r \in Rooms, TimeoutRingingCall(h, r)
    PROVE  MInv'
<1> DEFINE u == jobs["ringing-timeout"][r].userId
           f == [Idle EXCEPT !.at = "peer", !.op = "ringing-timeout", !.from = u,
                             !.room = r, !.mine = call[u]]
<1>1. UNCHANGED <<reports, call>> BY DEF TimeoutRingingCall, reports
<1>2. CASE ~HasRoom(call[u], r)
  <2>1. Goto(h, Returned(f)) BY <1>2 DEF TimeoutRingingCall
  <2> HIDE DEF f
  <2> QED BY <1>1, <2>1, ReturnedIsOK, UnreportedStep
<1>3. CASE HasRoom(call[u], r)
  <2>1. Goto(h, f) BY <1>3 DEF TimeoutRingingCall
  <2>2. f.at = "peer" /\ f.op = "ringing-timeout" /\ f.room = r /\ f.mine = call[u]
    BY DEF Idle
  <2>3. u \in Users
    BY DEF TimeoutRingingCall, Dispatch, IInv, TypeOK, JobState, JobNames
  <2>4. call[u] # None /\ call[u].roomId = r BY <1>3 DEF HasRoom
  <2>5. call[u].status = "ringing" => ~MissedIn(r)
    BY <2>3, <2>4 DEF MInv, RingsUnreported, Reported
  <2> HIDE DEF f, u
  <2>6. TimeoutOK(f) /\ ~Reporting(f)
    BY <2>2, <2>4, <2>5 DEF TimeoutOK, Reporting
  <2> QED BY <1>1, <2>1, <2>6, UnreportedStep
<1> QED BY <1>2, <1>3

LEMMA StartMaxDuration ==
    ASSUME IInv, MInv, NEW h \in Handlers, NEW r \in Rooms, EndCallByRoom(h, r)
    PROVE  MInv'
<1>1. UNCHANGED <<reports, call>> BY DEF EndCallByRoom, reports
<1>2. CASE HasRoom(call[jobs["max-duration"][r].userId], r)
  <2>1. PICK f : f = [Idle EXCEPT !.at = "reread", !.op = "max-duration",
                                  !.from = jobs["max-duration"][r].userId, !.room = r]
    OBVIOUS
  <2>2. Goto(h, f) BY <1>2, <2>1 DEF EndCallByRoom
  <2>3. f.op = "max-duration" BY <2>1 DEF Idle
  <2> QED BY <1>1, <2>2, <2>3, OtherOperation
<1>3. CASE ~HasRoom(call[jobs["max-duration"][r].userId], r)
  <2>1. PICK e : Goto(h, Returned(e)) BY <1>3 DEF EndCallByRoom
  <2> QED BY <1>1, <2>1, ReturnedIsOK, UnreportedStep
<1> QED BY <1>2, <1>3

-----------------------------------------------------------------------------
(* Steps of a handler under way. *)

(* The slots of offers and answers, and of the second read of the other job. *)
LEMMA NotTheTimeout ==
    ASSUME IInv, MInv, NEW h \in Handlers,
           handler[h].at \in Offering \cup Accepting \cup {"reread"}
    PROVE  handler[h] \in Frame /\ FrameOK(handler[h]) /\ handler[h].op # "ringing-timeout"
  BY DEF IInv, MInv, TypeOK, FramesOK, FrameOK, TimeoutsOK, TimeoutOK, Offering, Accepting

LEMMA OfferOrAnswerStep ==
    ASSUME IInv, MInv, NEW h \in Handlers,
           \/ CheckCalleeBusy(h) \/ ScheduleRingingTimeout(h) \/ ReadCallerToAccept(h)
           \/ ScheduleMaxDurationTimeout(h) \/ RereadOwnCall(h)
    PROVE  MInv'
<1>1. handler[h].at \in Offering \cup Accepting \cup {"reread"}
  BY DEF Offering, Accepting, CheckCalleeBusy, ScheduleRingingTimeout, ReadCallerToAccept,
         ScheduleMaxDurationTimeout, RereadOwnCall
<1>2. handler[h] \in Frame /\ handler[h].op # "ringing-timeout" BY <1>1, NotTheTimeout
<1>3. UNCHANGED <<reports, call>>
  BY DEF reports, stored, CheckCalleeBusy, ScheduleRingingTimeout, ReadCallerToAccept,
         ScheduleMaxDurationTimeout, RereadOwnCall
<1>4. CASE Return(h) BY <1>3, <1>4, Returns
<1>5. ASSUME NEW step, Advance(h, step) PROVE MInv'
  <2>1. PICK f : f = [handler[h] EXCEPT !.at = step] OBVIOUS
  <2>2. Goto(h, f) /\ f.op # "ringing-timeout" BY <1>2, <1>5, <2>1 DEF Advance, Frame
  <2> QED BY <1>3, <2>2, OtherOperation
<1>6. ASSUME NEW step, NEW c, Goto(h, [handler[h] EXCEPT !.at = step, !.theirs = c])
      PROVE  MInv'
  <2>1. PICK f : f = [handler[h] EXCEPT !.at = step, !.theirs = c] OBVIOUS
  <2>2. Goto(h, f) /\ f.op # "ringing-timeout" BY <1>2, <1>6, <2>1 DEF Frame
  <2> QED BY <1>3, <2>2, OtherOperation
<1>7. ASSUME NEW step, NEW c, Goto(h, [handler[h] EXCEPT !.at = step, !.mine = c])
      PROVE  MInv'
  <2>1. PICK f : f = [handler[h] EXCEPT !.at = step, !.mine = c] OBVIOUS
  <2>2. Goto(h, f) /\ f.op # "ringing-timeout" BY <1>2, <1>7, <2>1 DEF Frame
  <2> QED BY <1>3, <2>2, OtherOperation
<1> QED
  BY <1>4, <1>5, <1>6, <1>7
  DEF CheckCalleeBusy, ScheduleRingingTimeout, ReadCallerToAccept,
      ScheduleMaxDurationTimeout, RereadOwnCall

(* A new call rings in a room no report can name: the room is new.          *)
LEMMA CreateCallRings ==
    ASSUME IInv, MInv, NEW h \in Handlers, NEW r \in Rooms, CreateCall(h, r)
    PROVE  MInv'
<1>1. handler[h] \in Frame /\ handler[h].op # "ringing-timeout"
      /\ handler[h].from \in Users /\ handler[h].to \in Users
  BY NotTheTimeout DEF CreateCall, Offering, FrameOK
<1>2. PICK f : Goto(h, f) /\ f.op = handler[h].op
  <2>1. PICK f : f = [handler[h] EXCEPT !.at = "scheduleRinging", !.room = r] OBVIOUS
  <2>2. Goto(h, f) /\ f.op = handler[h].op BY <1>1, <2>1 DEF CreateCall, Frame
  <2> QED BY <2>2
<1>3. UNCHANGED reports BY DEF CreateCall, reports
<1>4. ~MissedIn(r)
  BY DEF CreateCall, MissedIn, MissedLog, IInv, Store, PartiesAgree, LogsAgree, Describes
<1>5. ASSUME NEW g \in Handlers, Reporting(handler[g]), handler[g].mine.roomId = r
      PROVE  FALSE
  <2>1. FrameOK(handler[g]) /\ handler[g].at \in Ending
    BY <1>5 DEF IInv, FramesOK, Reporting, Ending
  <2>2. Known(handler[g].mine) /\ handler[g].mine # None
    BY <2>1, ConstantsAssumption DEF FrameOK, Paired
  <2> QED BY <1>5, <2>2 DEF Known, Describes, CreateCall
<1>6. ~Reported(r) BY <1>4, <1>5 DEF Reported
<1>7. ASSUME NEW u \in Users
      PROVE  call'[u] = call[u] \/ call'[u].roomId = r
  BY <1>1 DEF CreateCall, IInv, TypeOK, OutgoingCall, IncomingCall
<1> QED BY <1>1, <1>2, <1>3, <1>6, <1>7, OtherOperation

LEMMA WriteAcceptedRings ==
    ASSUME IInv, MInv, NEW h \in Handlers, WriteAccepted(h)
    PROVE  MInv'
<1>1. handler[h] \in Frame /\ FrameOK(handler[h]) /\ handler[h].op # "ringing-timeout"
      /\ handler[h].at = "acceptWrite"
  BY NotTheTimeout DEF WriteAccepted, Accepting
<1>2. handler[h].mine \in Call /\ handler[h].theirs \in Call
  BY <1>1 DEF FrameOK, Paired
<1>3. PICK f : Goto(h, f) /\ f.op = handler[h].op
  <2>1. PICK f : f = [handler[h] EXCEPT !.at = "scheduleMax", !.room = handler[h].mine.roomId]
    OBVIOUS
  <2>2. Goto(h, f) /\ f.op = handler[h].op BY <1>1, <2>1 DEF WriteAccepted, Frame
  <2> QED BY <2>2
<1>4. UNCHANGED reports BY DEF WriteAccepted, reports
<1>5. [handler[h].mine EXCEPT !.status = "active"].status = "active"
      /\ [handler[h].theirs EXCEPT !.status = "active"].status = "active"
  BY <1>2 DEF Call
<1>6. ASSUME NEW u \in Users
      PROVE  call'[u] = call[u] \/ call'[u].status = "active"
  BY <1>5 DEF WriteAccepted, IInv, TypeOK
<1> QED BY <1>1, <1>3, <1>4, <1>6, OtherOperation

(* Only a ringing record lets the job go on.                                *)
LEMMA ReadPeerCallChecks ==
    ASSUME IInv, MInv, NEW h \in Handlers, ReadPeerCall(h)
    PROVE  MInv'
<1> DEFINE theirs == call[handler[h].mine.peerUserId]
<1>1. UNCHANGED <<reports, call>> BY DEF ReadPeerCall, stored, reports
<1>2. CASE Return(h) BY <1>1, <1>2, Returns
<1>3. CASE /\ Endable(handler[h].op, handler[h].mine, theirs)
           /\ Goto(h, [handler[h] EXCEPT !.at = "members", !.theirs = theirs])
  <2>1. PICK f : f = [handler[h] EXCEPT !.at = "members", !.theirs = theirs] OBVIOUS
  <2>2. handler[h] \in Frame /\ handler[h].at = "peer" /\ TimeoutOK(handler[h])
    BY DEF ReadPeerCall, IInv, MInv, TypeOK, TimeoutsOK
  <2>3. /\ f.at = "members" /\ f.mine = handler[h].mine
        /\ f.op = handler[h].op /\ f.room = handler[h].room
    BY <2>1, <2>2 DEF Frame
  <2>4. f.op = "ringing-timeout" => f.mine.status = "ringing"
    BY <1>3, <2>3 DEF Endable, Unanswered
  <2>5. TimeoutOK(f) /\ ~Reporting(f)
    BY <2>2, <2>3, <2>4 DEF TimeoutOK, Reporting
  <2> QED BY <1>1, <1>3, <2>1, <2>5, UnreportedStep
<1> QED BY <1>2, <1>3 DEF ReadPeerCall

LEMMA ReadRoomUsersGoesOn ==
    ASSUME IInv, MInv, NEW h \in Handlers, ReadRoomUsers(h)
    PROVE  MInv'
<1>1. UNCHANGED <<reports, call>> BY DEF ReadRoomUsers, stored, reports
<1>2. PICK f : /\ Goto(h, f)
               /\ f = [handler[h] EXCEPT !.at = "delete",
                                         !.roomUsers = members[handler[h].mine.roomId]]
  BY DEF ReadRoomUsers
<1>3. handler[h] \in Frame /\ handler[h].at = "members" /\ TimeoutOK(handler[h])
  BY DEF ReadRoomUsers, IInv, MInv, TypeOK, TimeoutsOK
<1>4. /\ f.at = "delete" /\ f.mine = handler[h].mine
      /\ f.op = handler[h].op /\ f.room = handler[h].room
  BY <1>2, <1>3 DEF Frame
<1>5. TimeoutOK(f) /\ ~Reporting(f)
  BY <1>3, <1>4 DEF TimeoutOK, Reporting, Ending
<1> QED BY <1>1, <1>2, <1>5, UnreportedStep

(* The deletion by which the job takes the call to be missed: no record of  *)
(* the room is left, and what is not logged yet is on both sides.           *)
LEMMA DeleteRoomReports ==
    ASSUME IInv, MInv, NEW h \in Handlers, DeleteRoom(h)
    PROVE  MInv'
<1>1. PICK e \in Frame : e = handler[h] BY DEF IInv, TypeOK
<1>2. e.at = "delete" /\ TimeoutOK(e)
  BY <1>1 DEF DeleteRoom, MInv, TimeoutsOK
<1>3. PICK f \in Frame : f = [e EXCEPT !.at = "log", !.unwritten = Directions]
  BY DEF Frame, Steps
<1>4. /\ f.at = "log" /\ f.op = e.op /\ f.room = e.room /\ f.mine = e.mine
      /\ f.unwritten = Directions
  BY <1>3 DEF Frame
<1>5. Goto(h, f) /\ callLogs' = callLogs /\ notifications' = notifications
  BY <1>1, <1>3 DEF DeleteRoom
<1>6. \A u \in Users : call'[u] # None => call'[u] = call[u]
  BY DEF DeleteRoom
<1>7. CASE e.op # "ringing-timeout"
  BY <1>4, <1>5, <1>6, <1>7, OtherOperation DEF reports
<1>8. CASE e.op = "ringing-timeout"
  <2>1. \A g \in Handlers : handler'[g] = IF g = h THEN f ELSE handler[g]
    BY <1>5, OthersStay
  <2>2. \A r : Reported(r)' => Reported(r) \/ r = e.mine.roomId
    BY <1>4, <1>5, <2>1 DEF Reported, MissedIn
  <2>3. ASSUME NEW u \in Users, call'[u] # None, call'[u].status = "ringing"
        PROVE  ~Reported(call[u].roomId)'
    <3>1. PICK r : r = call'[u].roomId /\ r = call[u].roomId BY <1>6, <2>3
    <3>2. ~Reported(r) BY <1>6, <2>3, <3>1 DEF MInv, RingsUnreported
    <3>3. r # e.mine.roomId BY <1>1, <2>3, <3>1, DeleteRoomFrees DEF HasRoom
    <3>4. ~Reported(r)' BY <2>2, <3>2, <3>3
    <3> QED BY <3>1, <3>4 DEF Reported, MissedIn
  <2>4. RingsUnreported' BY <2>3 DEF RingsUnreported
  <2>5. e.mine.roomId = e.room /\ ~MissedIn(e.room)
    BY <1>2, <1>8 DEF TimeoutOK, Ending
  <2>6. TimeoutOK(f)
    BY <1>4, <2>5 DEF TimeoutOK, MissedIn, MissedOnSide
  <2>7. ASSUME NEW g \in Handlers PROVE TimeoutOK(handler[g])'
    <3>1. TimeoutOK(handler'[g]) BY <2>1, <2>6 DEF MInv, TimeoutsOK
    <3> QED BY <1>5, <3>1 DEF TimeoutOK, MissedIn, MissedOnSide
  <2> QED
    BY <1>5, <2>4, <2>7 DEF MInv, TimeoutsOK, MissedCallOnce, NotifiedIsLogged
<1> QED BY <1>7, <1>8

(* The document a handler writes, and what it adds to the collection.       *)
LEMMA LogAdded ==
    ASSUME IInv, NEW h \in Handlers, NEW side \in Directions, WriteCallLog(h, side),
           NEW d, d = LogOf(handler[h], side)
    PROVE  /\ d.callId = handler[h].mine.roomId /\ d.direction = side
           /\ d.status \in {"missed", "no_answer"} <=> handler[h].op = "ringing-timeout"
           /\ DOMAIN callLogs' = DOMAIN callLogs \cup {d}
           /\ \A x \in DOMAIN callLogs \ {d} : callLogs'[x] = callLogs[x]
           /\ d \notin DOMAIN callLogs => callLogs'[d] = 1
<1>1. PICK f \in Frame : f = handler[h] BY DEF IInv, TypeOK
<1>2. Paired(f) BY <1>1 DEF WriteCallLog, IInv, FramesOK, FrameOK, Ending
<1>3. PICK c \in Call : /\ c = (IF f.mine.direction = side THEN f.mine ELSE f.theirs)
                        /\ c.roomId = f.mine.roomId
  BY <1>2 DEF Paired
<1>4. c.direction = side BY <1>2, <1>3 DEF Paired, Call, Directions
<1>5. PICK s : s = LogStatus(f.op, side) OBVIOUS
<1>6. s \in {"missed", "no_answer"} <=> f.op = "ringing-timeout"
  BY <1>5 DEF LogStatus, Outcome
<1>7. d = [callId |-> c.roomId, userId |-> c.userId, peerUserId |-> c.peerUserId,
           direction |-> c.direction, status |-> s]
  BY <1>1, <1>3, <1>5 DEF LogOf
<1>8. d.callId = c.roomId /\ d.direction = c.direction /\ d.status = s BY <1>7
<1>9. /\ DOMAIN callLogs' = DOMAIN callLogs \cup {d}
      /\ \A x \in DOMAIN callLogs \ {d} : callLogs'[x] = callLogs[x]
      /\ d \notin DOMAIN callLogs => callLogs'[d] = 1
  BY DEF WriteCallLog, BagAdd
<1>10. d.callId = handler[h].mine.roomId /\ d.direction = side BY <1>1, <1>3, <1>4, <1>8
<1>11. d.status \in {"missed", "no_answer"} <=> handler[h].op = "ringing-timeout"
  BY <1>1, <1>6, <1>8
<1> QED BY <1>9, <1>10, <1>11, Zenon

(* A call that did not ring out: what is logged of missed calls is as before. *)
LEMMA OtherLogs ==
    ASSUME IInv, MInv, NEW h \in Handlers, NEW side \in Directions, WriteCallLog(h, side),
           handler[h].op # "ringing-timeout"
    PROVE  MInv'
<1>1. PICK d : d = LogOf(handler[h], side) OBVIOUS
<1>2. /\ d.status \notin {"missed", "no_answer"}
      /\ DOMAIN callLogs' = DOMAIN callLogs \cup {d}
      /\ \A x \in DOMAIN callLogs \ {d} : callLogs'[x] = callLogs[x]
  BY <1>1, LogAdded
<1>3. /\ \A r : MissedIn(r)' <=> MissedIn(r)
      /\ \A r, s : MissedOnSide(r, s)' <=> MissedOnSide(r, s)
  BY <1>2 DEF MissedIn, MissedOnSide, MissedLog
<1>4. UNCHANGED <<call, notifications>> BY DEF WriteCallLog
<1>5. handler[h] \in Frame BY DEF IInv, TypeOK
<1>6. PICK f : Goto(h, f) /\ TimeoutOK(f) /\ ~Reporting(f)
  <2>1. PICK f : f = [handler[h] EXCEPT !.unwritten = @ \ {side}] OBVIOUS
  <2>2. f.op # "ringing-timeout" BY <1>5, <2>1 DEF Frame
  <2>3. TimeoutOK(f) /\ ~Reporting(f) BY <2>2 DEF TimeoutOK, Reporting
  <2>4. Goto(h, f) \/ Goto(h, Returned(handler[h])) BY <1>5, <2>1 DEF WriteCallLog, Frame
  <2> QED BY <2>3, <2>4, ReturnedIsOK
<1>7. \A g \in Handlers : handler'[g] = IF g = h THEN f ELSE handler[g]
  BY <1>6, OthersStay
<1>8. \A r : Reported(r)' => Reported(r) BY <1>3, <1>6, <1>7 DEF Reported
<1>9. RingsUnreported'
  BY <1>4, <1>8 DEF MInv, RingsUnreported, Reported, Reporting, MissedIn
<1>10. ASSUME NEW g \in Handlers PROVE TimeoutOK(handler[g])'
  <2>1. PICK e : e = handler'[g] /\ TimeoutOK(e) BY <1>6, <1>7 DEF MInv, TimeoutsOK
  <2>2. TimeoutOK(e)' BY <1>3, <2>1 DEF TimeoutOK
  <2> QED BY <2>1, <2>2 DEF TimeoutOK, MissedIn, MissedOnSide
<1>11. MissedCallOnce' /\ NotifiedIsLogged'
  BY <1>2, <1>4 DEF MInv, MissedCallOnce, NotifiedIsLogged
<1> QED BY <1>9, <1>10, <1>11 DEF MInv, TimeoutsOK

(* A missed call is logged on the side that was still to be written.        *)
LEMMA MissedCallLogs ==
    ASSUME IInv, MInv, NEW h \in Handlers, NEW side \in Directions, WriteCallLog(h, side),
           handler[h].op = "ringing-timeout"
    PROVE  MInv'
<1>1. PICK d : d = LogOf(handler[h], side) OBVIOUS
<1>2. PICK e \in Frame : e = handler[h] BY DEF IInv, TypeOK
<1>3. /\ e.op = "ringing-timeout" /\ e.at = "log" /\ side \in e.unwritten
      /\ TimeoutOK(e) /\ e.mine.roomId = e.room
  BY <1>2 DEF WriteCallLog, MInv, TimeoutsOK, TimeoutOK, Ending
<1>4. PICK r : r = e.room OBVIOUS
<1>5. /\ MissedLog(d, r) /\ d.direction = side
      /\ DOMAIN callLogs' = DOMAIN callLogs \cup {d}
      /\ \A x \in DOMAIN callLogs \ {d} : callLogs'[x] = callLogs[x]
      /\ d \notin DOMAIN callLogs => callLogs'[d] = 1
  BY <1>1, <1>2, <1>3, <1>4, LogAdded DEF MissedLog
<1>6. d \notin DOMAIN callLogs
  BY <1>3, <1>4, <1>5 DEF TimeoutOK, MissedOnSide
<1>7. /\ \A q : MissedIn(q)' <=> MissedIn(q) \/ q = r
      /\ \A q, s : MissedOnSide(q, s)' <=> MissedOnSide(q, s) \/ (q = r /\ s = side)
  BY <1>5 DEF MissedIn, MissedOnSide, MissedLog
<1>8. UNCHANGED <<call, notifications>> BY DEF WriteCallLog
<1>9. PICK f : /\ Goto(h, f) /\ f.op = "ringing-timeout" /\ f.room = r
               /\ f.mine = e.mine /\ f.unwritten = e.unwritten \ {side}
               /\ f.at = "log" \/ (f.at = "notify" /\ f.unwritten = {})
  <2>1. CASE e.unwritten \ {side} # {}
    <3>1. PICK f : f = [e EXCEPT !.unwritten = e.unwritten \ {side}] OBVIOUS
    <3>2. Goto(h, f) BY <1>2, <2>1, <3>1 DEF WriteCallLog
    <3>3. /\ f.op = e.op /\ f.room = e.room /\ f.mine = e.mine /\ f.at = e.at
          /\ f.unwritten = e.unwritten \ {side}
      BY <3>1 DEF Frame
    <3> QED BY <1>3, <1>4, <3>2, <3>3
  <2>2. CASE e.unwritten \ {side} = {}
    <3>1. PICK f : f = [e EXCEPT !.at = "notify", !.unwritten = {}] OBVIOUS
    <3>2. Goto(h, f) BY <1>2, <1>3, <2>2, <3>1 DEF WriteCallLog
    <3>3. /\ f.op = e.op /\ f.room = e.room /\ f.mine = e.mine /\ f.at = "notify"
          /\ f.unwritten = {}
      BY <3>1 DEF Frame
    <3> QED BY <1>3, <1>4, <2>2, <3>2, <3>3
  <2> QED BY <2>1, <2>2
<1>10. \A g \in Handlers : handler'[g] = IF g = h THEN f ELSE handler[g]
  BY <1>9, OthersStay
<1>11. Reporting(handler[h]) /\ handler[h].mine.roomId = r
  BY <1>2, <1>3, <1>4 DEF Reporting
<1>12. \A q : Reported(q)' => Reported(q)
  BY <1>7, <1>9, <1>10, <1>11, <1>2 DEF Reported
<1>13. RingsUnreported'
  BY <1>8, <1>12 DEF MInv, RingsUnreported, Reported, Reporting, MissedIn
<1>14. ASSUME NEW g \in Handlers PROVE TimeoutOK(handler[g])'
  <2>1. CASE g = h
    <3>1. \A s \in Directions \ f.unwritten : MissedOnSide(r, s)'
      BY <1>3, <1>4, <1>7, <1>9 DEF TimeoutOK, Reporting
    <3>2. \A s \in f.unwritten : ~MissedOnSide(r, s)'
      BY <1>3, <1>4, <1>7, <1>9 DEF TimeoutOK
    <3>3. f.mine.roomId = f.room BY <1>3, <1>4, <1>9
    <3>4. handler'[g] = f BY <1>10, <2>1
    <3> QED BY <1>9, <3>1, <3>2, <3>3, <3>4 DEF TimeoutOK, Reporting, MissedIn, MissedOnSide
  <2>2. CASE g # h
    <3>1. PICK x : x = handler[g] /\ x = handler'[g] /\ TimeoutOK(x)
      BY <1>10, <2>2 DEF MInv, TimeoutsOK
    <3>2. x.op = "ringing-timeout" => x.room # r
      BY <1>2, <1>3, <1>4, <2>2, <3>1 DEF IInv, JobsHeld, RunsJob, JobNames
    <3>3. TimeoutOK(x)' BY <1>7, <3>1, <3>2 DEF TimeoutOK, Reporting
    <3> QED BY <3>1, <3>3 DEF TimeoutOK, Reporting, MissedIn, MissedOnSide
  <2> QED BY <2>1, <2>2
<1>15. MissedCallOnce' /\ NotifiedIsLogged'
  BY <1>5, <1>6, <1>8 DEF MInv, MissedCallOnce, NotifiedIsLogged
<1> QED BY <1>13, <1>14, <1>15 DEF MInv, TimeoutsOK

(* The notification comes when nothing is left to be written.               *)
LEMMA NotificationIsLogged ==
    ASSUME IInv, MInv, NEW h \in Handlers, CreateMissedCallNotification(h)
    PROVE  MInv'
<1>1. PICK e \in Frame : e = handler[h] BY DEF IInv, TypeOK
<1>2. FrameOK(e) /\ TimeoutOK(e) /\ e.at = "notify"
  BY <1>1 DEF CreateMissedCallNotification, IInv, FramesOK, MInv, TimeoutsOK
<1>3. e.op = "ringing-timeout" BY <1>2 DEF FrameOK
<1>4. \A side \in Directions : MissedOnSide(e.mine.roomId, side)
  BY <1>2, <1>3 DEF TimeoutOK, Reporting, Ending
<1>5. call' = call /\ callLogs' = callLogs BY DEF CreateMissedCallNotification
<1>6. \A n \in notifications' \ notifications : n[2] = e.mine.roomId
  BY <1>1 DEF CreateMissedCallNotification
<1>7. NotifiedIsLogged'
  BY <1>4, <1>5, <1>6 DEF MInv, NotifiedIsLogged, MissedOnSide, MissedLog
<1>8. PICK f : Goto(h, f) /\ TimeoutOK(f) /\ ~Reporting(f)
  BY ReturnedIsOK, IdleIsOK DEF CreateMissedCallNotification, Return
<1>9. RingsUnreported' /\ TimeoutsOK' /\ MissedCallOnce'
  BY <1>5, <1>8, UnloggedStep
<1> QED BY <1>7, <1>9 DEF MInv

LEMMA OtherStops ==
    ASSUME IInv, MInv, NEW h \in Handlers,
           CompleteJob(h) \/ AddPendingIceCandidate(h) \/ Abort(h) \/ Stall(h)
    PROVE  MInv'
<1>1. UNCHANGED <<reports, call>>
  BY DEF CompleteJob, AddPendingIceCandidate, Abort, Stall, reports
<1>2. Return(h) \/ Goto(h, Idle)
  BY DEF CompleteJob, AddPendingIceCandidate, Abort, Stall
<1> QED BY <1>1, <1>2, Returns, Stops

(* What only expires, or does not move, reports nothing and rings nowhere.  *)
LEMMA NobodyMoves ==
    ASSUME MInv, UNCHANGED <<handler, reports>>,
           \A u \in Users : call'[u] # None => call'[u] = call[u]
    PROVE  MInv'
<1>1. callLogs' = callLogs /\ notifications' = notifications BY DEF reports
<1>2. \A r : Reported(r)' <=> Reported(r) BY <1>1 DEF Reported, MissedIn
<1>3. ASSUME NEW u \in Users, call'[u] # None, call'[u].status = "ringing"
      PROVE  ~Reported(call[u].roomId)'
  <2>1. PICK r : r = call'[u].roomId /\ r = call[u].roomId BY <1>3
  <2>2. ~Reported(r)' BY <1>2, <1>3, <2>1 DEF MInv, RingsUnreported
  <2> QED BY <2>1, <2>2 DEF Reported, MissedIn
<1>4. TimeoutsOK'
  BY <1>1 DEF MInv, TimeoutsOK, TimeoutOK, MissedIn, MissedOnSide
<1> QED
  BY <1>1, <1>3, <1>4 DEF MInv, RingsUnreported, MissedCallOnce, NotifiedIsLogged

-----------------------------------------------------------------------------
(* MInv is inductive, given IInv. *)

LEMMA MissedInit == Init => MInv
<1> SUFFICES ASSUME Init PROVE MInv OBVIOUS
<1>1. DOMAIN callLogs = {} BY DEF Init, EmptyBag, SetToBag
<1>2. \A h \in Handlers : handler[h] = Idle BY DEF Init
<1>3. RingsUnreported /\ MissedCallOnce /\ NotifiedIsLogged
  BY <1>1 DEF Init, RingsUnreported, MissedCallOnce, NotifiedIsLogged
<1> QED BY <1>2, <1>3, IdleIsOK DEF MInv, TimeoutsOK

LEMMA MissedNext == IInv /\ MInv /\ [Next]_vars => MInv'
<1> SUFFICES ASSUME IInv, MInv, [Next]_vars PROVE MInv' OBVIOUS
<1>1. ASSUME NEW h \in Handlers, StartJob(h) PROVE MInv'
  BY <1>1, StartRingingTimeout, StartMaxDuration DEF StartJob
<1>2. ASSUME NEW h \in Handlers, Resume(h) PROVE MInv'
  <2>1. CASE CheckCalleeBusy(h) \/ ScheduleRingingTimeout(h) \/ ReadCallerToAccept(h)
             \/ ScheduleMaxDurationTimeout(h) \/ RereadOwnCall(h)
    BY <2>1, OfferOrAnswerStep
  <2>2. CASE \E r \in Rooms : CreateCall(h, r) BY <2>2, CreateCallRings
  <2>3. CASE WriteAccepted(h) BY <2>3, WriteAcceptedRings
  <2>4. CASE ReadPeerCall(h) BY <2>4, ReadPeerCallChecks
  <2>5. CASE ReadRoomUsers(h) BY <2>5, ReadRoomUsersGoesOn
  <2>6. CASE DeleteRoom(h) BY <2>6, DeleteRoomReports
  <2>7. CASE \E side \in Directions : WriteCallLog(h, side)
    BY <2>7, OtherLogs, MissedCallLogs
  <2>8. CASE CreateMissedCallNotification(h) BY <2>8, NotificationIsLogged
  <2>9. CASE CompleteJob(h) \/ AddPendingIceCandidate(h) BY <2>9, OtherStops
  <2> QED BY <1>2, <2>1, <2>2, <2>3, <2>4, <2>5, <2>6, <2>7, <2>8, <2>9 DEF Resume
<1>3. CASE Expire
  <2>1. UNCHANGED <<handler, reports>>
    BY <1>3 DEF Expire, ExpireCall, ExpireRoom, ExpireIce, reports
  <2>2. \A u \in Users : call'[u] # None => call'[u] = call[u]
    BY <1>3 DEF Expire, ExpireCall, ExpireRoom, ExpireIce, IInv, TypeOK
  <2> QED BY <2>1, <2>2, NobodyMoves
<1>4. CASE UNCHANGED vars
  <2>1. UNCHANGED <<handler, reports>> /\ call' = call BY <1>4 DEF vars, reports
  <2> QED BY <2>1, NobodyMoves
<1> QED BY <1>1, <1>2, <1>3, <1>4, ClientEventStep, OtherStops DEF Next

LEMMA MissedInvariance == Spec => [](IInv /\ MInv)
<1>1. Init => IInv /\ MInv BY InitStep, MissedInit
<1>2. (IInv /\ MInv) /\ [Next]_vars => (IInv /\ MInv)'
  BY NextStep, MissedNext
<1> QED BY <1>1, <1>2, PTL DEF Spec

(* However often the ringing-timeout job is run, and wherever a run of it   *)
(* dies, registerRingingTimeout logs a missed call at most once per side.   *)
THEOREM MissedOnlyOnce == Spec => []MissedCallOnce
<1>1. MInv => MissedCallOnce BY DEF MInv
<1> QED BY <1>1, MissedInvariance, PTL

(* A user who is told of a missed call finds it in the log, and so does the *)
(* caller: createMissedCallNotification comes after both inserts.           *)
THEOREM NotifiedCallsAreLogged == Spec => []NotifiedIsLogged
<1>1. MInv => NotifiedIsLogged BY DEF MInv
<1> QED BY <1>1, MissedInvariance, PTL

=============================================================================
