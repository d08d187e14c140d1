------------------------ MODULE IsolatedCallsProofs ------------------------
(***************************************************************************)
(* What CallsService promises of handlers that are not busy with one user  *)
(* at the same time (IsolatedSpec), proved for every set of users, rooms   *)
(* and handlers and every fault, although keys expire and the jobs of old  *)
(* calls come late: each participant has one log document of a call, an    *)
(* end deletes no other call's records, and CallSession is implemented,    *)
(* step by step.                                                           *)
(*                                                                         *)
(* The strengthening says that a copy in a frame is CURRENT: between the   *)
(* read and the write that relies on it the record may have expired, but   *)
(* nothing else became of it (UpToDate).  This is what overlapping         *)
(* handlers break.                                                         *)
(***************************************************************************)
EXTENDS MissedCallsProofs, CallsRefinement

Open(r) == session[r] # None /\ session[r].outcome = None

Current(c) == call[c.userId] \in {c, None}

(* The steps before which a handler relies on the record it has read.       *)
Relying == {"acceptPeer", "acceptWrite", "peer", "members", "delete"}

UpToDate(f) ==
    /\ f.at \in {"calleeBusy", "create"} => call[f.from] = None
    /\ f.at = "create" => call[f.to] = None
    /\ f.at = "reread" => call[f.from] = None \/ call[f.from].roomId = f.room
    /\ f.at \in Relying =>
          /\ Current(f.mine) /\ Open(f.mine.roomId)
          /\ f.mine.status = "active" <=> Answered(f.mine.roomId)
    /\ f.at \in {"acceptPeer", "acceptWrite"} => f.mine.status = "ringing"
    /\ f.at \in {"acceptWrite", "members", "delete"} => Current(f.theirs)
    /\ f.at \in {"members", "delete"} /\ f.op \in {"decline", "cancel", "ringing-timeout"} =>
          f.mine.status # "active"
    /\ f.at \in {"peer", "members", "delete"} /\ f.op \in JobNames => f.mine.roomId = f.room
    /\ f.at = "delete" => f.roomUsers \subseteq {f.mine.userId, f.theirs.userId}
    /\ f.at = "log" =>
          /\ session[f.mine.roomId].outcome = Outcome(f.op)
          /\ \A d \in DOMAIN callLogs : d.callId = f.mine.roomId => d.direction \notin f.unwritten

FramesUpToDate ==
    /\ \A h \in Handlers : UpToDate(handler[h])
    /\ \A g, h \in Handlers : g # h /\ handler[g].at = "log" /\ handler[h].at = "log" =>
          handler[g].mine.roomId # handler[h].mine.roomId

RoomsOK ==
    /\ \A r \in Rooms : session[r] # None =>
          session[r].caller # session[r].callee /\ session[r].answers <= 1
    /\ \A u \in Users : call[u] # None => Open(call[u].roomId)

LoggedStatus(outcome, side) ==
    IF outcome = "missed" /\ side = "outgoing" THEN "no_answer" ELSE outcome

LogsOK == \A d \in DOMAIN callLogs :
    /\ session[d.callId].outcome # None
    /\ d.status = LoggedStatus(session[d.callId].outcome, d.direction)
    /\ callLogs[d] = 1

SInv == RoomsOK /\ LogsOK /\ FramesUpToDate

-----------------------------------------------------------------------------
(* Frames that rely on something. *)

LEMMA RelyingFacts ==
    ASSUME IInv, NEW h \in Handlers, handler[h].at \in Relying
    PROVE  LET f == handler[h]
               r == f.mine.roomId
           IN  /\ f.mine \in Call /\ r \in Rooms /\ f.mine.userId \in Users
               /\ session[r] # None /\ session[r] \in Session
               /\ Describes(f.mine, r)
               /\ Involved(f) = {session[r].caller, session[r].callee}
               /\ Involved(f) = {f.mine.userId, f.mine.peerUserId}
<1>1. FrameOK(handler[h]) BY DEF IInv, FramesOK
<1>2. handler[h].mine \in Call
  BY <1>1 DEF FrameOK, Relying, Accepting, Ending, Paired
<1>3. PICK c \in Call : c = handler[h].mine BY <1>2
<1>4. Known(c) /\ c # None BY <1>1, <1>3, ConstantsAssumption DEF FrameOK
<1>5. PICK r \in Rooms : r = c.roomId BY DEF Call
<1>6. session[r] # None /\ session[r] \in Session /\ Describes(c, r)
  BY <1>4, <1>5 DEF Known, Describes, IInv, TypeOK
<1>7. Involved(handler[h]) = {c.userId, c.peerUserId} BY <1>3 DEF Involved, Relying
<1>8. {c.userId, c.peerUserId} = {session[r].caller, session[r].callee}
  BY <1>6 DEF Describes
<1>9. c.userId \in Users BY DEF Call
<1> QED BY <1>3, <1>5, <1>6, <1>7, <1>8, <1>9

LEMMA PairFacts ==
    ASSUME IInv, NEW h \in Handlers, handler[h].at \in {"acceptWrite", "members", "delete"}
    PROVE  LET f == handler[h]
           IN  /\ Paired(f) /\ f.theirs \in Call /\ f.theirs.userId \in Users
               /\ Involved(f) = {f.mine.userId, f.theirs.userId}
<1>1. FrameOK(handler[h]) BY DEF IInv, FramesOK
<1>2. Paired(handler[h]) BY <1>1 DEF FrameOK, Ending
<1>3. PICK c \in Call : c = handler[h].mine BY <1>2 DEF Paired
<1>4. PICK d \in Call : d = handler[h].theirs BY <1>2 DEF Paired
<1>5. Known(c) /\ c # None /\ Known(d) /\ d # None
  BY <1>1, <1>3, <1>4, ConstantsAssumption DEF FrameOK
<1>6. d.userId = c.peerUserId
  BY <1>2, <1>3, <1>4, <1>5 DEF Paired, Known, Describes, Call, Directions
<1>7. Involved(handler[h]) = {c.userId, c.peerUserId}
  BY <1>3 DEF Involved
<1>8. d.userId \in Users BY DEF Call
<1> QED BY <1>2, <1>3, <1>4, <1>6, <1>7, <1>8

LEMMA InvolvedAreUsers ==
    ASSUME IInv, NEW h \in Handlers
    PROVE  Involved(handler[h]) \subseteq Users
<1>1. FrameOK(handler[h]) BY DEF IInv, FramesOK
<1>2. CASE handler[h].at \in {"calleeBusy", "create"}
  BY <1>1, <1>2 DEF FrameOK, Offering, Involved
<1>3. CASE handler[h].at \in Relying
  BY <1>3, RelyingFacts DEF Session
<1>4. CASE handler[h].at = "reread" BY <1>1, <1>4 DEF FrameOK, Involved
<1>5. CASE handler[h].at \notin {"calleeBusy", "create", "reread"} \cup Relying
  BY <1>5 DEF Involved, Relying
<1> QED BY <1>2, <1>3, <1>4, <1>5

(* A frame stays up to date while nobody writes, but to drop them, the      *)
(* records of the users it is involved with, nor touches its room.          *)
LEMMA StaysUpToDate ==
    ASSUME IInv, NEW g \in Handlers, NEW f, f = handler[g], UpToDate(f),
           \A u \in Involved(f) : call'[u] \in {call[u], None},
           f.at \in Relying \cup {"log"} => session'[f.mine.roomId] = session[f.mine.roomId],
           f.at = "log" => \A d \in DOMAIN callLogs' \ DOMAIN callLogs : d.callId # f.mine.roomId
    PROVE  UpToDate(f)'
<1>1. f.at \in {"calleeBusy", "create"} => (call[f.from] = None)'
  BY DEF UpToDate, Involved
<1>2. f.at = "create" => (call[f.to] = None)' BY DEF UpToDate, Involved
<1>3. f.at = "reread" => (call[f.from] = None \/ call[f.from].roomId = f.room)'
  BY DEF UpToDate, Involved
<1>4. ASSUME f.at \in Relying
      PROVE  /\ Current(f.mine)' /\ Open(f.mine.roomId)'
             /\ (f.mine.status = "active" <=> Answered(f.mine.roomId))'
  <2>1. f.mine.userId \in Involved(f) BY <1>4, RelyingFacts
  <2> QED BY <1>4, <2>1 DEF UpToDate, Current, Open, Answered
<1>5. ASSUME f.at \in {"acceptWrite", "members", "delete"} PROVE Current(f.theirs)'
  <2>1. f.theirs.userId \in Involved(f) BY <1>5, PairFacts
  <2> QED BY <1>5, <2>1 DEF UpToDate, Current
<1>6. f.at = "log" =>
         /\ (session[f.mine.roomId].outcome = Outcome(f.op))'
         /\ \A d \in DOMAIN callLogs' : d.callId = f.mine.roomId => d.direction \notin f.unwritten
  BY DEF UpToDate
<1> QED BY <1>1, <1>2, <1>3, <1>4, <1>5, <1>6 DEF UpToDate

LEMMA LoggingFacts ==
    ASSUME IInv, SInv, NEW h \in Handlers, handler[h].at = "log"
    PROVE  LET r == handler[h].mine.roomId
           IN  /\ handler[h].mine \in Call /\ handler[h].mine # None
               /\ r \in Rooms /\ session[r] # None
               /\ session[r].outcome # None
<1>1. FrameOK(handler[h]) BY DEF IInv, FramesOK
<1>2. handler[h].mine \in Call BY <1>1 DEF FrameOK, Ending, Paired
<1>3. PICK c \in Call : c = handler[h].mine BY <1>2
<1>4. Known(c) /\ c # None BY <1>1, <1>3, ConstantsAssumption DEF FrameOK
<1>5. PICK r \in Rooms : r = c.roomId BY DEF Call
<1>6. PICK o \in Outcomes : o = Outcome(handler[h].op) BY DEF Outcome, Outcomes
<1>7. session[r].outcome = o
  BY <1>3, <1>5, <1>6 DEF SInv, FramesUpToDate, UpToDate
<1>8. o # None BY ConstantsAssumption
<1> QED BY <1>3, <1>4, <1>5, <1>7, <1>8 DEF Known, Describes

(* No two handlers rely on the same room.                                   *)
LEMMA RoomsApart ==
    ASSUME IInv, SInv, Isolated, NEW g \in Handlers, NEW h \in Handlers, g # h,
           handler[g].at \in Relying \cup {"log"}, handler[h].at \in Relying
    PROVE  handler[g].mine.roomId # handler[h].mine.roomId
<1>1. Open(handler[h].mine.roomId) BY DEF SInv, FramesUpToDate, UpToDate
<1>2. CASE handler[g].at = "log"
  BY <1>1, <1>2, LoggingFacts DEF Open
<1>3. CASE handler[g].at \in Relying
  <2>1. Involved(handler[g]) \cap Involved(handler[h]) = {} BY DEF Isolated
  <2>2. PICK q : q = handler[g].mine.roomId OBVIOUS
  <2>3. PICK r : r = handler[h].mine.roomId OBVIOUS
  <2>4. Involved(handler[g]) = {session[q].caller, session[q].callee}
    BY <1>3, <2>2, RelyingFacts
  <2>5. Involved(handler[h]) = {session[r].caller, session[r].callee}
    BY <2>3, RelyingFacts
  <2> QED BY <2>1, <2>2, <2>3, <2>4, <2>5
<1> QED BY <1>2, <1>3

(* One handler moves.  It may write the records of the users it is involved *)
(* with, the history of the room it relies on, and the logs of the room it  *)
(* has deleted: nothing another handler relies on.                          *)
LEMMA MovesOn ==
    ASSUME IInv, SInv, Isolated, NEW h \in Handlers, NEW f, Goto(h, f),
           RoomsOK', LogsOK', UpToDate(f)',
           \A u \in Users : call'[u] # call[u] =>
               call'[u] = None \/ u \in Involved(handler[h]),
           \A r \in Rooms : session[r] # None /\ session'[r] # session[r] =>
               handler[h].at \in Relying /\ r = handler[h].mine.roomId,
           \A d \in DOMAIN callLogs' \ DOMAIN callLogs :
               handler[h].at = "log" /\ d.callId = handler[h].mine.roomId,
           f.at = "log" =>
               handler[h].at \in {"delete", "log"} /\ f.mine = handler[h].mine
    PROVE  SInv'
<1>1. \A g \in Handlers : handler'[g] = IF g = h THEN f ELSE handler[g] BY OthersStay
<1>2. ASSUME NEW g \in Handlers, g # h PROVE UpToDate(handler[g])'
  <2>1. PICK x : x = handler[g] OBVIOUS
  <2>2. UpToDate(x) BY <2>1 DEF SInv, FramesUpToDate
  <2>3. ASSUME NEW u \in Involved(x) PROVE call'[u] \in {call[u], None}
    <3>1. u \in Users BY <2>1, <2>3, InvolvedAreUsers
    <3>2. u \notin Involved(handler[h]) BY <1>2, <2>1, <2>3 DEF Isolated
    <3> QED BY <3>1, <3>2
  <2>4. ASSUME x.at \in Relying \cup {"log"}
        PROVE  session'[x.mine.roomId] = session[x.mine.roomId]
    <3>1. x.mine.roomId \in Rooms /\ session[x.mine.roomId] # None
      BY <2>1, <2>4, LoggingFacts, RelyingFacts
    <3>2. handler[h].at \in Relying => x.mine.roomId # handler[h].mine.roomId
      BY <1>2, <2>1, <2>4, RoomsApart
    <3> QED BY <3>1, <3>2
  <2>5. ASSUME x.at = "log", NEW d \in DOMAIN callLogs' \ DOMAIN callLogs
        PROVE  d.callId # x.mine.roomId
    BY <1>2, <2>1, <2>5 DEF SInv, FramesUpToDate
  <2>6. UpToDate(x)' BY <2>1, <2>2, <2>3, <2>4, <2>5, StaysUpToDate
  <2>7. handler'[g] = x BY <1>1, <1>2, <2>1
  <2> QED BY <2>6, <2>7 DEF UpToDate, Open, Current, Answered
<1>3. UpToDate(handler[h])'
  <2>1. handler'[h] = f BY <1>1
  <2> QED BY <2>1 DEF UpToDate, Open, Current, Answered
<1>4. ASSUME NEW g \in Handlers, g # h, f.at = "log", handler[g].at = "log"
      PROVE  f.mine.roomId # handler[g].mine.roomId
  <2>1. CASE handler[h].at = "log" BY <1>4, <2>1 DEF SInv, FramesUpToDate
  <2>2. CASE handler[h].at = "delete" BY <1>4, <2>2, RoomsApart DEF Relying
  <2> QED BY <1>4, <2>1, <2>2
<1>5. ASSUME NEW g \in Handlers, NEW k \in Handlers, g # k,
             handler'[g].at = "log", handler'[k].at = "log"
      PROVE  handler'[g].mine.roomId # handler'[k].mine.roomId
  <2>1. CASE g = h BY <1>1, <1>4, <1>5, <2>1
  <2>2. CASE k = h BY <1>1, <1>4, <1>5, <2>2
  <2>3. CASE g # h /\ k # h BY <1>1, <1>5, <2>3 DEF SInv, FramesUpToDate
  <2> QED BY <2>1, <2>2, <2>3
<1>6. FramesUpToDate' BY <1>2, <1>3, <1>5 DEF FramesUpToDate
<1> QED BY <1>6 DEF SInv

-----------------------------------------------------------------------------
(* Steps that only read, or write nothing a handler relies on. *)

Resting == {"idle", "scheduleRinging", "scheduleMax", "notify", "complete", "icePush"}

LEMMA RestingIsUpToDate == ASSUME NEW f, f.at \in Resting PROVE UpToDate(f)
  BY DEF Resting, Relying, UpToDate

LEMMA ReturnedRests == ASSUME NEW f PROVE Returned(f).at \in Resting
<1>1. CASE f.op \in JobNames
  <2>1. Returned(f) = [at |-> "complete", op |-> f.op, from |-> None, to |-> None,
                       room |-> f.room, mine |-> None, theirs |-> None,
                       roomUsers |-> {}, unwritten |-> {}]
    BY <1>1 DEF Returned, Idle
  <2>2. Returned(f).at = "complete" BY <2>1
  <2> QED BY <2>2 DEF Resting
<1>2. CASE f.op \notin JobNames BY <1>2 DEF Returned, Idle, Resting
<1> QED BY <1>1, <1>2

LEMMA ReadingStep ==
    ASSUME IInv, SInv, Isolated, NEW h \in Handlers, NEW f, Goto(h, f),
           UNCHANGED <<call, callLogs, session>>, UpToDate(f), f.at # "log"
    PROVE  SInv'
<1>1. RoomsOK' BY DEF SInv, RoomsOK, Open
<1>2. LogsOK' BY DEF SInv, LogsOK
<1>3. UpToDate(f)' BY DEF UpToDate, Open, Current, Answered
<1> QED BY <1>1, <1>2, <1>3, MovesOn

LEMMA RestingStep ==
    ASSUME IInv, SInv, Isolated, NEW h \in Handlers, NEW f, Goto(h, f),
           UNCHANGED <<call, callLogs, session>>, f.at \in Resting
    PROVE  SInv'
  BY RestingIsUpToDate, ReadingStep DEF Resting

LEMMA ReturningStep ==
    ASSUME IInv, SInv, Isolated, NEW h \in Handlers, Return(h),
           UNCHANGED <<call, callLogs, session>>
    PROVE  SInv'
  BY ReturnedRests, RestingStep DEF Return

(* A record just read.                                                      *)
LEMMA FreshCopy ==
    ASSUME IInv, SInv, NEW u \in Users, call[u] # None, NEW c, c = call[u]
    PROVE  /\ c \in Call /\ c.userId = u /\ Describes(c, c.roomId)
           /\ Current(c) /\ Open(c.roomId)
           /\ c.status = "active" <=> Answered(c.roomId)
<1>1. c \in Call /\ c.userId = u /\ Known(c) BY ReadIsKnown
<1>2. Open(c.roomId) BY DEF SInv, RoomsOK
<1>3. c.status = "active" <=> Answered(c.roomId)
  BY DEF IInv, Store, ActiveIffAnswered
<1> QED BY <1>1, <1>2, <1>3 DEF Known, Current

LEMMA InitiateCallUpToDate ==
    ASSUME IInv, SInv, Isolated, NEW h \in Handlers, NEW u \in Users, NEW v \in Users,
           InitiateCall(h, u, v)
    PROVE  SInv'
<1>1. PICK f : f = [Idle EXCEPT !.at = "calleeBusy", !.op = "offer", !.from = u, !.to = v]
  OBVIOUS
<1>2. f.at = "calleeBusy" /\ f.from = u BY <1>1 DEF Idle
<1>3. Goto(h, f) /\ call[u] = None BY <1>1 DEF InitiateCall
<1>4. UpToDate(f) BY <1>2, <1>3 DEF UpToDate, Relying
<1> QED BY <1>2, <1>3, <1>4, ReadingStep DEF InitiateCall, stored

LEMMA CheckCalleeBusyUpToDate ==
    ASSUME IInv, SInv, Isolated, NEW h \in Handlers, CheckCalleeBusy(h)
    PROVE  SInv'
<1>1. CASE Return(h) BY <1>1, ReturningStep DEF CheckCalleeBusy, stored
<1>2. CASE call[handler[h].to] = None /\ Advance(h, "create")
  <2>1. PICK e \in Frame : e = handler[h] BY DEF IInv, TypeOK
  <2>2. PICK f : f = [e EXCEPT !.at = "create"] OBVIOUS
  <2>3. f.at = "create" /\ f.from = e.from /\ f.to = e.to BY <2>2 DEF Frame
  <2>4. call[e.from] = None
    BY <2>1 DEF CheckCalleeBusy, SInv, FramesUpToDate, UpToDate
  <2>5. UpToDate(f) BY <1>2, <2>1, <2>3, <2>4 DEF UpToDate, Relying
  <2>6. Goto(h, f) BY <1>2, <2>1, <2>2 DEF Advance
  <2> QED BY <2>3, <2>5, <2>6, ReadingStep DEF CheckCalleeBusy, stored
<1> QED BY <1>1, <1>2 DEF CheckCalleeBusy

LEMMA AcceptCallUpToDate ==
    ASSUME IInv, SInv, Isolated, NEW h \in Handlers, NEW u \in Users, AcceptCall(h, u)
    PROVE  SInv'
<1>1. PICK c : c = call[u] OBVIOUS
<1>2. c # None /\ c.status = "ringing" BY <1>1 DEF AcceptCall
<1>3. PICK f : f = [Idle EXCEPT !.at = "acceptPeer", !.op = "answer", !.from = u, !.mine = c]
  OBVIOUS
<1>4. f.at = "acceptPeer" /\ f.mine = c BY <1>3 DEF Idle
<1>5. Goto(h, f) BY <1>1, <1>3 DEF AcceptCall
<1>6. UpToDate(f) BY <1>1, <1>2, <1>4, FreshCopy DEF UpToDate, Relying
<1> QED BY <1>4, <1>5, <1>6, ReadingStep DEF AcceptCall, stored

LEMMA HangupUpToDate ==
    ASSUME IInv, SInv, Isolated, NEW h \in Handlers, NEW u \in Users,
           NEW op \in {"decline", "cancel", "end"}, Hangup(h, op, u)
    PROVE  SInv'
<1>1. PICK c : c = call[u] OBVIOUS
<1>2. c # None BY <1>1 DEF Hangup
<1>3. PICK f : f = [Idle EXCEPT !.at = "peer", !.op = op, !.from = u, !.mine = c]
  OBVIOUS
<1>4. f.at = "peer" /\ f.op = op /\ f.mine = c BY <1>3 DEF Idle
<1>5. Goto(h, f) BY <1>1, <1>3 DEF Hangup
<1>6. UpToDate(f) BY <1>1, <1>2, <1>4, FreshCopy DEF UpToDate, Relying, JobNames
<1> QED BY <1>4, <1>5, <1>6, ReadingStep DEF Hangup, stored

LEMMA HandleIceCandidateUpToDate ==
    ASSUME IInv, SInv, Isolated, NEW h \in Handlers, NEW u \in Users,
           HandleIceCandidate(h, u)
    PROVE  SInv'
  BY RestingStep DEF HandleIceCandidate, Idle, Resting, stored

LEMMA TimeoutRingingCallUpToDate ==
    ASSUME IInv, SInv, Isolated, NEW h \in Handlers, NEW r \in Rooms,
           TimeoutRingingCall(h, r)
    PROVE  SInv'
<1> DEFINE u == jobs["ringing-timeout"][r].userId
           f == [Idle EXCEPT !.at = "peer", !.op = "ringing-timeout", !.from = u,
                             !.room = r, !.mine = call[u]]
<1>1. UNCHANGED <<call, callLogs, session>> BY DEF TimeoutRingingCall
<1>2. CASE ~HasRoom(call[u], r)
  <2>1. Goto(h, Returned(f)) BY <1>2 DEF TimeoutRingingCall
  <2> HIDE DEF f
  <2> QED BY <1>1, <2>1, ReturnedRests, RestingStep
<1>3. CASE HasRoom(call[u], r)
  <2>1. Goto(h, f) BY <1>3 DEF TimeoutRingingCall
  <2>2. f.at = "peer" /\ f.op = "ringing-timeout" /\ f.room = r /\ f.mine = call[u]
    BY DEF Idle
  <2>3. u \in Users
    BY DEF TimeoutRingingCall, Dispatch, IInv, TypeOK, JobState, JobNames
  <2>4. PICK c : c = call[u] /\ c # None /\ c.roomId = r BY <1>3 DEF HasRoom
  <2> HIDE DEF f, u
  <2>5. UpToDate(f) BY <2>2, <2>3, <2>4, FreshCopy DEF UpToDate, Relying
  <2> QED BY <1>1, <2>1, <2>2, <2>5, ReadingStep
<1> QED BY <1>2, <1>3

LEMMA EndCallByRoomUpToDate ==
    ASSUME IInv, SInv, Isolated, NEW h \in Handlers, NEW r \in Rooms,
           EndCallByRoom(h, r)
    PROVE  SInv'
<1> DEFINE u == jobs["max-duration"][r].userId
           f == [Idle EXCEPT !.at = "reread", !.op = "max-duration", !.from = u, !.room = r]
<1>1. UNCHANGED <<call, callLogs, session>> BY DEF EndCallByRoom
<1>2. CASE ~HasRoom(call[u], r)
  <2>1. Goto(h, Returned(f)) BY <1>2 DEF EndCallByRoom
  <2> HIDE DEF f
  <2> QED BY <1>1, <2>1, ReturnedRests, RestingStep
<1>3. CASE HasRoom(call[u], r)
  <2>1. Goto(h, f) BY <1>3 DEF EndCallByRoom
  <2>2. f.at = "reread" /\ f.room = r /\ f.from = u BY DEF Idle
  <2> HIDE DEF f, u
  <2>3. UpToDate(f) BY <1>3, <2>2 DEF HasRoom, UpToDate, Relying
  <2> QED BY <1>1, <2>1, <2>2, <2>3, ReadingStep
<1> QED BY <1>2, <1>3

LEMMA ReadCallerToAcceptUpToDate ==
    ASSUME IInv, SInv, Isolated, NEW h \in Handlers, ReadCallerToAccept(h)
    PROVE  SInv'
<1>1. PICK e \in Frame : e = handler[h] BY DEF IInv, TypeOK
<1>2. PICK c : c = call[e.mine.peerUserId] OBVIOUS
<1>3. CASE Return(h) BY <1>3, ReturningStep DEF ReadCallerToAccept, stored
<1>4. CASE /\ Acceptable(e.mine, c)
           /\ Goto(h, [e EXCEPT !.at = "acceptWrite", !.theirs = c])
  <2>1. e.at = "acceptPeer" /\ UpToDate(e)
    BY <1>1 DEF ReadCallerToAccept, SInv, FramesUpToDate
  <2>2. e.mine \in Call BY <1>1, <2>1, RelyingFacts DEF Relying
  <2>3. Current(c) BY <1>2, <1>4, <2>2, FreshCopy DEF Acceptable, Call
  <2>4. PICK f : f = [e EXCEPT !.at = "acceptWrite", !.theirs = c] OBVIOUS
  <2>5. f.at = "acceptWrite" /\ f.mine = e.mine /\ f.theirs = c BY <2>4 DEF Frame
  <2>6. UpToDate(f) BY <2>1, <2>3, <2>5 DEF UpToDate, Relying
  <2> QED BY <1>4, <2>4, <2>5, <2>6, ReadingStep DEF ReadCallerToAccept, stored
<1> QED BY <1>1, <1>2, <1>3, <1>4 DEF ReadCallerToAccept

LEMMA RereadOwnCallUpToDate ==
    ASSUME IInv, SInv, Isolated, NEW h \in Handlers, RereadOwnCall(h)
    PROVE  SInv'
<1>1. PICK e \in Frame : e = handler[h] BY DEF IInv, TypeOK
<1>2. PICK c : c = call[e.from] OBVIOUS
<1>3. CASE Return(h) BY <1>3, ReturningStep DEF RereadOwnCall, stored
<1>4. CASE c # None /\ Goto(h, [e EXCEPT !.at = "peer", !.mine = c])
  <2>1. e.at = "reread" /\ UpToDate(e) /\ FrameOK(e)
    BY <1>1 DEF RereadOwnCall, SInv, FramesUpToDate, IInv, FramesOK
  <2>2. e.from \in Users BY <2>1 DEF FrameOK
  <2>3. c.roomId = e.room BY <1>2, <1>4, <2>1 DEF UpToDate
  <2>4. PICK f : f = [e EXCEPT !.at = "peer", !.mine = c] OBVIOUS
  <2>5. f.at = "peer" /\ f.mine = c /\ f.room = e.room BY <2>4 DEF Frame
  <2>6. UpToDate(f) BY <1>2, <1>4, <2>2, <2>3, <2>5, FreshCopy DEF UpToDate, Relying
  <2> QED BY <1>4, <2>4, <2>5, <2>6, ReadingStep DEF RereadOwnCall, stored
<1> QED BY <1>1, <1>2, <1>3, <1>4 DEF RereadOwnCall

LEMMA ReadPeerCallUpToDate ==
    ASSUME IInv, SInv, Isolated, NEW h \in Handlers, ReadPeerCall(h)
    PROVE  SInv'
<1>1. PICK e \in Frame : e = handler[h] BY DEF IInv, TypeOK
<1>2. PICK c : c = call[e.mine.peerUserId] OBVIOUS
<1>3. CASE Return(h) BY <1>3, ReturningStep DEF ReadPeerCall, stored
<1>4. CASE /\ Endable(e.op, e.mine, c)
           /\ Goto(h, [e EXCEPT !.at = "members", !.theirs = c])
  <2>1. e.at = "peer" /\ UpToDate(e)
    BY <1>1 DEF ReadPeerCall, SInv, FramesUpToDate
  <2>2. e.mine \in Call BY <1>1, <2>1, RelyingFacts DEF Relying
  <2>3. Current(c) BY <1>2, <1>4, <2>2, FreshCopy DEF Endable, Call
  <2>4. e.op \in {"decline", "cancel", "ringing-timeout"} => e.mine.status # "active"
    BY <1>4 DEF Endable, Unanswered
  <2>5. PICK f : f = [e EXCEPT !.at = "members", !.theirs = c] OBVIOUS
  <2>6. /\ f.at = "members" /\ f.mine = e.mine /\ f.theirs = c
        /\ f.op = e.op /\ f.room = e.room
    BY <2>5 DEF Frame
  <2>7. UpToDate(f) BY <2>1, <2>3, <2>4, <2>6 DEF UpToDate, Relying
  <2> QED BY <1>4, <2>5, <2>6, <2>7, ReadingStep DEF ReadPeerCall, stored
<1> QED BY <1>1, <1>2, <1>3, <1>4 DEF ReadPeerCall

LEMMA ReadRoomUsersUpToDate ==
    ASSUME IInv, SInv, Isolated, NEW h \in Handlers, ReadRoomUsers(h)
    PROVE  SInv'
<1>1. PICK e \in Frame : e = handler[h] BY DEF IInv, TypeOK
<1>2. e.at = "members" /\ UpToDate(e)
  BY <1>1 DEF ReadRoomUsers, SInv, FramesUpToDate
<1>3. PICK r \in Rooms : r = e.mine.roomId BY <1>1, <1>2, RelyingFacts DEF Relying
<1>4. Involved(e) = {session[r].caller, session[r].callee}
  BY <1>1, <1>2, <1>3, RelyingFacts DEF Relying
<1>5. Involved(e) = {e.mine.userId, e.theirs.userId} BY <1>1, <1>2, PairFacts
<1>6. members[r] \subseteq {e.mine.userId, e.theirs.userId}
  BY <1>4, <1>5 DEF IInv, Store, PartiesAgree, MembersAgree
<1>7. PICK f : f = [e EXCEPT !.at = "delete", !.roomUsers = members[r]] OBVIOUS
<1>8. /\ f.at = "delete" /\ f.mine = e.mine /\ f.theirs = e.theirs
      /\ f.op = e.op /\ f.room = e.room /\ f.roomUsers = members[r]
  BY <1>7 DEF Frame
<1>9. UpToDate(f) BY <1>2, <1>6, <1>8 DEF UpToDate, Relying
<1>10. Goto(h, f) BY <1>1, <1>3, <1>7 DEF ReadRoomUsers
<1> QED BY <1>8, <1>9, <1>10, ReadingStep DEF ReadRoomUsers, stored

(* What follows the writes, and what stops a handler.                       *)
LEMMA RestUpToDate ==
    ASSUME IInv, SInv, Isolated, NEW h \in Handlers,
           \/ ScheduleRingingTimeout(h) \/ ScheduleMaxDurationTimeout(h)
           \/ AddPendingIceCandidate(h) \/ CreateMissedCallNotification(h)
           \/ CompleteJob(h) \/ Abort(h) \/ Stall(h)
    PROVE  SInv'
<1>1. UNCHANGED <<call, callLogs, session>>
  BY DEF ScheduleRingingTimeout, ScheduleMaxDurationTimeout, AddPendingIceCandidate,
         CreateMissedCallNotification, CompleteJob, Abort, Stall
<1>2. Return(h) \/ Goto(h, Idle)
  BY DEF ScheduleRingingTimeout, ScheduleMaxDurationTimeout, AddPendingIceCandidate,
         CreateMissedCallNotification, CompleteJob, Abort, Stall
<1>3. Idle.at \in Resting BY DEF Idle, Resting
<1> QED BY <1>1, <1>2, <1>3, ReturningStep, RestingStep

(* Expiry, and steps of nothing at all.                                     *)
LEMMA NobodyMovesUpToDate ==
    ASSUME IInv, SInv, UNCHANGED <<callLogs, session, handler>>,
           \A u \in Users : call'[u] \in {call[u], None}
    PROVE  SInv'
<1>1. RoomsOK' BY DEF SInv, RoomsOK, Open
<1>2. LogsOK' BY DEF SInv, LogsOK
<1>3. ASSUME NEW g \in Handlers PROVE UpToDate(handler[g])'
  <2>1. PICK x : x = handler[g] OBVIOUS
  <2>2. UpToDate(x) BY <2>1 DEF SInv, FramesUpToDate
  <2>3. Involved(x) \subseteq Users BY <2>1, InvolvedAreUsers
  <2>4. UpToDate(x)' BY <2>1, <2>2, <2>3, StaysUpToDate
  <2> QED BY <2>1, <2>4 DEF UpToDate, Open, Current, Answered
<1> QED BY <1>1, <1>2, <1>3 DEF SInv, FramesUpToDate

LEMMA ExpireUpToDate == ASSUME IInv, SInv, Expire PROVE SInv'
<1>1. \A u \in Users : call'[u] \in {call[u], None}
  BY DEF Expire, ExpireCall, ExpireRoom, ExpireIce, IInv, TypeOK
<1> QED BY <1>1, NobodyMovesUpToDate DEF Expire, ExpireCall, ExpireRoom, ExpireIce

-----------------------------------------------------------------------------
(* Steps that write. *)

(* A call starts between two users who are in none.                         *)
LEMMA CreateCallEffect ==
    ASSUME IInv, SInv, NEW h \in Handlers, NEW r \in Rooms, CreateCall(h, r)
    PROVE  \E u, v \in Users, s \in Session :
               /\ u # v /\ Involved(handler[h]) = {u, v}
               /\ call[u] = None /\ call[v] = None /\ session[r] = None
               /\ s.caller = u /\ s.callee = v /\ s.answers = 0 /\ s.outcome = None
               /\ \A q \in Rooms : session'[q] = IF q = r THEN s ELSE session[q]
               /\ \A w \in {u, v} : call'[w] # None /\ call'[w].roomId = r
               /\ \A w \in Users \ {u, v} : call'[w] = call[w]
<1>1. PICK e \in Frame : e = handler[h] BY DEF IInv, TypeOK
<1>2. e.at = "create" /\ UpToDate(e) /\ FrameOK(e)
  BY <1>1 DEF CreateCall, SInv, FramesUpToDate, IInv, FramesOK
<1>3. PICK u \in Users, v \in Users : u = e.from /\ v = e.to /\ u # v
  BY <1>2 DEF FrameOK, Offering
<1>4. PICK c \in Call : c = OutgoingCall(u, v, r, "calling")
  BY DEF OutgoingCall, Call, Directions, Statuses
<1>5. PICK d \in Call : d = IncomingCall(v, u, r, "ringing")
  BY DEF IncomingCall, Call, Directions, Statuses
<1>6. c.roomId = r /\ d.roomId = r BY <1>4, <1>5 DEF OutgoingCall, IncomingCall
<1>7. PICK s \in Session : s = [caller |-> u, callee |-> v, answers |-> 0, outcome |-> None]
  BY DEF Session
<1>8. s.caller = u /\ s.callee = v /\ s.answers = 0 /\ s.outcome = None BY <1>7
<1>9. /\ call' = [call EXCEPT ![u] = c, ![v] = d]
      /\ session[r] = None /\ session' = [session EXCEPT ![r] = s]
  BY <1>1, <1>3, <1>4, <1>5, <1>7 DEF CreateCall
<1>10. \A w \in Users : call'[w] = IF w = v THEN d ELSE IF w = u THEN c ELSE call[w]
  BY <1>9 DEF IInv, TypeOK
<1>11. \A q \in Rooms : session'[q] = IF q = r THEN s ELSE session[q]
  BY <1>9 DEF IInv, TypeOK
<1>12. Involved(handler[h]) = {u, v} BY <1>1, <1>2, <1>3 DEF Involved
<1>13. call[u] = None /\ call[v] = None BY <1>2, <1>3 DEF UpToDate
<1>14. /\ \A w \in {u, v} : call'[w] # None /\ call'[w].roomId = r
       /\ \A w \in Users \ {u, v} : call'[w] = call[w]
  BY <1>6, <1>10, ConstantsAssumption
<1> WITNESS u \in Users, v \in Users, s \in Session
<1> QED BY <1>3, <1>8, <1>9, <1>11, <1>12, <1>13, <1>14

LEMMA CreateCallUpToDate ==
    ASSUME IInv, SInv, Isolated, NEW h \in Handlers, NEW r \in Rooms, CreateCall(h, r)
    PROVE  SInv'
<1>1. PICK u \in Users, v \in Users, s \in Session :
         /\ u # v /\ Involved(handler[h]) = {u, v} /\ session[r] = None
         /\ s.caller = u /\ s.callee = v /\ s.answers = 0 /\ s.outcome = None
         /\ \A q \in Rooms : session'[q] = IF q = r THEN s ELSE session[q]
         /\ \A w \in {u, v} : call'[w] # None /\ call'[w].roomId = r
         /\ \A w \in Users \ {u, v} : call'[w] = call[w]
  BY CreateCallEffect
<1>2. \A q \in Rooms : session'[q] # None =>
         session'[q].caller # session'[q].callee /\ session'[q].answers <= 1
  BY <1>1 DEF SInv, RoomsOK
<1>3. ASSUME NEW w \in Users, call'[w] # None PROVE Open(call[w].roomId)'
  <2>1. CASE w \in {u, v} BY <1>1, <2>1, ConstantsAssumption DEF Open
  <2>2. CASE w \notin {u, v}
    <3>1. call'[w] = call[w] BY <1>1, <2>2
    <3>2. PICK q \in Rooms : q = call[w].roomId /\ Open(q)
      BY <1>3, <3>1, FreshCopy DEF Call
    <3>3. q # r BY <1>1, <3>2 DEF Open
    <3> QED BY <1>1, <3>1, <3>2, <3>3 DEF Open
  <2> QED BY <2>1, <2>2
<1>4. RoomsOK' BY <1>2, <1>3 DEF RoomsOK
<1>5. ASSUME NEW l \in DOMAIN callLogs PROVE session'[l.callId] = session[l.callId]
  <2>1. l.callId \in Rooms /\ session[l.callId] # None
    BY DEF IInv, TypeOK, LogDoc, Store, PartiesAgree, LogsAgree, Describes
  <2> QED BY <1>1, <2>1
<1>6. callLogs' = callLogs BY DEF CreateCall
<1>7. LogsOK' BY <1>5, <1>6 DEF SInv, LogsOK
<1>8. PICK f : f = [handler[h] EXCEPT !.at = "scheduleRinging", !.room = r] OBVIOUS
<1>9. Goto(h, f) BY <1>8 DEF CreateCall
<1>10. f.at = "scheduleRinging" BY <1>8 DEF IInv, TypeOK, Frame
<1>11. UpToDate(f)' BY <1>10 DEF UpToDate, Relying
<1>12. \A w \in Users : call'[w] # call[w] => w \in Involved(handler[h]) BY <1>1
<1>13. \A q \in Rooms : session[q] # None => session'[q] = session[q] BY <1>1
<1> QED BY <1>4, <1>6, <1>7, <1>9, <1>10, <1>11, <1>12, <1>13, MovesOn

(* A call is answered that nobody answered before, in whose stead its users *)
(* are in no other; a record that expired meanwhile is written again.       *)
LEMMA WriteAcceptedEffect ==
    ASSUME IInv, SInv, NEW h \in Handlers, WriteAccepted(h)
    PROVE  \E r \in Rooms, s \in Session :
               /\ handler[h].at \in Relying /\ r = handler[h].mine.roomId
               /\ session[r] \in Session /\ Open(r)
               /\ Involved(handler[h]) = {session[r].caller, session[r].callee}
               /\ session[r].answers = 0 /\ s.answers = 1 /\ s.outcome = None
               /\ s.caller = session[r].caller /\ s.callee = session[r].callee
               /\ \A q \in Rooms : session'[q] = IF q = r THEN s ELSE session[q]
               /\ \A w \in Involved(handler[h]) :
                      /\ call[w] # None => call[w].roomId = r
                      /\ call'[w] # None /\ call'[w].roomId = r
               /\ \A w \in Users \ Involved(handler[h]) : call'[w] = call[w]
<1>1. PICK e \in Frame : e = handler[h] BY DEF IInv, TypeOK
<1>2. e.at = "acceptWrite" /\ UpToDate(e) /\ FrameOK(e)
  BY <1>1 DEF WriteAccepted, SInv, FramesUpToDate, IInv, FramesOK
<1>3. PICK c \in Call : c = e.mine BY <1>1, <1>2, PairFacts DEF Paired
<1>4. PICK d \in Call : d = e.theirs BY <1>1, <1>2, PairFacts DEF Paired
<1>5. PICK r \in Rooms : r = c.roomId /\ r = d.roomId
  BY <1>1, <1>2, <1>3, <1>4, PairFacts DEF Paired, Call
<1>6. /\ session[r] \in Session /\ session[r] # None
      /\ Involved(handler[h]) = {session[r].caller, session[r].callee}
  BY <1>1, <1>2, <1>3, <1>5, RelyingFacts DEF Relying
<1>7. Open(r) /\ session[r].outcome = None /\ session[r].answers = 0
  <2>1. Open(r) /\ ~Answered(r)
    BY <1>2, <1>3, <1>5 DEF UpToDate, Relying
  <2> QED BY <1>6, <2>1 DEF Open, Answered, Session
<1>8. PICK s \in Session : s = [session[r] EXCEPT !.answers = 1]
  BY <1>6 DEF Session
<1>9. /\ s.caller = session[r].caller /\ s.callee = session[r].callee
      /\ s.answers = 1 /\ s.outcome = None
  BY <1>6, <1>7, <1>8 DEF Session
<1>10. session' = [session EXCEPT ![r] = s]
  BY <1>1, <1>3, <1>5, <1>7, <1>8 DEF WriteAccepted, IInv, TypeOK
<1>11. \A q \in Rooms : session'[q] = IF q = r THEN s ELSE session[q]
  BY <1>10 DEF IInv, TypeOK
<1>12. PICK a \in Call : a = [c EXCEPT !.status = "active"] BY DEF Call, Statuses
<1>13. PICK b \in Call : b = [d EXCEPT !.status = "active"] BY DEF Call, Statuses
<1>14. a.roomId = r /\ b.roomId = r BY <1>5, <1>12, <1>13 DEF Call
<1>15. c.userId = e.from BY <1>2, <1>3 DEF FrameOK, Accepting
<1>16. call' = [call EXCEPT ![c.userId] = a, ![d.userId] = b]
  BY <1>1, <1>3, <1>4, <1>12, <1>13, <1>15 DEF WriteAccepted
<1>17. \A w \in Users : call'[w] =
          IF w = d.userId THEN b ELSE IF w = c.userId THEN a ELSE call[w]
  BY <1>16 DEF IInv, TypeOK
<1>18. Involved(handler[h]) = {c.userId, d.userId} BY <1>1, <1>2, <1>3, <1>4, PairFacts
<1>19. c.userId \in Users /\ d.userId \in Users BY DEF Call
<1>20. call[c.userId] \in {c, None} /\ call[d.userId] \in {d, None}
  BY <1>2, <1>3, <1>4 DEF UpToDate, Relying, Current
<1>21. \A w \in Involved(handler[h]) :
          /\ call[w] # None => call[w].roomId = r
          /\ call'[w] # None /\ call'[w].roomId = r
  BY <1>5, <1>14, <1>17, <1>18, <1>19, <1>20, ConstantsAssumption
<1>22. \A w \in Users \ Involved(handler[h]) : call'[w] = call[w] BY <1>17, <1>18
<1>23. handler[h].at \in Relying /\ r = handler[h].mine.roomId
  BY <1>1, <1>2, <1>3, <1>5 DEF Relying
<1> WITNESS r \in Rooms, s \in Session
<1> QED BY <1>6, <1>7, <1>9, <1>11, <1>21, <1>22, <1>23

LEMMA WriteAcceptedUpToDate ==
    ASSUME IInv, SInv, Isolated, NEW h \in Handlers, WriteAccepted(h)
    PROVE  SInv'
<1>1. PICK r \in Rooms, s \in Session :
         /\ handler[h].at \in Relying /\ r = handler[h].mine.roomId /\ Open(r)
         /\ s.answers = 1 /\ s.outcome = None
         /\ s.caller = session[r].caller /\ s.callee = session[r].callee
         /\ \A q \in Rooms : session'[q] = IF q = r THEN s ELSE session[q]
         /\ \A w \in Involved(handler[h]) : call'[w] # None /\ call'[w].roomId = r
         /\ \A w \in Users \ Involved(handler[h]) : call'[w] = call[w]
  BY WriteAcceptedEffect
<1>2. \A q \in Rooms : session'[q] # None =>
         session'[q].caller # session'[q].callee /\ session'[q].answers <= 1
  BY <1>1 DEF SInv, RoomsOK, Open
<1>3. \A q \in Rooms : Open(q) => session'[q] # None /\ session'[q].outcome = None
  BY <1>1, ConstantsAssumption DEF Open
<1>4. ASSUME NEW w \in Users, call'[w] # None PROVE Open(call[w].roomId)'
  <2>1. PICK q \in Rooms : q = call'[w].roomId /\ Open(q)
    BY <1>1, <1>4, FreshCopy DEF Call
  <2> QED BY <1>3, <2>1 DEF Open
<1>5. RoomsOK' BY <1>2, <1>4 DEF RoomsOK
<1>6. callLogs' = callLogs BY DEF WriteAccepted
<1>7. ASSUME NEW l \in DOMAIN callLogs PROVE session'[l.callId] = session[l.callId]
  <2>1. l.callId \in Rooms BY DEF IInv, TypeOK, LogDoc
  <2>2. l.callId # r BY <1>1 DEF SInv, LogsOK, Open
  <2> QED BY <1>1, <2>1, <2>2
<1>8. LogsOK' BY <1>6, <1>7 DEF SInv, LogsOK
<1>9. PICK f : f = [handler[h] EXCEPT !.at = "scheduleMax", !.room = r] OBVIOUS
<1>10. Goto(h, f) BY <1>1, <1>9 DEF WriteAccepted
<1>11. f.at = "scheduleMax" BY <1>9 DEF IInv, TypeOK, Frame
<1>12. UpToDate(f)' BY <1>11 DEF UpToDate, Relying
<1>13. \A w \in Users : call'[w] # call[w] => w \in Involved(handler[h]) BY <1>1
<1>14. \A q \in Rooms : session'[q] # session[q] => q = handler[h].mine.roomId BY <1>1
<1> QED BY <1>1, <1>5, <1>6, <1>8, <1>10, <1>11, <1>12, <1>13, <1>14, MovesOn

(* A call gets its only outcome, and lets go of its users and of no others. *)
LEMMA DeleteRoomEffect ==
    ASSUME IInv, SInv, NEW h \in Handlers, DeleteRoom(h)
    PROVE  \E r \in Rooms, s \in Session :
               /\ r = handler[h].mine.roomId
               /\ session[r] \in Session /\ Open(r)
               /\ s.caller = session[r].caller /\ s.callee = session[r].callee
               /\ s.answers = session[r].answers /\ s.outcome = Outcome(handler[h].op)
               /\ s.outcome = "completed" <=> Answered(r)
               /\ \A q \in Rooms : session'[q] = IF q = r THEN s ELSE session[q]
               /\ \A w \in Users :
                      call'[w] = IF HasRoom(call[w], r) THEN None ELSE call[w]
<1>1. PICK e \in Frame : e = handler[h] BY DEF IInv, TypeOK
<1>2. e.at = "delete" /\ UpToDate(e) /\ FrameOK(e)
  BY <1>1 DEF DeleteRoom, SInv, FramesUpToDate, IInv, FramesOK
<1>3. PICK c \in Call : c = e.mine BY <1>1, <1>2, PairFacts DEF Paired
<1>4. PICK d \in Call : d = e.theirs BY <1>1, <1>2, PairFacts DEF Paired
<1>5. PICK r \in Rooms : r = c.roomId /\ r = d.roomId
  BY <1>1, <1>2, <1>3, <1>4, PairFacts DEF Paired, Call
<1>6. session[r] \in Session BY <1>1, <1>2, <1>3, <1>5, RelyingFacts DEF Relying
<1>7. Open(r) /\ (c.status = "active" <=> Answered(r))
  BY <1>2, <1>3, <1>5 DEF UpToDate, Relying
<1>8. PICK o \in Outcomes : o = Outcome(e.op) BY DEF Outcome, Outcomes
<1>9. o = "completed" <=> Answered(r)
  <2>1. o = "completed" <=> e.op \notin {"decline", "cancel", "ringing-timeout"}
    BY <1>8 DEF Outcome
  <2>2. e.op \notin {"decline", "cancel", "ringing-timeout"} <=> c.status = "active"
    BY <1>2, <1>3 DEF UpToDate, FrameOK, Ending
  <2> QED BY <1>7, <2>1, <2>2
<1>10. PICK s \in Session : s = [session[r] EXCEPT !.outcome = o] BY <1>6 DEF Session
<1>11. /\ s.caller = session[r].caller /\ s.callee = session[r].callee
       /\ s.answers = session[r].answers /\ s.outcome = o
  BY <1>6, <1>10 DEF Session
<1>12. session' = [session EXCEPT ![r] = s]
  BY <1>1, <1>3, <1>5, <1>8, <1>10 DEF DeleteRoom
<1>13. \A q \in Rooms : session'[q] = IF q = r THEN s ELSE session[q]
  BY <1>12 DEF IInv, TypeOK
<1>14. UsersToDelete(e) = {c.userId, d.userId}
  BY <1>2, <1>3, <1>4 DEF UsersToDelete, UpToDate
<1>15. call[c.userId] \in {c, None} /\ call[d.userId] \in {d, None}
  BY <1>2, <1>3, <1>4 DEF UpToDate, Relying, Current
<1>16. ASSUME NEW w \in Users
       PROVE  call'[w] = IF HasRoom(call[w], r) THEN None ELSE call[w]
  <2>1. call'[w] = IF w \in UsersToDelete(e) THEN None ELSE call[w]
    BY <1>1 DEF DeleteRoom
  <2>2. ~HasRoom(call'[w], r) BY <1>1, <1>3, <1>5, DeleteRoomFrees DEF HasRoom
  <2>3. w \in UsersToDelete(e) => call[w] = None \/ HasRoom(call[w], r)
    BY <1>5, <1>14, <1>15, ConstantsAssumption DEF HasRoom
  <2> QED BY <2>1, <2>2, <2>3
<1> WITNESS r \in Rooms, s \in Session
<1> QED BY <1>1, <1>3, <1>5, <1>6, <1>7, <1>8, <1>9, <1>11, <1>13, <1>16

LEMMA DeleteRoomUpToDate ==
    ASSUME IInv, SInv, Isolated, NEW h \in Handlers, DeleteRoom(h)
    PROVE  SInv'
<1>1. PICK e \in Frame : e = handler[h] BY DEF IInv, TypeOK
<1>2. PICK r \in Rooms, s \in Session :
         /\ r = e.mine.roomId /\ Open(r)
         /\ s.caller = session[r].caller /\ s.callee = session[r].callee
         /\ s.answers = session[r].answers /\ s.outcome = Outcome(e.op)
         /\ \A q \in Rooms : session'[q] = IF q = r THEN s ELSE session[q]
         /\ \A w \in Users : call'[w] = IF HasRoom(call[w], r) THEN None ELSE call[w]
  BY <1>1, DeleteRoomEffect
<1>3. \A q \in Rooms : session'[q] # None =>
         session'[q].caller # session'[q].callee /\ session'[q].answers <= 1
  BY <1>2 DEF SInv, RoomsOK, Open
<1>4. ASSUME NEW w \in Users, call'[w] # None PROVE Open(call[w].roomId)'
  <2>1. call'[w] = call[w] /\ ~HasRoom(call[w], r) BY <1>2, <1>4
  <2>2. PICK q \in Rooms : q = call[w].roomId /\ Open(q)
    BY <1>4, <2>1, FreshCopy DEF Call
  <2>3. q # r BY <1>4, <2>1, <2>2 DEF HasRoom
  <2> QED BY <1>2, <2>1, <2>2, <2>3 DEF Open
<1>5. RoomsOK' BY <1>3, <1>4 DEF RoomsOK
<1>6. callLogs' = callLogs BY DEF DeleteRoom
<1>7. \A l \in DOMAIN callLogs : l.callId # r BY <1>2 DEF SInv, LogsOK, Open
<1>8. ASSUME NEW l \in DOMAIN callLogs PROVE session'[l.callId] = session[l.callId]
  <2>1. l.callId \in Rooms BY DEF IInv, TypeOK, LogDoc
  <2> QED BY <1>2, <1>7, <2>1
<1>9. LogsOK' BY <1>6, <1>8 DEF SInv, LogsOK
<1>10. PICK f : f = [e EXCEPT !.at = "log", !.unwritten = Directions] OBVIOUS
<1>11. Goto(h, f) BY <1>1, <1>10 DEF DeleteRoom
<1>12. f.at = "log" /\ f.op = e.op /\ f.mine = e.mine BY <1>10 DEF Frame
<1>13. (session[f.mine.roomId].outcome = Outcome(f.op))' BY <1>2, <1>12
<1>14. UpToDate(f)' BY <1>2, <1>6, <1>7, <1>12, <1>13 DEF UpToDate, Relying
<1>15. \A w \in Users : call'[w] # call[w] => call'[w] = None BY <1>2
<1>16. \A q \in Rooms : session'[q] # session[q] => q = handler[h].mine.roomId
  BY <1>1, <1>2
<1>17. /\ handler[h].at \in Relying /\ handler[h].at = "delete"
       /\ f.mine = handler[h].mine
  BY <1>1, <1>12 DEF DeleteRoom, Relying
<1> QED BY <1>5, <1>6, <1>9, <1>11, <1>14, <1>15, <1>16, <1>17, MovesOn

LEMMA WriteCallLogUpToDate ==
    ASSUME IInv, SInv, Isolated, NEW h \in Handlers, NEW side \in Directions,
           WriteCallLog(h, side)
    PROVE  SInv'
<1>1. PICK e \in Frame : e = handler[h] BY DEF IInv, TypeOK
<1>2. e.at = "log" /\ UpToDate(e) /\ side \in e.unwritten
  BY <1>1 DEF WriteCallLog, SInv, FramesUpToDate
<1>3. PICK r : r = e.mine.roomId OBVIOUS
<1>4. session[r].outcome # None /\ session[r].outcome = Outcome(e.op)
  BY <1>1, <1>2, <1>3, LoggingFacts DEF UpToDate
<1>5. PICK d : d = LogOf(handler[h], side) OBVIOUS
<1>6. /\ d.callId = r /\ d.direction = side
      /\ DOMAIN callLogs' = DOMAIN callLogs \cup {d}
      /\ \A x \in DOMAIN callLogs \ {d} : callLogs'[x] = callLogs[x]
      /\ d \notin DOMAIN callLogs => callLogs'[d] = 1
  BY <1>1, <1>3, <1>5, LogAdded
<1>7. d \notin DOMAIN callLogs BY <1>2, <1>3, <1>6 DEF UpToDate
<1>8. d.status = LogStatus(e.op, side) BY <1>1, <1>5 DEF LogOf
<1>9. LogStatus(e.op, side) = LoggedStatus(Outcome(e.op), side)
  BY DEF LogStatus, LoggedStatus, Outcome
<1>10. UNCHANGED <<call, session>> BY DEF WriteCallLog
<1>11. RoomsOK' BY <1>10 DEF SInv, RoomsOK, Open
<1>12. ASSUME NEW x \in DOMAIN callLogs'
       PROVE  /\ session[x.callId].outcome # None
              /\ x.status = LoggedStatus(session[x.callId].outcome, x.direction)
              /\ callLogs'[x] = 1
  <2>1. CASE x = d BY <1>4, <1>6, <1>7, <1>8, <1>9, <2>1
  <2>2. CASE x # d BY <1>6, <1>12, <2>2 DEF SInv, LogsOK
  <2> QED BY <2>1, <2>2
<1>13. LogsOK' BY <1>10, <1>12 DEF LogsOK
<1>14. PICK f : /\ Goto(h, f) /\ UpToDate(f)'
                /\ f.at = "log" => f.mine = handler[h].mine
  <2> DEFINE left == e.unwritten \ {side}
  <2>1. CASE left # {}
    <3>1. PICK f : f = [e EXCEPT !.unwritten = left] OBVIOUS
    <3>2. f.at = "log" /\ f.op = e.op /\ f.mine = e.mine /\ f.unwritten = left
      BY <1>2, <3>1 DEF Frame
    <3>3. \A x \in DOMAIN callLogs' : x.callId = r => x.direction \notin left
      BY <1>2, <1>3, <1>6 DEF UpToDate
    <3>4. UpToDate(f)'
      BY <1>3, <1>4, <1>10, <3>2, <3>3 DEF UpToDate, Relying
    <3>5. Goto(h, f) BY <1>1, <2>1, <3>1 DEF WriteCallLog
    <3> QED BY <1>1, <3>2, <3>4, <3>5
  <2>2. CASE left = {} /\ e.op = "ringing-timeout"
    <3>1. PICK f : f = [e EXCEPT !.at = "notify", !.unwritten = {}] OBVIOUS
    <3>2. f.at = "notify" BY <3>1 DEF Frame
    <3>3. UpToDate(f)' BY <3>2 DEF UpToDate, Relying
    <3>4. Goto(h, f) BY <1>1, <2>2, <3>1 DEF WriteCallLog
    <3> QED BY <3>2, <3>3, <3>4
  <2>3. CASE left = {} /\ e.op # "ringing-timeout"
    <3>1. PICK f : f = Returned(e) OBVIOUS
    <3>2. f.at \in Resting BY <3>1, ReturnedRests
    <3>3. UpToDate(f)' BY <3>2 DEF Resting, UpToDate, Relying
    <3>4. Goto(h, f) BY <1>1, <2>3, <3>1 DEF WriteCallLog
    <3> QED BY <3>2, <3>3, <3>4 DEF Resting
  <2> QED BY <2>1, <2>2, <2>3
<1>15. \A x \in DOMAIN callLogs' \ DOMAIN callLogs : x.callId = handler[h].mine.roomId
  BY <1>1, <1>3, <1>6
<1>16. handler[h].at = "log" BY <1>1, <1>2
<1> QED BY <1>10, <1>11, <1>13, <1>14, <1>15, <1>16, MovesOn

-----------------------------------------------------------------------------
(* The invariant *)

LEMMA IsolatedInit == Init => Isolated /\ SInv
<1> SUFFICES ASSUME Init PROVE Isolated /\ SInv OBVIOUS
<1>1. \A h \in Handlers : handler[h] = Idle BY DEF Init
<1>2. Idle.at = "idle" BY DEF Idle
<1>3. Involved(Idle) = {} BY <1>2 DEF Involved
<1>4. Isolated BY <1>1, <1>3 DEF Isolated
<1>5. UpToDate(Idle) BY <1>2, RestingIsUpToDate DEF Resting
<1>6. DOMAIN callLogs = {} BY DEF Init, EmptyBag, SetToBag
<1>7. RoomsOK /\ LogsOK BY <1>6 DEF Init, RoomsOK, LogsOK
<1>8. FramesUpToDate BY <1>1, <1>2, <1>5 DEF FramesUpToDate
<1> QED BY <1>4, <1>7, <1>8 DEF SInv

LEMMA IsolatedNext == IInv /\ SInv /\ Isolated /\ [Next]_vars => SInv'
<1> SUFFICES ASSUME IInv, SInv, Isolated, [Next]_vars PROVE SInv' OBVIOUS
<1>1. ASSUME NEW h \in Handlers, ClientEvent(h) PROVE SInv'
  BY <1>1, InitiateCallUpToDate, AcceptCallUpToDate, HangupUpToDate,
     HandleIceCandidateUpToDate DEF ClientEvent
<1>2. ASSUME NEW h \in Handlers, StartJob(h) PROVE SInv'
  BY <1>2, TimeoutRingingCallUpToDate, EndCallByRoomUpToDate DEF StartJob
<1>3. ASSUME NEW h \in Handlers, Resume(h) PROVE SInv'
  <2>1. CASE CheckCalleeBusy(h) BY <2>1, CheckCalleeBusyUpToDate
  <2>2. CASE \E r \in Rooms : CreateCall(h, r) BY <2>2, CreateCallUpToDate
  <2>3. CASE ReadCallerToAccept(h) BY <2>3, ReadCallerToAcceptUpToDate
  <2>4. CASE WriteAccepted(h) BY <2>4, WriteAcceptedUpToDate
  <2>5. CASE RereadOwnCall(h) BY <2>5, RereadOwnCallUpToDate
  <2>6. CASE ReadPeerCall(h) BY <2>6, ReadPeerCallUpToDate
  <2>7. CASE ReadRoomUsers(h) BY <2>7, ReadRoomUsersUpToDate
  <2>8. CASE DeleteRoom(h) BY <2>8, DeleteRoomUpToDate
  <2>9. CASE \E side \in Directions : WriteCallLog(h, side) BY <2>9, WriteCallLogUpToDate
  <2>10. CASE \/ ScheduleRingingTimeout(h) \/ ScheduleMaxDurationTimeout(h)
              \/ AddPendingIceCandidate(h) \/ CreateMissedCallNotification(h)
              \/ CompleteJob(h)
    BY <2>10, RestUpToDate
  <2> QED BY <1>3, <2>1, <2>2, <2>3, <2>4, <2>5, <2>6, <2>7, <2>8, <2>9, <2>10 DEF Resume
<1>4. CASE UNCHANGED vars BY <1>4, NobodyMovesUpToDate DEF vars
<1> QED BY <1>1, <1>2, <1>3, <1>4, RestUpToDate, ExpireUpToDate DEF Next

LEMMA IsolatedInvariance ==
    IsolatedSpec => [](IInv /\ SInv /\ Isolated) /\ [][Next]_vars
<1>1. Init => IInv /\ SInv /\ Isolated BY InitStep, IsolatedInit
<1>2. IInv /\ SInv /\ Isolated /\ [Next /\ Isolated']_vars
         => (IInv /\ SInv /\ Isolated)'
  <2> SUFFICES ASSUME IInv, SInv, Isolated, [Next /\ Isolated']_vars
               PROVE  IInv' /\ SInv' /\ Isolated'
    OBVIOUS
  <2>1. IInv' /\ SInv' BY NextStep, IsolatedNext
  <2>2. CASE UNCHANGED vars
    <3>1. \A g \in Handlers : Involved(handler[g])' = Involved(handler[g])
      BY <2>2 DEF vars, Involved
    <3> QED BY <2>1, <3>1 DEF Isolated
  <2> QED BY <2>1, <2>2
<1>3. [Next /\ Isolated']_vars => [Next]_vars OBVIOUS
<1> QED BY <1>1, <1>2, <1>3, PTL DEF IsolatedSpec

-----------------------------------------------------------------------------
(* What follows from it. *)

(* One handler at a time is a case of it.                                   *)
LEMMA OneAtATimeIsIsolated ==
    ASSUME \A g, h \in Handlers :
               g # h => handler[g].at = "idle" \/ handler[h].at = "idle"
    PROVE  Isolated
  BY DEF Isolated, Involved

LEMMA OneDocument ==
    ASSUME IInv, SInv, NEW d \in DOMAIN callLogs, NEW e \in DOMAIN callLogs,
           d.callId = e.callId, d.userId = e.userId
    PROVE  d = e
<1>1. d \in LogDoc /\ e \in LogDoc BY DEF IInv, TypeOK
<1>2. Describes(d, d.callId) /\ Describes(e, d.callId)
  BY DEF IInv, Store, PartiesAgree, LogsAgree
<1>3. PICK r \in Rooms : r = d.callId BY <1>1 DEF LogDoc
<1>4. session[r] # None /\ session[r].caller # session[r].callee
  BY <1>2, <1>3 DEF SInv, RoomsOK, Describes
<1>5. d.direction = e.direction
  BY <1>1, <1>2, <1>3, <1>4 DEF Describes, LogDoc, Directions
<1>6. d.peerUserId = e.peerUserId BY <1>2, <1>3, <1>5 DEF Describes
<1>7. d.status = e.status BY <1>5 DEF SInv, LogsOK
<1> QED BY <1>1, <1>5, <1>6, <1>7 DEF LogDoc

(* ... and each participant has at most one document of it: the call has    *)
(* one outcome, whoever else tries to end it and however often.             *)
THEOREM OneOutcomeLogged == IsolatedSpec => []LoggedOnce
<1>1. IInv /\ SInv => LoggedOnce
  BY OneDocument DEF SInv, LogsOK, LoggedOnce
<1> QED BY <1>1, IsolatedInvariance, PTL

(* deleteCallRoom deletes the keys of two users, whatever they now hold:    *)
(* they hold the call that is ended, or nothing.                            *)
THEOREM OtherCallsAreLeftAlone == IsolatedSpec => DeletesOnlyItsCall
<1> DEFINE Only == \A h \in Handlers : Deletes(h) =>
          \A u \in Users : call[u] # None /\ call'[u] = None =>
              call[u].roomId = handler[h].mine.roomId
<1>1. ASSUME IInv, SInv, [Next]_vars PROVE Only
  <2>1. ASSUME NEW h \in Handlers, Deletes(h) PROVE DeleteRoom(h)
    BY <1>1, <2>1, OnlyDeleteRoomDeletes DEF IInv
  <2> QED BY <1>1, <2>1, DeleteRoomEffect DEF HasRoom
<1>2. IsolatedSpec => [][Only]_vars BY <1>1, IsolatedInvariance, PTL
<1> QED BY <1>2 DEF DeletesOnlyItsCall

-----------------------------------------------------------------------------
(* The implementation of CallSession, step by step. *)

LEMMA HoldersAreParties ==
    ASSUME IInv, SInv, NEW r \in Rooms, NEW u \in HeldBy(r)
    PROVE  Open(r) /\ u \in {session[r].caller, session[r].callee}
<1>1. u \in Users /\ call[u] # None /\ call[u].roomId = r BY DEF HeldBy, HasRoom
<1>2. call[u].userId = u /\ Describes(call[u], r) /\ Open(r)
  BY <1>1, FreshCopy
<1> QED BY <1>2 DEF Describes

LEMMA NothingHappens ==
    ASSUME UNCHANGED <<call, callLogs, session>>
    PROVE  UNCHANGED Promise!cvars
<1>1. \A r \in Rooms : PartiesOf(r)' = PartiesOf(r) BY DEF PartiesOf
<1>2. \A r \in Rooms : PhaseOf(r)' = PhaseOf(r) BY DEF PhaseOf, Answered
<1>3. \A r \in Rooms : HeldBy(r)' = HeldBy(r) BY DEF HeldBy
<1>4. Entries' = Entries BY DEF Entries
<1> QED BY <1>1, <1>2, <1>3, <1>4 DEF Promise!cvars

LEMMA CreateCallStarts ==
    ASSUME IInv, SInv, NEW h \in Handlers, NEW r \in Rooms, CreateCall(h, r)
    PROVE  Promise!Next
<1>1. PICK u \in Users, v \in Users, s \in Session :
         /\ u # v /\ call[u] = None /\ call[v] = None /\ session[r] = None
         /\ s.caller = u /\ s.callee = v /\ s.answers = 0 /\ s.outcome = None
         /\ \A q \in Rooms : session'[q] = IF q = r THEN s ELSE session[q]
         /\ \A w \in {u, v} : call'[w] # None /\ call'[w].roomId = r
         /\ \A w \in Users \ {u, v} : call'[w] = call[w]
  BY CreateCallEffect
<1>2. s # None BY ConstantsAssumption
<1>3. PhaseOf(r) = "unborn" /\ PhaseOf(r)' = "ringing"
  BY <1>1, <1>2 DEF PhaseOf, Answered
<1>4. \A q \in Rooms \ {r} : PhaseOf(q)' = PhaseOf(q)
  BY <1>1 DEF PhaseOf, Answered
<1>5. PartiesOf(r)' = {u, v} BY <1>1, <1>2 DEF PartiesOf
<1>6. \A q \in Rooms \ {r} : PartiesOf(q)' = PartiesOf(q) BY <1>1 DEF PartiesOf
<1>7. \A q \in Rooms : u \notin HeldBy(q) /\ v \notin HeldBy(q)
  BY <1>1 DEF HeldBy, HasRoom
<1>8. HeldBy(r)' = {u, v}
  <2>1. HeldBy(r) = {} BY <1>1, HoldersAreParties DEF Open
  <2> QED BY <1>1, <2>1 DEF HeldBy, HasRoom
<1>9. \A q \in Rooms \ {r} : HeldBy(q)' = HeldBy(q)
  BY <1>1 DEF HeldBy, HasRoom
<1>10. Entries' = Entries BY DEF Entries, CreateCall
<1>11. Promise!Claim(r, {u, v})
  BY <1>7, <1>8, <1>9 DEF Promise!Claim, Promise!HeldElsewhere
<1>12. Promise!Start(r, u, v)
  BY <1>1, <1>3, <1>4, <1>5, <1>6, <1>10, <1>11 DEF Promise!Start
<1> QED BY <1>12 DEF Promise!Next

LEMMA WriteAcceptedAnswers ==
    ASSUME IInv, SInv, NEW h \in Handlers, WriteAccepted(h)
    PROVE  Promise!Next
<1>1. PICK r \in Rooms, s \in Session, two \in SUBSET Users :
         /\ two = {session[r].caller, session[r].callee}
         /\ session[r] \in Session /\ Open(r)
         /\ session[r].answers = 0 /\ s.answers = 1 /\ s.outcome = None
         /\ s.caller = session[r].caller /\ s.callee = session[r].callee
         /\ \A q \in Rooms : session'[q] = IF q = r THEN s ELSE session[q]
         /\ \A w \in two : /\ call[w] # None => call[w].roomId = r
                           /\ call'[w] # None /\ call'[w].roomId = r
         /\ \A w \in Users \ two : call'[w] = call[w]
  BY WriteAcceptedEffect, InvolvedAreUsers
<1>2. s # None BY ConstantsAssumption
<1>3. PhaseOf(r) = "ringing" /\ PhaseOf(r)' = "active"
  BY <1>1, <1>2 DEF PhaseOf, Answered, Open
<1>4. \A q \in Rooms \ {r} : PhaseOf(q)' = PhaseOf(q)
  BY <1>1 DEF PhaseOf, Answered
<1>5. PartiesOf(r) = two /\ PartiesOf(r)' = two
  BY <1>1, <1>2 DEF PartiesOf, Open
<1>6. \A q \in Rooms \ {r} : PartiesOf(q)' = PartiesOf(q) BY <1>1 DEF PartiesOf
<1>7. \A q \in Rooms \ {r} : \A w \in two : w \notin HeldBy(q)
  BY <1>1 DEF HeldBy, HasRoom
<1>8. HeldBy(r)' = two
  <2>1. HeldBy(r) \subseteq two BY <1>1, HoldersAreParties
  <2> QED BY <1>1, <2>1 DEF HeldBy, HasRoom
<1>9. \A q \in Rooms \ {r} : HeldBy(q)' = HeldBy(q)
  BY <1>1 DEF HeldBy, HasRoom
<1>10. Entries' = Entries BY DEF Entries, WriteAccepted
<1>11. Promise!Claim(r, two)
  BY <1>7, <1>8, <1>9 DEF Promise!Claim, Promise!HeldElsewhere
<1>12. Promise!Answer(r)
  BY <1>3, <1>4, <1>5, <1>6, <1>10, <1>11 DEF Promise!Answer
<1> QED BY <1>12 DEF Promise!Next

LEMMA DeleteRoomFinishes ==
    ASSUME IInv, SInv, NEW h \in Handlers, DeleteRoom(h)
    PROVE  Promise!Next
<1>1. PICK o \in Outcomes : o = Outcome(handler[h].op) BY DEF Outcome, Outcomes
<1>2. PICK r \in Rooms, s \in Session :
         /\ session[r] \in Session /\ Open(r)
         /\ s.caller = session[r].caller /\ s.callee = session[r].callee
         /\ s.outcome = o /\ (o = "completed" <=> Answered(r))
         /\ \A q \in Rooms : session'[q] = IF q = r THEN s ELSE session[q]
         /\ \A w \in Users : call'[w] = IF HasRoom(call[w], r) THEN None ELSE call[w]
  BY <1>1, DeleteRoomEffect
<1>3. s # None /\ o # None BY ConstantsAssumption
<1>4. /\ PhaseOf(r) = IF Answered(r) THEN "active" ELSE "ringing"
      /\ PhaseOf(r)' = o
  BY <1>2, <1>3 DEF PhaseOf, Answered, Open
<1>5. \A q \in Rooms \ {r} : PhaseOf(q)' = PhaseOf(q)
  BY <1>2 DEF PhaseOf, Answered
<1>6. PartiesOf(r)' = PartiesOf(r) BY <1>2, <1>3 DEF PartiesOf, Open
<1>7. \A q \in Rooms \ {r} : PartiesOf(q)' = PartiesOf(q) BY <1>2 DEF PartiesOf
<1>8. HeldBy(r)' = {} BY <1>2 DEF HeldBy, HasRoom
<1>9. \A q \in Rooms \ {r} : HeldBy(q)' = HeldBy(q)
  BY <1>2 DEF HeldBy, HasRoom
<1>10. Entries' = Entries BY DEF Entries, DeleteRoom
<1>11. \/ PhaseOf(r) = "ringing" /\ o \in Promise!Unanswered
       \/ PhaseOf(r) = "active" /\ o = "completed"
  BY <1>2, <1>4 DEF Outcomes, Promise!Unanswered
<1>12. Promise!Finish(r, o)
  BY <1>4, <1>5, <1>6, <1>7, <1>8, <1>9, <1>10, <1>11 DEF Promise!Finish
<1>13. o \in Promise!Final
  BY DEF Outcomes, Promise!Final, Promise!Unanswered
<1> QED BY <1>12, <1>13 DEF Promise!Next

LEMMA ExpireCallLapses ==
    ASSUME IInv, SInv, NEW u \in Users, ExpireCall(u)
    PROVE  Promise!Next
<1>1. \A w \in Users : call'[w] = IF w = u THEN None ELSE call[w]
  BY DEF ExpireCall, IInv, TypeOK
<1>2. PICK r \in Rooms : call[u] # None /\ r = call[u].roomId
  BY FreshCopy DEF ExpireCall, Call
<1>3. UNCHANGED <<session, callLogs>> BY DEF ExpireCall
<1>4. \A q \in Rooms : PartiesOf(q)' = PartiesOf(q) BY <1>3 DEF PartiesOf
<1>5. \A q \in Rooms : PhaseOf(q)' = PhaseOf(q) BY <1>3 DEF PhaseOf, Answered
<1>6. Entries' = Entries BY <1>3 DEF Entries
<1>7. u \in HeldBy(r) /\ HeldBy(r)' = HeldBy(r) \ {u}
  BY <1>1, <1>2 DEF HeldBy, HasRoom
<1>8. \A q \in Rooms \ {r} : HeldBy(q)' = HeldBy(q)
  BY <1>1, <1>2 DEF HeldBy, HasRoom
<1>9. Promise!Lapse(r, u)
  BY <1>4, <1>5, <1>6, <1>7, <1>8 DEF Promise!Lapse
<1> QED BY <1>9 DEF Promise!Next

LEMMA WriteCallLogRecords ==
    ASSUME IInv, SInv, NEW h \in Handlers, NEW side \in Directions, WriteCallLog(h, side)
    PROVE  Promise!Next
<1>1. PICK e \in Frame : e = handler[h] BY DEF IInv, TypeOK
<1>2. e.at = "log" /\ UpToDate(e) /\ FrameOK(e) /\ side \in e.unwritten
  BY <1>1 DEF WriteCallLog, SInv, FramesUpToDate, IInv, FramesOK
<1>3. PICK r \in Rooms : r = e.mine.roomId /\ session[r] # None /\ session[r].outcome # None
  BY <1>1, <1>2, LoggingFacts
<1>4. session[r] \in Session /\ session[r].caller # session[r].callee
  BY <1>3 DEF IInv, TypeOK, SInv, RoomsOK
<1>5. PICK o \in Outcomes : o = Outcome(e.op) /\ o = session[r].outcome
  BY <1>2, <1>3, <1>4 DEF UpToDate, Outcome, Outcomes
<1>6. PICK d \in LogDoc : d = LogOf(handler[h], side) BY <1>1, <1>2, LogIsTrue
<1>7. /\ d.callId = r /\ d.direction = side
      /\ DOMAIN callLogs' = DOMAIN callLogs \cup {d}
  BY <1>1, <1>3, <1>6, LogAdded
<1>8. Describes(d, r) BY <1>1, <1>2, <1>6, <1>7, LogIsTrue
<1>9. d.status = LogStatus(e.op, side) BY <1>1, <1>6 DEF LogOf
<1>10. PICK u \in Users, status \in Outcomes \cup {"no_answer"} : u = d.userId /\ status = d.status
  BY DEF LogDoc
<1>11. status = o \/ (o = "missed" /\ status = "no_answer")
  BY <1>5, <1>9, <1>10 DEF LogStatus, Outcome
<1>12. u \in {session[r].caller, session[r].callee} BY <1>8, <1>10 DEF Describes
<1>13. ASSUME NEW x \in DOMAIN callLogs, x.callId = r PROVE x.userId # u
  <2>1. x \in LogDoc /\ x.direction # side
    BY <1>2, <1>3, <1>13 DEF IInv, TypeOK, UpToDate
  <2>2. Describes(x, r) BY <1>13 DEF IInv, Store, PartiesAgree, LogsAgree
  <2> QED BY <1>4, <1>7, <1>8, <1>10, <2>1, <2>2 DEF Describes, LogDoc, Directions
<1>14. ~\E x \in Entries : x.room = r /\ x.user = u BY <1>13 DEF Entries
<1>15. Entries' = Entries \cup {[room |-> r, user |-> u, status |-> status]}
  BY <1>7, <1>10 DEF Entries
<1>16. UNCHANGED <<call, session>> BY DEF WriteCallLog
<1>17. \A q \in Rooms : PartiesOf(q)' = PartiesOf(q) BY <1>16 DEF PartiesOf
<1>18. \A q \in Rooms : PhaseOf(q)' = PhaseOf(q) BY <1>16 DEF PhaseOf, Answered
<1>19. \A q \in Rooms : HeldBy(q)' = HeldBy(q) BY <1>16 DEF HeldBy
<1>20. PhaseOf(r) = o /\ u \in PartiesOf(r)
  BY <1>3, <1>5, <1>12 DEF PhaseOf, PartiesOf
<1>21. o \in Promise!Final /\ status \in Promise!Final \cup {"no_answer"}
  BY DEF Outcomes, Promise!Final, Promise!Unanswered
<1>22. Promise!Record(r, u, status)
  BY <1>11, <1>14, <1>15, <1>17, <1>18, <1>19, <1>20, <1>21 DEF Promise!Record
<1> QED BY <1>21, <1>22 DEF Promise!Next

(* Handlers that are not busy with one user at the same time implement      *)
(* CallSession: every step of Calls starts, answers or finishes a call,     *)
(* lets it lapse, records its outcome, or is invisible there.               *)
THEOREM CallsKeepThePromise == IsolatedSpec => ImplementsCallSession
<1>1. Init => Promise!Init
  <2> SUFFICES ASSUME Init PROVE Promise!Init OBVIOUS
  <2>1. \A r \in Rooms : session[r] = None BY DEF Init
  <2>2. \A u \in Users : call[u] = None BY DEF Init
  <2>3. DOMAIN callLogs = {} BY DEF Init, EmptyBag, SetToBag
  <2>4. \A r \in Rooms : PartiesOf(r) = {} /\ PhaseOf(r) = "unborn" /\ HeldBy(r) = {}
    BY <2>1, <2>2 DEF PartiesOf, PhaseOf, HeldBy, HasRoom
  <2>5. Entries = {} BY <2>3 DEF Entries
  <2> QED BY <2>4, <2>5 DEF Promise!Init
<1>2. IInv /\ SInv /\ [Next]_vars => [Promise!Next]_Promise!cvars
  <2> SUFFICES ASSUME IInv, SInv, [Next]_vars PROVE [Promise!Next]_Promise!cvars
    OBVIOUS
  <2>1. CASE UNCHANGED <<call, callLogs, session>> BY <2>1, NothingHappens
  <2>2. CASE \E h \in Handlers, r \in Rooms : CreateCall(h, r)
    BY <2>2, CreateCallStarts
  <2>3. CASE \E h \in Handlers : WriteAccepted(h) \/ DeleteRoom(h)
    BY <2>3, WriteAcceptedAnswers, DeleteRoomFinishes
  <2>4. CASE \E h \in Handlers, side \in Directions : WriteCallLog(h, side)
    BY <2>4, WriteCallLogRecords
  <2>5. CASE \E u \in Users : ExpireCall(u) BY <2>5, ExpireCallLapses
  <2> QED BY <2>1, <2>2, <2>3, <2>4, <2>5, WhoeverWrites
<1> QED BY <1>1, <1>2, IsolatedInvariance, PTL
        DEF IsolatedSpec, ImplementsCallSession, Promise!Spec

=============================================================================
