---------------------------- MODULE CallSession ----------------------------
(***************************************************************************)
(* What the calls of the server promise, without handlers, jobs or Redis:  *)
(* a call is started between two users whom no other call holds, is        *)
(* answered or not, gets at most one outcome, which lets both users go, and *)
(* each of them may find that outcome in the call log afterwards.  The     *)
(* server may forget that a call holds a user (Lapse); such a call is over  *)
(* for that user, with or without an outcome.                              *)
(***************************************************************************)
CONSTANTS Users, Rooms

VARIABLES
    parties,  \* the caller and the callee of each room, {} before it is started
    phase,    \* where the call of each room is
    held,     \* the users each call holds: they can start and take no other
    log       \* who finds which outcome in the log: [room, user, status]

cvars == <<parties, phase, held, log>>

Unanswered == {"declined", "cancelled", "missed"}
Final      == Unanswered \cup {"completed"}
HeldElsewhere(u, r) == \E q \in Rooms \ {r} : u \in held[q]

Init ==
    /\ parties = [r \in Rooms |-> {}]
    /\ phase = [r \in Rooms |-> "unborn"]
    /\ held = [r \in Rooms |-> {}]
    /\ log = {}

(* Starting and answering a call (re-)claim its two users; neither takes    *)
(* them from another call.                                                  *)
Claim(r, users) ==
    /\ \A u \in users : ~HeldElsewhere(u, r)
    /\ held' = [held EXCEPT ![r] = users]

Start(r, u, v) ==
    /\ phase[r] = "unborn"
    /\ u # v
    /\ parties' = [parties EXCEPT ![r] = {u, v}]
    /\ phase' = [phase EXCEPT ![r] = "ringing"]
    /\ Claim(r, {u, v})
    /\ UNCHANGED log

Answer(r) ==
    /\ phase[r] = "ringing"
    /\ phase' = [phase EXCEPT ![r] = "active"]
    /\ Claim(r, parties[r])
    /\ UNCHANGED <<parties, log>>

Finish(r, outcome) ==
    /\ \/ phase[r] = "ringing" /\ outcome \in Unanswered
       \/ phase[r] = "active" /\ outcome = "completed"
    /\ phase' = [phase EXCEPT ![r] = outcome]
    /\ held' = [held EXCEPT ![r] = {}]
    /\ UNCHANGED <<parties, log>>

Lapse(r, u) ==
    /\ u \in held[r]
    /\ held' = [held EXCEPT ![r] = @ \ {u}]
    /\ UNCHANGED <<parties, phase, log>>

(* The caller of a missed call reads `no_answer', everybody else the outcome. *)
Record(r, u, status) ==
    /\ phase[r] \in Final
    /\ u \in parties[r]
    /\ \/ status = phase[r]
       \/ phase[r] = "missed" /\ status = "no_answer"
    /\ ~\E e \in log : e.room = r /\ e.user = u
    /\ log' = log \cup {[room |-> r, user |-> u, status |-> status]}
    /\ UNCHANGED <<parties, phase, held>>

Next ==
    \E r \in Rooms :
        \/ \E u, v \in Users : Start(r, u, v)
        \/ Answer(r)
        \/ \E o \in Final : Finish(r, o)
        \/ \E u \in Users : Lapse(r, u)
        \/ \E u \in Users, s \in Final \cup {"no_answer"} : Record(r, u, s)

Spec == Init /\ [][Next]_cvars

=============================================================================
