-------------------------- MODULE CallsRefinement --------------------------
(***************************************************************************)
(* Calls implements CallSession as long as no two handlers are busy with   *)
(* one user at the same time: the mapping reads the abstract state off the *)
(* history, the records and the log documents.                             *)
(***************************************************************************)
EXTENDS Calls

(* Whom a handler has read something of that it is going to rely on: until  *)
(* the records are written or deleted.  What comes after (scheduling, the   *)
(* log, the notification, the acknowledgement) involves nobody.             *)
Involved(f) ==
    CASE f.at \in {"calleeBusy", "create"} -> {f.from, f.to}
      [] f.at \in {"acceptPeer", "acceptWrite", "peer", "members", "delete"} ->
             {f.mine.userId, f.mine.peerUserId}
      [] f.at = "reread" -> {f.from}
      [] OTHER -> {}

Isolated == \A g, h \in Handlers : g # h =>
    Involved(handler[g]) \cap Involved(handler[h]) = {}

(* The behaviours in which no two handlers are involved with one user at    *)
(* once.  Nothing in the code sees to it (the findings show what happens    *)
(* otherwise); with one handler at a time it is so.                         *)
IsolatedSpec == Init /\ [][Next /\ Isolated']_vars

-----------------------------------------------------------------------------
(* The mapping *)

PartiesOf(r) ==
    IF session[r] = None THEN {} ELSE {session[r].caller, session[r].callee}

PhaseOf(r) ==
    CASE session[r] = None            -> "unborn"
      [] session[r] # None /\ session[r].outcome # None -> session[r].outcome
      [] OTHER -> IF Answered(r) THEN "active" ELSE "ringing"

HeldBy(r) == {u \in Users : HasRoom(call[u], r)}

Entries == {[room |-> d.callId, user |-> d.userId, status |-> d.status] :
                d \in DOMAIN callLogs}

Promise == INSTANCE CallSession WITH
    parties <- [r \in Rooms |-> PartiesOf(r)],
    phase   <- [r \in Rooms |-> PhaseOf(r)],
    held    <- [r \in Rooms |-> HeldBy(r)],
    log     <- Entries

(* Handlers that are not busy with one user at the same time keep the       *)
(* promise of CallSession: nobody is taken from one call by another, a call *)
(* is answered once at most, while it rings, it gets one outcome, and only  *)
(* that outcome is logged, after the fact.  Keys that expire, commands that *)
(* fail and jobs that are run again do not break it.                        *)
ImplementsCallSession == Promise!Spec

=============================================================================
