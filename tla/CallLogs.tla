------------------------------ MODULE CallLogs ------------------------------
(***************************************************************************)
(* CallLogsService: the log of one user, and a client that pages through it *)
(* from the latest call to the first.  A log is inserted when its call is   *)
(* over and sorted by when it started, so it may land anywhere in the list. *)
(***************************************************************************)
EXTENDS Paging

VARIABLES
    log,     \* the documents of the collection
    pages,   \* the client: is it reading, and after which cursor
    shown,   \* the _ids it was shown since it began to read
    twice,   \* those it was shown more than once
    atStart  \* history: the documents that were there when it began

logVars == <<log, pages, shown, twice, atStart>>

CallLog == [id : Ids, at : Times]

ASSUME CallLogsAssumption == None \notin CallLog

CallLogsInit ==
    /\ log = {}
    /\ pages = [on |-> FALSE, cursor |-> None]
    /\ shown = {} /\ twice = {} /\ atStart = {}

(* createCallLog; `at' is startedAt, which several calls may share.          *)
CreateCallLog(i, t) ==
    /\ Fresh(i)
    /\ log' = log \cup {[id |-> i, at |-> t]}
    /\ UNCHANGED <<now, pages, shown, twice, atStart>>

DeleteAllCallLogs ==
    /\ log # {}
    /\ log' = {}
    /\ UNCHANGED <<now, used, pages, shown, twice, atStart>>

OpenCallLogs ==
    /\ ~pages.on
    /\ pages' = [pages EXCEPT !.on = TRUE]
    /\ shown' = {} /\ twice' = {}
    /\ atStart' = log
    /\ UNCHANGED <<now, used, log>>

(* Mutant: $lte for $lt. *)
LogsFrom(cursor) == {d \in log : cursor # None => ~Older(cursor, d)}

LogsBefore(cursor) == {d \in log : cursor # None => Older(d, cursor)}

GetCallLogs ==
    /\ pages.on
    /\ LET D == LogsBefore(pages.cursor)
           ids == {d.id : d \in First(Limit, D, "desc")}
           next == NextCursor(D, "desc")
       IN  /\ shown' = shown \cup ids
           /\ twice' = twice \cup (shown \cap ids)
           /\ pages' = [on |-> next # None, cursor |-> next]
    /\ UNCHANGED <<now, used, log, atStart>>

CallLogsNext ==
    \/ \E i \in Ids, t \in Stamps : CreateCallLog(i, t)
    \/ DeleteAllCallLogs
    \/ OpenCallLogs \/ GetCallLogs

-----------------------------------------------------------------------------
(* Properties *)

CallLogsTypeOK ==
    /\ log \subseteq CallLog
    /\ pages \in [on : BOOLEAN, cursor : CallLog \cup {None}]
    /\ shown \subseteq Ids /\ twice \subseteq Ids
    /\ atStart \subseteq CallLog

(* Paging shows no call twice and, when it comes to its end, every call that *)
(* was there when it began and still is, although calls that end meanwhile   *)
(* are put in before and behind the cursor, or at its very date.             *)
LogsShownOnce ==
    /\ twice = {}
    /\ ~pages.on => \A d \in atStart \cap log : d.id \in shown

=============================================================================
