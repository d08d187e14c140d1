--------------------------- MODULE Notifications ----------------------------
(***************************************************************************)
(* NotificationsService: the notifications of one user, and a client that   *)
(* reads them by offset, the latest first.  The page and the total number   *)
(* are two queries of one request, sent together and answered in any order; *)
(* from both the controller decides if there is a next page.                *)
(***************************************************************************)
EXTENDS Paging

VARIABLES
    notice,   \* the documents of the collection
    list,     \* the client's request: its filter, its offset, the two answers
    listed,   \* the _ids it was shown since it began to read
    expected, \* history: what was there when it began and still is, each with
              \* a date of its own
    shaken    \* history: something went from the unread list while it read
              \* that one, or came into its list between the total and the page

noticeVars == <<notice, list, listed, expected, shaken>>

Notice == [id : Ids, at : Times, read : BOOLEAN]
Filters == {"all", "read", "unread"}  \* "all": no status in the query

NotificationsInit ==
    /\ notice = {}
    /\ list = [on |-> FALSE, status |-> "all", offset |-> 0, data |-> None, total |-> None]
    /\ listed = {} /\ expected = {}
    /\ shaken = FALSE

Matching(status) == {d \in notice : status = "all" \/ (d.read <=> status = "read")}

(* The total of the page under way was taken and the page was not.          *)
Counted == list.on /\ list.total # None /\ list.data = None

(* createMissedCallNotification, createServiceNotification.                  *)
CreateNotification(i, t) ==
    /\ Fresh(i)
    /\ notice' = notice \cup {[id |-> i, at |-> t, read |-> FALSE]}
    /\ expected' = expected \ {d.id : d \in {e \in notice : e.at = t}}
    /\ shaken' = (shaken \/ (Counted /\ list.status # "read"))
    /\ UNCHANGED <<now, list, listed>>

MarkAsRead(S) ==
    /\ \E d \in notice : d.id \in S /\ ~d.read
    /\ notice' = {[d EXCEPT !.read = @ \/ d.id \in S] : d \in notice}
    /\ shaken' = (shaken \/ (list.on /\ list.status = "unread")
                         \/ (Counted /\ list.status = "read"))
    /\ UNCHANGED <<now, used, list, listed, expected>>

Delete(D) ==
    /\ D # {}
    /\ notice' = notice \ D
    /\ expected' = expected \ {d.id : d \in D}
    /\ UNCHANGED <<now, used, list, listed, shaken>>

(* The TTL index on expiresAt, 30 days after each was created: the oldest    *)
(* goes first.                                                               *)
NotificationExpires == \E d \in notice : (\A e \in notice : d.at <= e.at) /\ Delete({d})

DeleteAllNotifications == Delete(notice)

OpenNotifications(status) ==
    /\ ~list.on
    /\ list' = [on |-> TRUE, status |-> status, offset |-> 0, data |-> None, total |-> None]
    /\ listed' = {}
    /\ expected' = {d.id : d \in {e \in Matching(status) :
                                    \A f \in notice \ {e} : f.at # e.at}}
    /\ shaken' = FALSE
    /\ UNCHANGED <<now, used, notice>>

(* Mutant: sort({ createdAt: 1 }). *)
OldestFirst(d, e, up) == d.at < e.at \/ (d.at = e.at /\ (up <=> d.id < e.id) /\ d # e)

(* sort({ createdAt: -1 }): the order of two notifications of one date is     *)
(* whatever the query makes it.                                              *)
NewestFirst(d, e, up) == d.at > e.at \/ (d.at = e.at /\ (up <=> d.id < e.id) /\ d # e)

(* skip and limit *)
Page(D, offset, up) ==
    {d \in D : Cardinality({e \in D : NewestFirst(e, d, up)}) \in offset .. offset + Limit - 1}

FindNotifications ==
    /\ list.on /\ list.data = None
    /\ \E up \in BOOLEAN : list' = [list EXCEPT !.data =
          {d.id : d \in Page(Matching(list.status), list.offset, up)}]
    /\ UNCHANGED <<now, used, notice, listed, expected, shaken>>

CountNotifications ==
    /\ list.on /\ list.total = None
    /\ list' = [list EXCEPT !.total = Cardinality(Matching(list.status))]
    /\ UNCHANGED <<now, used, notice, listed, expected, shaken>>

(* The answer, and the client's next request if there is to be one.          *)
GetNotifications ==
    /\ list.data # None /\ list.total # None
    /\ listed' = listed \cup list.data
    /\ LET next == list.offset + Cardinality(list.data) < list.total IN
       list' = [list EXCEPT !.on = next, !.offset = IF next THEN @ + Limit ELSE 0,
                            !.data = None, !.total = None]
    /\ UNCHANGED <<now, used, notice, expected, shaken>>

NotificationsNext ==
    \/ \E i \in Ids, t \in Stamps : CreateNotification(i, t)
    \/ \E S \in SUBSET Ids : MarkAsRead(S)
    \/ NotificationExpires \/ DeleteAllNotifications
    \/ \E status \in Filters : OpenNotifications(status)
    \/ FindNotifications \/ CountNotifications \/ GetNotifications

-----------------------------------------------------------------------------
(* Properties *)

NotificationsTypeOK ==
    /\ notice \subseteq Notice
    /\ list \in [on : BOOLEAN, status : Filters, offset : Nat,
                 data : (SUBSET Ids) \cup {None}, total : Nat \cup {None}]
    /\ listed \subseteq Ids /\ expected \subseteq Ids
    /\ shaken \in BOOLEAN

(* Reading by offset may show a notification again, when others come in     *)
(* front of it, but it leaves none out that was there all the time with a   *)
(* date of its own, even as the oldest expire.  There are two exceptions:   *)
(* something is marked as read while the client reads what is unread, and   *)
(* one comes into its list (is created or, in the list of those read, is    *)
(* marked as read) between the total and the page: the total that get sends *)
(* ends the reading one page early.                                         *)
NoneSkipped == ~list.on /\ ~shaken => expected \subseteq listed

=============================================================================
