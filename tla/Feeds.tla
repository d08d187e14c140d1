------------------------------- MODULE Feeds --------------------------------
(***************************************************************************)
(* The lists a client of the REST interface reads: contacts, call logs and  *)
(* notifications.  They share the clock and the way they are read, and no   *)
(* collection: a behaviour is about one of them.                            *)
(***************************************************************************)
EXTENDS Contacts, CallLogs, Notifications

CONSTANTS
    Parts,   \* the lists to be checked
    Clock,   \* bound: the latest date, for each list
    Bodies   \* bound: what the changes of contacts may ask for, if the client
             \* reads its contacts ("contacts") and if not ("blocks")

ASSUME FeedsAssumption ==
    /\ Parts \subseteq {"contacts", "blocks", "callLogs", "notifications"}
    /\ Clock \in [Parts -> Times]
    /\ Bodies \in [{"contacts", "blocks"} -> SUBSET [set : SUBSET Flags, clear : SUBSET Flags]]

VARIABLE part  \* the list this behaviour is about

clockVars == <<now, used, part>>
vars == <<clockVars, contactVars, logVars, noticeVars>>

Init ==
    /\ part \in Parts
    /\ now = 1
    /\ used = {}
    /\ ContactsInit /\ CallLogsInit /\ NotificationsInit

Next ==
    /\ UNCHANGED part
    /\ \/ now < Clock[part] /\ ClockTicks /\ UNCHANGED <<contactVars, logVars, noticeVars>>
       \/ /\ part \in {"contacts", "blocks"}
          /\ ContactChanges(Bodies[part]) \/ (part = "contacts" /\ ContactSync)
          /\ UNCHANGED <<logVars, noticeVars>>
       \/ part = "callLogs" /\ CallLogsNext /\ UNCHANGED <<contactVars, noticeVars>>
       \/ part = "notifications" /\ NotificationsNext /\ UNCHANGED <<contactVars, logVars>>

Spec == Init /\ [][Next]_vars

TypeOK ==
    /\ part \in Parts
    /\ now \in Times
    /\ used \subseteq Ids
    /\ ContactsTypeOK /\ CallLogsTypeOK /\ NotificationsTypeOK

=============================================================================
