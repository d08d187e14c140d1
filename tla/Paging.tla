------------------------------- MODULE Paging -------------------------------
(***************************************************************************)
(* What the lists of ContactsService, CallLogsService and                   *)
(* NotificationsService have in common: the documents of one user, each     *)
(* with an _id and a date it is sorted by, and a client that reads them     *)
(* page by page while other requests change them.                           *)
(*                                                                         *)
(* Every query has the user's id in its filter, so one user is enough.  The *)
(* other filters and the search only narrow the list.                       *)
(***************************************************************************)
EXTENDS Naturals, FiniteSets, FiniteSetsExt

CONSTANTS
    Ids,      \* the _ids of documents, each used once, in the order of ObjectIds
    MaxTime,  \* bound: the dates are 1 .. MaxTime
    Limit,    \* documents to a page
    None

ASSUME PagingAssumption ==
    /\ Ids \subseteq Nat
    /\ MaxTime \in Nat \ {0}
    /\ Limit \in Nat \ {0}
    /\ None \notin Ids

VARIABLES
    now,  \* the date in milliseconds; several writes may fall into one
    used  \* the _ids that were given to a document

Times == 1 .. MaxTime
Stamps == 1 .. now

Fresh(i) == i \in Ids \ used /\ used' = used \cup {i}

(* Sort by date and then _id: ascending for contacts, descending for calls.  *)
Older(d, e) == d.at < e.at \/ (d.at = e.at /\ d.id < e.id)
Before(order, d, e) == IF order = "asc" THEN Older(d, e) ELSE Older(e, d)

(* limit(n).                                                                *)
First(n, D, order) == {d \in D : Cardinality({e \in D : Before(order, e, d)}) < n}

(* The query asks for one document more than the page has: if there is one,  *)
(* the cursor of the next page is the last document of this one.             *)
NextCursor(D, order) ==
    LET page == First(Limit, D, order) IN
    IF page = D THEN None
    ELSE CHOOSE d \in page : \A e \in page \ {d} : Before(order, e, d)

ClockTicks == now' = now + 1 /\ UNCHANGED used

=============================================================================
