------------------------------ MODULE Contacts ------------------------------
(***************************************************************************)
(* ContactsService, what CallPermissionsService concludes from a contact,   *)
(* and a client that keeps a copy of its contacts: it asks for what changed *)
(* after the latest date it has (changedAfter) and follows the cursors.     *)
(*                                                                         *)
(* A document is written in a later step than its updatedAt is taken (by    *)
(* mongoose, in the Node process), so writes may arrive out of order.       *)
(* isBlocked and its like are the set of those that are true; alias and     *)
(* note are further fields of the same kind.                                *)
(***************************************************************************)
EXTENDS Paging

CONSTANTS
    ContactIds, \* the _ids of contacts
    Peers,      \* contactUserIds
    Flags,      \* Boolean fields of a contact
    Requests    \* bound: how many changes are made at a time

VARIABLES
    contact,   \* the documents of the collection, by _id
    change,    \* the request each handler works on
    sync,      \* the client: is it reading, after which cursor, changedAfter
    copy,      \* the documents the client has read
    overtaken  \* history: written with a date the client had already got to

contactVars == <<contact, change, sync, copy, overtaken>>

Maybe(S) == S \cup {None}
Contact == [id : ContactIds, peer : Peers, flags : SUBSET Flags, at : Times]

ASSUME ContactsAssumption ==
    /\ ContactIds \subseteq Ids
    /\ "isBlocked" \in Flags
    /\ None \notin Contact

(* asked: the fields the request names; set, clear: what $set writes.        *)
Change == [at : {"idle", "insert", "write"}, id : Maybe(ContactIds), peer : Maybe(Peers),
           asked : SUBSET Flags, set : SUBSET Flags, clear : SUBSET Flags, stamp : Nat]
NoChange == [at |-> "idle", id |-> None, peer |-> None,
             asked |-> {}, set |-> {}, clear |-> {}, stamp |-> 0]

Here(i) == contact[i] # None
All == {contact[i] : i \in {j \in ContactIds : Here(j)}}
Of(p) == {d \in All : d.peer = p}

(* getCallPermissions(p calls the owner), other than for the owner himself.  *)
CanCall(p) == \A d \in Of(p) : "isBlocked" \notin d.flags

ContactsInit ==
    /\ contact = [i \in ContactIds |-> None]
    /\ change = [r \in Requests |-> NoChange]
    /\ sync = [on |-> FALSE, cursor |-> None, mark |-> 0]
    /\ copy = [i \in ContactIds |-> None]
    /\ overtaken = {}

Begin(r, f) == change[r].at = "idle" /\ change' = [change EXCEPT ![r] = f]
Finish(r) == change' = [change EXCEPT ![r] = NoChange]

(* The client has read a document with this date or a later one.            *)
GotTo(t) == \E i \in ContactIds : copy[i] # None /\ t <= copy[i].at

Store(d) ==
    /\ contact' = [contact EXCEPT ![d.id] = d]
    /\ overtaken' = IF GotTo(d.at) THEN overtaken \cup {d.id} ELSE overtaken \ {d.id}

-----------------------------------------------------------------------------
CreateContact(r, p, F) ==
    /\ Begin(r, [NoChange EXCEPT !.at = "insert", !.peer = p, !.set = F, !.stamp = now])
    /\ UNCHANGED <<now, used, contact, sync, copy, overtaken>>

(* The unique index on (ownerId, contactUserId) has the last word.  Mutant:   *)
(* the contact's own _id takes the place of the user's.                      *)
InsertContactOfItself(r) ==
    /\ change[r].at = "insert"
    /\ IF Of(change[r].peer) # {} THEN UNCHANGED <<contact, overtaken, used>>
       ELSE \E i \in ContactIds :
            /\ Fresh(i)
            /\ Store([id |-> i, peer |-> i, flags |-> change[r].set, at |-> change[r].stamp])
    /\ Finish(r)
    /\ UNCHANGED <<now, sync, copy>>

InsertContact(r) ==
    /\ change[r].at = "insert"
    /\ IF Of(change[r].peer) # {} THEN UNCHANGED <<contact, overtaken, used>>
       ELSE \E i \in ContactIds :
            /\ Fresh(i)
            /\ Store([id |-> i, peer |-> change[r].peer,
                      flags |-> change[r].set, at |-> change[r].stamp])
    /\ Finish(r)
    /\ UNCHANGED <<now, sync, copy>>

(* What $set writes to document d when a request gives the fields S as true  *)
(* and C as false.  Mutant: all fields, as they were read.                   *)
BuildWholeContact(d, S, C) ==
    [set |-> (d.flags \cup S) \ C, clear |-> Flags \ ((d.flags \cup S) \ C)]

BuildContactUpdateData(d, S, C) == [set |-> S \ d.flags, clear |-> C \cap d.flags]

(* update up to the write: findOne, and what differs.                       *)
UpdateContact(r, i, S, C) ==
    /\ Here(i)
    /\ LET data == BuildContactUpdateData(contact[i], S, C) IN
          /\ data.set \cup data.clear # {}
          /\ Begin(r, [NoChange EXCEPT !.at = "write", !.id = i, !.asked = S \cup C,
                         !.set = data.set, !.clear = data.clear, !.stamp = now])
    /\ UNCHANGED <<now, used, contact, sync, copy, overtaken>>

(* findOneAndUpdate, whatever the document has become by now.               *)
WriteContact(r) ==
    /\ change[r].at = "write"
    /\ IF ~Here(change[r].id) THEN UNCHANGED <<contact, overtaken>>
       ELSE Store([contact[change[r].id] EXCEPT
                     !.flags = (@ \cup change[r].set) \ change[r].clear, !.at = change[r].stamp])
    /\ Finish(r)
    /\ UNCHANGED <<now, used, sync, copy>>

RemoveContacts(D) ==
    /\ D # {}
    /\ contact' = [i \in ContactIds |-> IF contact[i] \in D THEN None ELSE contact[i]]
    /\ UNCHANGED <<now, used, change, sync, copy, overtaken>>

RemoveContact(i) == Here(i) /\ RemoveContacts({contact[i]})
DeleteAllContacts == RemoveContacts(All)

-----------------------------------------------------------------------------
(* find *)

(* The latest date the client has read so far, in this or an earlier round. *)
From(cursor) == IF cursor = None THEN sync.mark ELSE cursor.at

(* Mutant: the cursor has the date only. *)
ChangedByDate(cursor) ==
    {d \in All : d.at > sync.mark /\ (cursor # None => cursor.at < d.at)}

Changed(cursor) ==
    {d \in All : d.at > sync.mark /\ (cursor # None => Older(cursor, d))}

StartSync ==
    /\ ~sync.on
    /\ sync' = [sync EXCEPT !.on = TRUE]
    /\ UNCHANGED <<now, used, contact, change, copy, overtaken>>

FindContacts ==
    /\ sync.on
    /\ LET D == Changed(sync.cursor)
           page == First(Limit, D, "asc")
           next == NextCursor(D, "asc")
           ids == {d.id : d \in page}
       IN  /\ copy' = [i \in ContactIds |-> IF i \in ids THEN contact[i] ELSE copy[i]]
           /\ overtaken' = overtaken \ ids
           /\ sync' = IF next # None THEN [sync EXCEPT !.cursor = next]
                      ELSE [on |-> FALSE, cursor |-> None,
                            mark |-> Max({d.at : d \in page} \cup {From(sync.cursor)})]
    /\ UNCHANGED <<now, used, contact, change>>

(* The client is closed before the last page, and starts over later.        *)
AbandonSync ==
    /\ sync.cursor # None
    /\ sync' = [sync EXCEPT !.on = FALSE, !.cursor = None]
    /\ UNCHANGED <<now, used, contact, change, copy, overtaken>>

(* Bodies: the fields a request may set to true and to false.               *)
ContactChanges(Bodies) ==
    \/ \E r \in Requests :
          \/ \E p \in Peers, b \in Bodies : CreateContact(r, p, b.set)
          \/ \E i \in ContactIds, b \in Bodies : UpdateContact(r, i, b.set, b.clear)
          \/ InsertContact(r) \/ WriteContact(r)
    \/ \E i \in ContactIds : RemoveContact(i)
    \/ DeleteAllContacts

ContactSync == StartSync \/ FindContacts \/ AbandonSync

-----------------------------------------------------------------------------
(* Properties *)

ContactsTypeOK ==
    /\ contact \in [ContactIds -> Maybe(Contact)]
    /\ change \in [Requests -> Change]
    /\ sync \in [on : BOOLEAN, cursor : Maybe(Contact), mark : 0 .. MaxTime]
    /\ copy \in [ContactIds -> Maybe(Contact)]
    /\ overtaken \subseteq ContactIds

(* When the client has followed the cursors to the end, it has every contact *)
(* whose updatedAt it will not ask for again as it is in the database,       *)
(* however contacts moved in the order meanwhile: it misses only what was    *)
(* written when the client had already read that date.                       *)
SyncMissesNothing == ~sync.on => \A i \in ContactIds :
    Here(i) /\ contact[i].at <= sync.mark => copy[i] = contact[i] \/ i \in overtaken

(* A caller the owner has blocked may call again only when the owner asks    *)
(* for it (or removes the contact): no other update that was under way when  *)
(* the block was written takes it back.                                      *)
BlockStays == [][\A p \in Peers : ~CanCall(p) /\ CanCall(p)' =>
    \/ Of(p)' = {}
    \/ \E r \in Requests : /\ "isBlocked" \in change[r].asked
                           /\ change'[r] = NoChange]_contactVars

=============================================================================
