----------------------------- MODULE FeedsProofs -----------------------------
(***************************************************************************)
(* What is proved of Feeds for any number of documents, requests and dates  *)
(* and any page size: the state is well formed, a client that follows the   *)
(* cursors of its contacts or of its call log misses nothing, and a block   *)
(* is not taken back by a request that does not mean to.                    *)
(***************************************************************************)
EXTENDS Feeds, FiniteSetTheorems, TLAPS

-----------------------------------------------------------------------------
(* Pages and cursors, of any documents with distinct ids.                   *)

Documents(S) ==
    /\ IsFiniteSet(S)
    /\ \A d \in S : d.id \in Nat /\ d.at \in Nat
    /\ \A d, e \in S : d.id = e.id => d = e

LEMMA BeforeIsAnOrder ==
    ASSUME NEW S, Documents(S), NEW order
    PROVE  /\ \A d \in S : ~Before(order, d, d)
           /\ \A d, e \in S : Before(order, d, e) => ~Before(order, e, d)
           /\ \A d, e \in S : d # e => Before(order, d, e) \/ Before(order, e, d)
           /\ \A d, e, f \in S : Before(order, d, e) /\ Before(order, e, f) => Before(order, d, f)
  BY DEF Documents, Before, Older

(* Among finitely many documents one comes last: the one behind which the    *)
(* least set of others stands.                                              *)
LEMMA LastExists ==
    ASSUME NEW S, Documents(S), S # {}, NEW order
    PROVE  \E d \in S : \A e \in S \ {d} : Before(order, e, d)
<1> DEFINE Behind(d) == {e \in S : Before(order, d, e)}
           T == {Behind(d) : d \in S}
<1>1. IsWellFoundedOn(StrictSubsetOrdering(S), SUBSET S)
  BY FS_StrictSubsetOrderingWellFounded, FS_FiniteSubsetsOfFinite DEF Documents
<1>2. T \subseteq SUBSET S /\ T # {} OBVIOUS
<1>3. PICK x \in T : \A y \in T : <<y, x>> \notin StrictSubsetOrdering(S)
  BY <1>1, <1>2, WFMin
<1>4. PICK d \in S : x = Behind(d) BY <1>3
<1>5. ASSUME NEW e \in S \ {d} PROVE Before(order, e, d)
  <2>1. SUFFICES ASSUME Before(order, d, e) PROVE FALSE BY BeforeIsAnOrder
  <2>2. Behind(e) \subseteq Behind(d) /\ e \in Behind(d) /\ e \notin Behind(e)
    BY <2>1, BeforeIsAnOrder
  <2>3. Behind(e) \in T /\ Behind(e) \in SUBSET S /\ Behind(d) \in SUBSET S OBVIOUS
  <2> HIDE DEF Behind, T
  <2>4. <<Behind(e), Behind(d)>> \in StrictSubsetOrdering(S)
    BY <2>2, <2>3 DEF StrictSubsetOrdering
  <2> QED BY <1>3, <1>4, <2>3, <2>4
<1> QED BY <1>5

LEMMA FirstIsDownwardClosed ==
    ASSUME NEW S, Documents(S), NEW order, NEW n \in Nat,
           NEW d \in First(n, S, order), NEW e \in S, Before(order, e, d)
    PROVE  e \in First(n, S, order)
<1> DEFINE Ahead(f) == {g \in S : Before(order, g, f)}
<1>1. d \in S BY DEF First
<1>2. Ahead(e) \subseteq Ahead(d) BY <1>1, BeforeIsAnOrder
<1>3. Ahead(d) \subseteq S OBVIOUS
<1> HIDE DEF Ahead
<1>4. IsFiniteSet(Ahead(d)) BY <1>3, FS_Subset DEF Documents
<1>5. /\ Cardinality(Ahead(e)) \in Nat /\ Cardinality(Ahead(d)) \in Nat
      /\ Cardinality(Ahead(e)) <= Cardinality(Ahead(d))
  BY <1>2, <1>4, FS_Subset, FS_CardinalityType
<1>6. Cardinality(Ahead(d)) < n BY DEF First, Ahead
<1>7. Cardinality(Ahead(e)) < n BY <1>5, <1>6
<1> QED BY <1>7 DEF First, Ahead

(* Some document comes first, and it is on every page.                      *)
LEMMA PageIsNotEmpty ==
    ASSUME NEW S, Documents(S), S # {}, NEW order
    PROVE  First(Limit, S, order) # {}
<1> DEFINE other == IF order = "asc" THEN "desc" ELSE "asc"
<1>1. PICK d \in S : \A e \in S \ {d} : Before(other, e, d) BY LastExists
<1>2. \A e \in S \ {d} : Before(order, d, e) BY <1>1 DEF Before
<1>3. {e \in S : Before(order, e, d)} = {} BY <1>2, BeforeIsAnOrder
<1>4. Cardinality({e \in S : Before(order, e, d)}) = 0 BY <1>3, FS_EmptySet
<1> QED BY <1>4, PagingAssumption DEF First

(* The cursor is the last document of the page, and what does not come after *)
(* it is on the page.                                                       *)
LEMMA CursorEndsPage ==
    ASSUME NEW S, Documents(S), NEW order, First(Limit, S, order) # S
    PROVE  /\ NextCursor(S, order) \in First(Limit, S, order)
           /\ NextCursor(S, order) \in S
           /\ \A e \in First(Limit, S, order) : ~Before(order, NextCursor(S, order), e)
           /\ \A e \in S : ~Before(order, NextCursor(S, order), e) => e \in First(Limit, S, order)
<1> DEFINE page == First(Limit, S, order)
<1>1. page \subseteq S BY DEF First
<1>2. S # {} BY <1>1
<1>3. page # {} BY <1>2, PageIsNotEmpty
<1>4. Documents(page) BY <1>1, FS_Subset DEF Documents
<1>5. \E d \in page : \A e \in page \ {d} : Before(order, e, d)
  <2> HIDE DEF page
  <2> QED BY <1>3, <1>4, LastExists
<1>6. NextCursor(S, order) = CHOOSE d \in page : \A e \in page \ {d} : Before(order, e, d)
  BY DEF NextCursor
<1>7. PICK n : n = NextCursor(S, order) OBVIOUS
<1>8. n \in page /\ \A e \in page \ {n} : Before(order, e, n)
  <2> HIDE DEF page
  <2> QED BY <1>5, <1>6, <1>7
<1>9. n \in S BY <1>1, <1>8
<1>10. \A e \in page : ~Before(order, n, e) BY <1>1, <1>8, <1>9, BeforeIsAnOrder
<1>11. ASSUME NEW e \in S, ~Before(order, n, e) PROVE e \in page
  <2>1. CASE e = n BY <1>8, <2>1
  <2>2. CASE e # n
    <3>1. Before(order, e, n) BY <1>9, <1>11, <2>2, BeforeIsAnOrder
    <3> QED BY <1>8, <3>1, FirstIsDownwardClosed, PagingAssumption
  <2> QED BY <2>1, <2>2
<1> QED BY <1>7, <1>8, <1>9, <1>10, <1>11

-----------------------------------------------------------------------------
(* Call logs *)

Clocked == now \in Times /\ used \subseteq Ids /\ IsFiniteSet(used)

LogsToldApart ==
    /\ \A d \in log \cup atStart : d.id \in used
    /\ \A d, e \in log \cup atStart : d.id = e.id => d = e

(* The client has been shown what stands up to its cursor, and nothing       *)
(* behind it.                                                               *)
ShownUpToCursor ==
    /\ ~pages.on => pages.cursor = None
    /\ pages.on /\ pages.cursor = None => shown = {}
    /\ pages.cursor # None =>
         /\ \A d \in log : d.id \in shown => ~Older(d, pages.cursor)
         /\ \A d \in atStart \cap log : ~Older(d, pages.cursor) => d.id \in shown

LogsInv ==
    /\ CallLogsTypeOK
    /\ IsFiniteSet(log)
    /\ LogsToldApart
    /\ shown \subseteq used
    /\ ShownUpToCursor
    /\ LogsShownOnce

LEMMA TimesAreNat == Times \subseteq Nat /\ Ids \subseteq Nat
  BY PagingAssumption DEF Times

LEMMA OlderIsTransitive ==
    ASSUME NEW d \in CallLog, NEW e \in CallLog, NEW f \in CallLog, Older(d, e), Older(e, f)
    PROVE  Older(d, f)
<1>1. /\ d.id \in Nat /\ e.id \in Nat /\ f.id \in Nat
      /\ d.at \in Nat /\ e.at \in Nat /\ f.at \in Nat
  BY TimesAreNat DEF CallLog
<1> QED BY <1>1 DEF Older

LEMMA LogsAreDocuments ==
    ASSUME LogsInv, NEW D \in SUBSET log
    PROVE  Documents(D)
<1>1. IsFiniteSet(D) BY FS_Subset DEF LogsInv
<1>2. \A d \in D : d.id \in Nat /\ d.at \in Nat
  BY TimesAreNat DEF LogsInv, CallLogsTypeOK, CallLog
<1>3. \A d, e \in D : d.id = e.id => d = e BY DEF LogsInv, LogsToldApart
<1> QED BY <1>1, <1>2, <1>3 DEF Documents

LEMMA LogsKept ==
    ASSUME LogsInv, UNCHANGED logVars, used \subseteq used'
    PROVE  LogsInv'
<1>1. UNCHANGED <<log, pages, shown, twice, atStart>> BY DEF logVars
<1> QED BY <1>1 DEF LogsInv, CallLogsTypeOK, LogsToldApart, ShownUpToCursor, LogsShownOnce

(* A new log's id was not there: nobody has been shown it.                  *)
LEMMA CreateCallLogStep ==
    ASSUME Clocked, LogsInv, NEW i \in Ids, NEW t \in Stamps, CreateCallLog(i, t)
    PROVE  LogsInv'
<1> DEFINE d == [id |-> i, at |-> t]
<1>1. /\ i \notin used /\ used' = used \cup {i} /\ log' = log \cup {d}
      /\ UNCHANGED <<pages, shown, twice, atStart>>
  BY DEF CreateCallLog, Fresh
<1>2. t \in Times BY TimesAreNat, PagingAssumption DEF Clocked, Stamps, Times
<1>3. d \in CallLog /\ d.id = i BY <1>2 DEF CallLog
<1> HIDE DEF d
<1>4. CallLogsTypeOK' BY <1>1, <1>3 DEF LogsInv, CallLogsTypeOK
<1>5. IsFiniteSet(log') BY <1>1, FS_AddElement DEF LogsInv
<1>6. LogsToldApart' BY <1>1, <1>3 DEF LogsInv, LogsToldApart
<1>7. d.id \notin shown /\ d \notin atStart BY <1>1, <1>3 DEF LogsInv, LogsToldApart
<1>8. ShownUpToCursor' BY <1>1, <1>7 DEF LogsInv, ShownUpToCursor
<1>9. LogsShownOnce' BY <1>1, <1>7 DEF LogsInv, LogsShownOnce
<1>10. (shown \subseteq used)' BY <1>1 DEF LogsInv
<1> QED BY <1>4, <1>5, <1>6, <1>8, <1>9, <1>10 DEF LogsInv

LEMMA DeleteAllCallLogsStep ==
    ASSUME LogsInv, DeleteAllCallLogs
    PROVE  LogsInv'
<1>1. log' = {} /\ UNCHANGED <<used, pages, shown, twice, atStart>> BY DEF DeleteAllCallLogs
<1> QED BY <1>1, FS_EmptySet
        DEF LogsInv, CallLogsTypeOK, LogsToldApart, ShownUpToCursor, LogsShownOnce

LEMMA OpenCallLogsStep ==
    ASSUME LogsInv, OpenCallLogs
    PROVE  LogsInv'
<1>1. /\ ~pages.on /\ pages' = [pages EXCEPT !.on = TRUE] /\ shown' = {} /\ twice' = {}
      /\ atStart' = log /\ UNCHANGED <<used, log>>
  BY DEF OpenCallLogs
<1>2. pages'.on /\ pages'.cursor = None
      /\ pages' \in [on : BOOLEAN, cursor : CallLog \cup {None}]
  BY <1>1 DEF LogsInv, CallLogsTypeOK, ShownUpToCursor
<1>3. CallLogsTypeOK' BY <1>1, <1>2 DEF LogsInv, CallLogsTypeOK
<1>4. LogsToldApart' BY <1>1 DEF LogsInv, LogsToldApart
<1>5. ShownUpToCursor' BY <1>1, <1>2 DEF ShownUpToCursor
<1>6. LogsShownOnce' BY <1>1, <1>2 DEF LogsShownOnce
<1> QED BY <1>1, <1>3, <1>4, <1>5, <1>6 DEF LogsInv

LEMMA GetCallLogsStep ==
    ASSUME LogsInv, GetCallLogs
    PROVE  LogsInv'
<1> PICK c : c = pages.cursor OBVIOUS
<1> PICK D : D = LogsBefore(c) OBVIOUS
<1> PICK page : page = First(Limit, D, "desc") OBVIOUS
<1> PICK ids : ids = {d.id : d \in page} OBVIOUS
<1> PICK next : next = NextCursor(D, "desc") OBVIOUS
<1>1. /\ pages.on /\ shown' = shown \cup ids /\ twice' = twice \cup (shown \cap ids)
      /\ pages' = [on |-> next # None, cursor |-> next]
      /\ UNCHANGED <<used, log, atStart>>
  BY DEF GetCallLogs
<1>2. D \subseteq log /\ page \subseteq D /\ Documents(D)
      /\ \A d \in log : d \in D <=> (c # None => Older(d, c))
  BY LogsAreDocuments DEF LogsBefore, First
<1>3. log \subseteq CallLog /\ c \in CallLog \cup {None} BY DEF LogsInv, CallLogsTypeOK
<1>4. \A d \in log : d.id \in ids => d \in page
  BY <1>2 DEF LogsInv, LogsToldApart
<1>5. shown \cap ids = {}
  BY <1>1, <1>2 DEF LogsInv, ShownUpToCursor
<1>6. page = D => next = None BY DEF NextCursor
<1>7. page # D => /\ next \in page /\ next \in D /\ next \in CallLog /\ next # None
                  /\ \A e \in page : ~Older(e, next)
                  /\ \A e \in D : ~Older(e, next) => e \in page
  <2>1. SUFFICES ASSUME page # D
                 PROVE  /\ next \in page /\ next \in D /\ next \in CallLog /\ next # None
                        /\ \A e \in page : ~Older(e, next)
                        /\ \A e \in D : ~Older(e, next) => e \in page
    OBVIOUS
  <2>2. /\ next \in page /\ next \in D
        /\ \A e \in page : ~Before("desc", next, e)
        /\ \A e \in D : ~Before("desc", next, e) => e \in page
    BY <1>2, <2>1, CursorEndsPage
  <2> QED BY <1>2, <1>3, <2>2, CallLogsAssumption DEF Before
<1>8. CallLogsTypeOK'
  <2>1. ids \subseteq Ids BY <1>2, <1>3 DEF CallLog
  <2>2. next \in CallLog \cup {None} BY <1>6, <1>7
  <2> QED BY <1>1, <2>1, <2>2 DEF LogsInv, CallLogsTypeOK
<1>9. LogsToldApart' BY <1>1 DEF LogsInv, LogsToldApart
<1>10. (shown \subseteq used)' BY <1>1, <1>2 DEF LogsInv, LogsToldApart
<1>11. \A d \in atStart \cap log : d \notin D => d.id \in shown
  BY <1>1, <1>2 DEF LogsInv, ShownUpToCursor
<1>12. ShownUpToCursor'
  <2>1. CASE next = None BY <1>1, <2>1 DEF ShownUpToCursor
  <2>2. CASE next # None
    <3>1. next \in log /\ (c # None => Older(next, c)) /\ page # D BY <1>2, <1>6, <1>7, <2>2
    <3>2. ASSUME NEW d \in log, d.id \in shown' PROVE ~Older(d, next)
      <4>1. CASE d \in page BY <1>7, <3>1, <4>1
      <4>2. CASE d \notin page
        <5>1. d.id \in shown BY <1>1, <1>4, <3>2, <4>2
        <5>2. c # None /\ ~Older(d, c)
          BY <1>1, <5>1 DEF LogsInv, ShownUpToCursor
        <5> QED BY <1>3, <3>1, <5>2, OlderIsTransitive
      <4> QED BY <4>1, <4>2
    <3>3. ASSUME NEW d \in atStart \cap log, ~Older(d, next) PROVE d.id \in shown'
      <4>1. CASE d \in D BY <1>1, <1>7, <3>1, <3>3, <4>1
      <4>2. CASE d \notin D BY <1>1, <1>11, <4>2
      <4> QED BY <4>1, <4>2
    <3> QED BY <1>1, <2>2, <3>2, <3>3 DEF ShownUpToCursor
  <2> QED BY <2>1, <2>2
<1>13. LogsShownOnce'
  <2>1. twice' = {} BY <1>1, <1>5 DEF LogsInv, LogsShownOnce
  <2>2. next = None => page = D BY <1>7
  <2>3. next = None => \A d \in atStart \cap log : d.id \in shown' BY <1>1, <1>11, <2>2
  <2> QED BY <1>1, <2>1, <2>3 DEF LogsShownOnce
<1> QED BY <1>1, <1>8, <1>9, <1>10, <1>12, <1>13 DEF LogsInv

LEMMA CallLogsNextStep ==
    ASSUME Clocked, LogsInv, CallLogsNext
    PROVE  LogsInv'
  BY CreateCallLogStep, DeleteAllCallLogsStep, OpenCallLogsStep, GetCallLogsStep
  DEF CallLogsNext

-----------------------------------------------------------------------------
(* Contacts *)

ChangeFits(f) ==
    /\ f.at # "idle" => f.stamp \in Times
    /\ f.at = "insert" => f.peer \in Peers
    /\ f.at = "write" => f.id \in ContactIds /\ f.clear \subseteq f.asked

ContactsToldApart ==
    /\ \A i \in ContactIds : Here(i) => contact[i].id = i /\ i \in used
    /\ \A i, j \in ContactIds : Here(i) /\ Here(j) /\ contact[i].peer = contact[j].peer => i = j

(* The client has read a document as late as its mark, and as its cursor.    *)
DatesAreRead ==
    /\ ~sync.on => sync.cursor = None
    /\ sync.mark # 0 => GotTo(sync.mark)
    /\ sync.cursor # None => sync.mark < sync.cursor.at /\ GotTo(sync.cursor.at)

(* The client will not ask for document d again.                            *)
Passed(d) == d.at <= sync.mark \/ (sync.cursor # None /\ ~Older(sync.cursor, d))

PassedIsCopied == \A i \in ContactIds :
    Here(i) /\ Passed(contact[i]) => copy[i] = contact[i] \/ i \in overtaken

ContactsInv ==
    /\ ContactsTypeOK
    /\ \A r \in Requests : ChangeFits(change[r])
    /\ ContactsToldApart
    /\ DatesAreRead
    /\ PassedIsCopied

LEMMA ContactsKept ==
    ASSUME ContactsInv, UNCHANGED contactVars, used \subseteq used'
    PROVE  ContactsInv'
<1>1. UNCHANGED <<contact, change, sync, copy, overtaken>> BY DEF contactVars
<1> QED BY <1>1 DEF ContactsInv, ContactsTypeOK, ContactsToldApart, DatesAreRead, GotTo,
                    PassedIsCopied, Passed, Here

LEMMA ContactFacts ==
    ASSUME ContactsInv, NEW i \in ContactIds, Here(i)
    PROVE  /\ contact[i] \in Contact /\ contact[i].id = i /\ i \in used
           /\ contact[i].at \in Nat /\ contact[i].at # 0 /\ i \in Nat
<1>1. contact[i] \in Contact BY DEF ContactsInv, ContactsTypeOK, Here, Maybe
<1>2. i \in Nat BY TimesAreNat, ContactsAssumption
<1> QED BY <1>1, <1>2, PagingAssumption DEF ContactsInv, ContactsToldApart, Contact, Times

LEMMA ContactsAreDocuments ==
    ASSUME Clocked, ContactsInv
    PROVE  Documents(All)
<1> DEFINE H == {i \in ContactIds : Here(i)}
           f == [i \in H |-> contact[i]]
<1>1. H \subseteq used BY ContactFacts
<1>2. IsFiniteSet(H) BY <1>1, FS_Subset DEF Clocked
<1>3. f \in Surjection(H, All) BY DEF Surjection, All
<1> HIDE DEF f, H
<1>4. IsFiniteSet(All) BY <1>2, <1>3, FS_Surjection
<1>5. \A d \in All : \E i \in ContactIds : Here(i) /\ d = contact[i] BY DEF All
<1>6. \A d \in All : d.id \in Nat /\ d.at \in Nat BY <1>5, ContactFacts
<1>7. \A d, e \in All : d.id = e.id => d = e
  <2> TAKE d, e \in All
  <2>1. PICK i \in ContactIds : Here(i) /\ d = contact[i] BY <1>5
  <2>2. PICK j \in ContactIds : Here(j) /\ e = contact[j] BY <1>5
  <2> QED BY <2>1, <2>2, ContactFacts
<1> QED BY <1>4, <1>6, <1>7 DEF Documents

(* A request begins or ends, and nothing else happens.                      *)
LEMMA ChangeStep ==
    ASSUME ContactsInv, NEW r \in Requests, NEW f \in Change, ChangeFits(f),
           change' = [change EXCEPT ![r] = f], UNCHANGED <<used, contact, sync, copy, overtaken>>
    PROVE  ContactsInv'
<1>1. change' \in [Requests -> Change] /\ change'[r] = f
      /\ \A q \in Requests \ {r} : change'[q] = change[q]
  BY DEF ContactsInv, ContactsTypeOK
<1>2. \A q \in Requests : ChangeFits(change'[q]) BY <1>1 DEF ContactsInv
<1>3. ContactsTypeOK' BY <1>1 DEF ContactsInv, ContactsTypeOK
<1>4. ContactsToldApart' /\ DatesAreRead' /\ PassedIsCopied'
  BY DEF ContactsInv, ContactsToldApart, DatesAreRead, GotTo, PassedIsCopied, Passed, Here
<1> QED BY <1>2, <1>3, <1>4 DEF ContactsInv

LEMMA NoChangeFits == NoChange \in Change /\ ChangeFits(NoChange)
  BY DEF NoChange, Change, ChangeFits, Maybe

LEMMA NowIsATime ==
    ASSUME Clocked
    PROVE  now \in Times /\ now \in Nat
  BY TimesAreNat DEF Clocked

LEMMA CreateContactStep ==
    ASSUME Clocked, ContactsInv, NEW r \in Requests, NEW p \in Peers, NEW F \in SUBSET Flags,
           CreateContact(r, p, F)
    PROVE  ContactsInv'
<1> DEFINE f == [NoChange EXCEPT !.at = "insert", !.peer = p, !.set = F, !.stamp = now]
<1>1. f \in Change /\ ChangeFits(f) BY NowIsATime DEF NoChange, Change, ChangeFits, Maybe
<1>2. change' = [change EXCEPT ![r] = f] /\ UNCHANGED <<used, contact, sync, copy, overtaken>>
  BY DEF CreateContact, Begin
<1> HIDE DEF f
<1> QED BY <1>1, <1>2, ChangeStep

LEMMA UpdateContactStep ==
    ASSUME Clocked, ContactsInv, NEW r \in Requests, NEW i \in ContactIds,
           NEW S \in SUBSET Flags, NEW C \in SUBSET Flags, UpdateContact(r, i, S, C)
    PROVE  ContactsInv'
<1> PICK data : data = BuildContactUpdateData(contact[i], S, C) OBVIOUS
<1> DEFINE f == [NoChange EXCEPT !.at = "write", !.id = i, !.asked = S \cup C,
                                 !.set = data.set, !.clear = data.clear, !.stamp = now]
<1>1. data.set \subseteq S /\ data.clear \subseteq C BY DEF BuildContactUpdateData
<1>2. f \in Change /\ ChangeFits(f)
  BY <1>1, NowIsATime DEF NoChange, Change, ChangeFits, Maybe
<1>3. change' = [change EXCEPT ![r] = f] /\ UNCHANGED <<used, contact, sync, copy, overtaken>>
  BY DEF UpdateContact, Begin
<1> HIDE DEF f
<1> QED BY <1>2, <1>3, ChangeStep

(* What is written with a date the client has passed is overtaken.          *)
LEMMA StoreStep ==
    ASSUME Clocked, ContactsInv, NEW r \in Requests, Finish(r), NEW d \in Contact, Store(d),
           UNCHANGED <<sync, copy>>, used \subseteq used', d.id \in used',
           \A j \in ContactIds \ {d.id} : Here(j) => contact[j].peer # d.peer
    PROVE  ContactsInv'
<1>1. d.id \in ContactIds /\ d.at \in Nat /\ d.at # 0 /\ d # None
  BY TimesAreNat, PagingAssumption, ContactsAssumption DEF Contact, Times
<1>2. /\ contact' = [contact EXCEPT ![d.id] = d]
      /\ overtaken' = IF GotTo(d.at) THEN overtaken \cup {d.id} ELSE overtaken \ {d.id}
      /\ change' = [change EXCEPT ![r] = NoChange]
  BY DEF Store, Finish
<1>3. /\ contact' \in [ContactIds -> Maybe(Contact)] /\ contact'[d.id] = d
      /\ \A j \in ContactIds \ {d.id} : contact'[j] = contact[j]
      /\ change' \in [Requests -> Change] /\ overtaken' \subseteq ContactIds
      /\ \A q \in Requests : change'[q] = change[q] \/ change'[q] = NoChange
  BY <1>1, <1>2, NoChangeFits DEF ContactsInv, ContactsTypeOK, Maybe
<1>4. ContactsTypeOK' BY <1>3 DEF ContactsInv, ContactsTypeOK
<1>5. \A q \in Requests : ChangeFits(change'[q]) BY <1>3, NoChangeFits DEF ContactsInv
<1>6. ContactsToldApart' BY <1>1, <1>3 DEF ContactsInv, ContactsToldApart, Here
<1>7. DatesAreRead' BY DEF ContactsInv, DatesAreRead, GotTo
<1>8. Passed(d) => GotTo(d.at)
  <2>1. \A j \in ContactIds : copy[j] # None => copy[j].at \in Nat
    BY TimesAreNat DEF ContactsInv, ContactsTypeOK, Maybe, Contact
  <2>2. sync.mark \in Nat BY PagingAssumption DEF ContactsInv, ContactsTypeOK
  <2>3. CASE d.at <= sync.mark
    <3>1. sync.mark # 0 BY <1>1, <2>2, <2>3
    <3>2. PICK j \in ContactIds : copy[j] # None /\ sync.mark <= copy[j].at
      BY <3>1 DEF ContactsInv, DatesAreRead, GotTo
    <3>3. d.at <= copy[j].at BY <1>1, <2>1, <2>2, <2>3, <3>2
    <3> QED BY <3>2, <3>3 DEF GotTo
  <2>4. CASE sync.cursor # None /\ ~Older(sync.cursor, d)
    <3>1. sync.cursor \in Contact BY <2>4 DEF ContactsInv, ContactsTypeOK, Maybe
    <3>2. sync.cursor.at \in Nat BY <3>1, TimesAreNat DEF Contact
    <3>3. d.at <= sync.cursor.at BY <1>1, <2>4, <3>2 DEF Older
    <3>4. PICK j \in ContactIds : copy[j] # None /\ sync.cursor.at <= copy[j].at
      BY <2>4 DEF ContactsInv, DatesAreRead, GotTo
    <3>5. d.at <= copy[j].at BY <1>1, <2>1, <3>2, <3>3, <3>4
    <3> QED BY <3>4, <3>5 DEF GotTo
  <2> QED BY <2>3, <2>4 DEF Passed
<1>9. PassedIsCopied'
  <2>1. ASSUME NEW i \in ContactIds, contact'[i] # None, Passed(contact'[i])
        PROVE  copy[i] = contact'[i] \/ i \in overtaken'
    <3>1. CASE i = d.id BY <1>2, <1>3, <1>8, <2>1, <3>1
    <3>2. CASE i # d.id
      BY <1>2, <1>3, <2>1, <3>2 DEF ContactsInv, PassedIsCopied, Here
    <3> QED BY <3>1, <3>2
  <2> QED BY <2>1 DEF PassedIsCopied, Passed, Here
<1> QED BY <1>4, <1>5, <1>6, <1>7, <1>9 DEF ContactsInv

LEMMA InsertContactStep ==
    ASSUME Clocked, ContactsInv, NEW r \in Requests, InsertContact(r)
    PROVE  ContactsInv'
<1>1. change[r].at = "insert" /\ Finish(r) /\ UNCHANGED <<sync, copy>> BY DEF InsertContact
<1>2. /\ change[r].peer \in Peers /\ change[r].stamp \in Times
      /\ change[r].set \in SUBSET Flags
  BY <1>1 DEF ContactsInv, ContactsTypeOK, ChangeFits, Change
<1>3. CASE Of(change[r].peer) # {}
  <2>1. UNCHANGED <<used, contact, sync, copy, overtaken>> BY <1>1, <1>3 DEF InsertContact
  <2> QED BY <1>1, <2>1, NoChangeFits, ChangeStep DEF Finish
<1>4. CASE Of(change[r].peer) = {}
  <2>1. PICK i \in ContactIds :
          /\ Fresh(i)
          /\ Store([id |-> i, peer |-> change[r].peer,
                    flags |-> change[r].set, at |-> change[r].stamp])
    BY <1>1, <1>4 DEF InsertContact
  <2> PICK d : d = [id |-> i, peer |-> change[r].peer,
                    flags |-> change[r].set, at |-> change[r].stamp]
    OBVIOUS
  <2>2. d \in Contact /\ d.id = i /\ d.peer = change[r].peer BY <1>2 DEF Contact
  <2>3. used \subseteq used' /\ i \in used' BY <2>1 DEF Fresh
  <2>4. \A j \in ContactIds \ {d.id} : Here(j) => contact[j].peer # d.peer
    BY <1>4, <2>2 DEF Of, All
  <2>5. Store(d) BY <2>1
  <2> QED BY <1>1, <2>2, <2>3, <2>4, <2>5, StoreStep
<1> QED BY <1>3, <1>4

LEMMA WriteContactStep ==
    ASSUME Clocked, ContactsInv, NEW r \in Requests, WriteContact(r)
    PROVE  ContactsInv'
<1>1. change[r].at = "write" /\ Finish(r) /\ UNCHANGED <<used, sync, copy>> BY DEF WriteContact
<1> PICK i : i = change[r].id OBVIOUS
<1>2. /\ i \in ContactIds /\ change[r].stamp \in Times
      /\ change[r].set \in SUBSET Flags
  BY <1>1 DEF ContactsInv, ContactsTypeOK, ChangeFits, Change
<1>3. CASE ~Here(i)
  <2>1. UNCHANGED <<used, contact, sync, copy, overtaken>> BY <1>1, <1>3 DEF WriteContact
  <2> QED BY <1>1, <2>1, NoChangeFits, ChangeStep DEF Finish
<1>4. CASE Here(i)
  <2> PICK d : d = [contact[i] EXCEPT !.flags = (@ \cup change[r].set) \ change[r].clear,
                                      !.at = change[r].stamp]
    OBVIOUS
  <2>1. contact[i] \in Contact /\ contact[i].id = i /\ i \in used BY <1>2, <1>4, ContactFacts
  <2>2. d \in Contact /\ d.id = i /\ d.peer = contact[i].peer BY <1>2, <2>1 DEF Contact
  <2>3. Store(d) BY <1>1, <1>4 DEF WriteContact
  <2>4. \A j \in ContactIds \ {d.id} : Here(j) => contact[j].peer # d.peer
    BY <1>2, <1>4, <2>2 DEF ContactsInv, ContactsToldApart
  <2>5. used \subseteq used' /\ d.id \in used' BY <1>1, <2>1, <2>2
  <2> QED BY <1>1, <2>2, <2>3, <2>4, <2>5, StoreStep
<1> QED BY <1>3, <1>4

LEMMA RemoveContactsStep ==
    ASSUME ContactsInv, NEW D, RemoveContacts(D)
    PROVE  ContactsInv'
<1>1. /\ contact' = [i \in ContactIds |-> IF contact[i] \in D THEN None ELSE contact[i]]
      /\ UNCHANGED <<used, change, sync, copy, overtaken>>
  BY DEF RemoveContacts
<1>2. /\ contact' \in [ContactIds -> Maybe(Contact)]
      /\ \A i \in ContactIds : contact'[i] = None \/ contact'[i] = contact[i]
  BY <1>1 DEF ContactsInv, ContactsTypeOK, Maybe
<1>3. ContactsTypeOK' BY <1>1, <1>2 DEF ContactsInv, ContactsTypeOK
<1>4. ContactsToldApart' /\ PassedIsCopied'
  BY <1>1, <1>2 DEF ContactsInv, ContactsToldApart, PassedIsCopied, Passed, Here
<1>5. DatesAreRead' BY <1>1 DEF ContactsInv, DatesAreRead, GotTo
<1> QED BY <1>1, <1>3, <1>4, <1>5 DEF ContactsInv

LEMMA StartSyncStep ==
    ASSUME ContactsInv, StartSync
    PROVE  ContactsInv'
<1>1. /\ sync' = [sync EXCEPT !.on = TRUE]
      /\ UNCHANGED <<used, contact, change, copy, overtaken>>
  BY DEF StartSync
<1>2. /\ sync' \in [on : BOOLEAN, cursor : Maybe(Contact), mark : 0 .. MaxTime]
      /\ sync'.on /\ sync'.cursor = sync.cursor /\ sync'.mark = sync.mark
  BY <1>1 DEF ContactsInv, ContactsTypeOK
<1> QED BY <1>1, <1>2 DEF ContactsInv, ContactsTypeOK, ContactsToldApart, DatesAreRead, GotTo,
                          PassedIsCopied, Passed, Here

LEMMA AbandonSyncStep ==
    ASSUME ContactsInv, AbandonSync
    PROVE  ContactsInv'
<1>1. /\ sync' = [sync EXCEPT !.on = FALSE, !.cursor = None]
      /\ UNCHANGED <<used, contact, change, copy, overtaken>>
  BY DEF AbandonSync
<1>2. /\ sync' \in [on : BOOLEAN, cursor : Maybe(Contact), mark : 0 .. MaxTime]
      /\ sync'.cursor = None /\ sync'.mark = sync.mark
  BY <1>1 DEF ContactsInv, ContactsTypeOK, Maybe
<1> QED BY <1>1, <1>2 DEF ContactsInv, ContactsTypeOK, ContactsToldApart, DatesAreRead, GotTo,
                          PassedIsCopied, Passed, Here

LEMMA LatestIsOneOfThem ==
    ASSUME NEW S, Documents(S), NEW n \in Nat
    PROVE  Max({d.at : d \in S} \cup {n}) \in {d.at : d \in S} \cup {n}
<1> PICK T : T = {d.at : d \in S} \cup {n} OBVIOUS
<1>1. \A t \in T : t \in Nat BY DEF Documents
<1>2. \E m \in T : \A t \in T : m >= t
  <2>1. CASE S = {} BY <2>1
  <2>2. CASE S # {}
    <3>1. PICK d \in S : \A e \in S \ {d} : Before("asc", e, d) BY <2>2, LastExists
    <3>2. \A e \in S : d.at \in Nat /\ e.at \in Nat /\ d.at >= e.at
      BY <3>1 DEF Documents, Before, Older
    <3>3. CASE d.at >= n BY <3>2, <3>3
    <3>4. CASE ~(d.at >= n)
      <4>1. n \in T /\ \A t \in T : n >= t BY <3>2, <3>4
      <4> QED BY <4>1
    <3> QED BY <3>3, <3>4
  <2> QED BY <2>1, <2>2
<1> QED BY <1>2 DEF Max

(* The page has everything up to the next cursor, so what the client has     *)
(* passed it has read.                                                      *)
LEMMA FindContactsStep ==
    ASSUME Clocked, ContactsInv, FindContacts
    PROVE  ContactsInv'
<1> PICK c : c = sync.cursor OBVIOUS
<1> PICK D : D = Changed(c) OBVIOUS
<1> PICK page : page = First(Limit, D, "asc") OBVIOUS
<1> PICK next : next = NextCursor(D, "asc") OBVIOUS
<1> PICK ids : ids = {d.id : d \in page} OBVIOUS
<1> PICK mark : mark = sync.mark OBVIOUS
<1> PICK last : last = Max({d.at : d \in page} \cup {From(c)}) OBVIOUS
<1>1. /\ copy' = [i \in ContactIds |-> IF i \in ids THEN contact[i] ELSE copy[i]]
      /\ overtaken' = overtaken \ ids
      /\ sync.on
      /\ sync' = IF next # None THEN [sync EXCEPT !.cursor = next]
                 ELSE [on |-> FALSE, cursor |-> None, mark |-> last]
      /\ UNCHANGED <<used, contact, change>>
  BY DEF FindContacts
<1>2. D \subseteq All /\ page \subseteq D
      /\ \A d \in All : d \in D <=> d.at > sync.mark /\ (c # None => Older(c, d))
  BY DEF Changed, First
<1>3. Documents(D) /\ Documents(page)
  <2>1. Documents(All) BY ContactsAreDocuments
  <2> QED BY <1>2, <2>1, FS_Subset DEF Documents
<1>4. \A i \in ContactIds : i \in ids <=> Here(i) /\ contact[i] \in page
  <2>1. \A d \in page : \E i \in ContactIds : Here(i) /\ d = contact[i] BY <1>2 DEF All
  <2> QED BY <2>1, ContactFacts
<1>5. \A d \in page : d \in Contact /\ d # None /\ d.id \in ids /\ contact[d.id] = d
                     /\ d.at \in Nat /\ d.at # 0 /\ d.at \in Times /\ d.id \in ContactIds
  <2>1. \A d \in page : \E i \in ContactIds : Here(i) /\ d = contact[i] BY <1>2 DEF All
  <2> QED BY <2>1, ContactFacts, ContactsAssumption DEF Contact
<1>6. page = D => next = None BY DEF NextCursor
<1>7. page # D => /\ next \in page /\ next # None
                  /\ \A e \in D : ~Older(next, e) => e \in page
  <2>1. SUFFICES ASSUME page # D
                 PROVE  /\ next \in page /\ next # None
                        /\ \A e \in D : ~Older(next, e) => e \in page
    OBVIOUS
  <2>2. /\ next \in page
        /\ \A e \in D : ~Before("asc", next, e) => e \in page
    BY <1>3, <2>1, CursorEndsPage
  <2> QED BY <1>5, <2>2 DEF Before
<1>8. /\ sync \in [on : BOOLEAN, cursor : Maybe(Contact), mark : 0 .. MaxTime]
      /\ sync.mark \in Nat /\ c \in Maybe(Contact)
      /\ c # None => c.at \in Times /\ c.at \in Nat /\ c.at # 0
      /\ contact \in [ContactIds -> Maybe(Contact)] /\ copy \in [ContactIds -> Maybe(Contact)]
  BY TimesAreNat, PagingAssumption DEF ContactsInv, ContactsTypeOK, Maybe, Contact, Times
<1>9. From(c) \in 0 .. MaxTime /\ From(c) \in Nat BY <1>8 DEF From, Times
<1>10. last \in {d.at : d \in page} \cup {From(c)} BY <1>3, <1>9, LatestIsOneOfThem
<1>11. last \in 0 .. MaxTime BY <1>5, <1>9, <1>10, PagingAssumption DEF Times
<1>12. ContactsTypeOK'
  <2>1. copy' \in [ContactIds -> Maybe(Contact)] BY <1>1, <1>8
  <2>2. sync' \in [on : BOOLEAN, cursor : Maybe(Contact), mark : 0 .. MaxTime]
    BY <1>1, <1>5, <1>6, <1>7, <1>8, <1>11 DEF Maybe
  <2> QED BY <1>1, <2>1, <2>2 DEF ContactsInv, ContactsTypeOK
<1>13. ContactsToldApart' BY <1>1 DEF ContactsInv, ContactsToldApart, Here
<1>14. \A d \in page : GotTo(d.at)'
  <2> TAKE d \in page
  <2>1. d.id \in ContactIds /\ copy'[d.id] = d BY <1>1, <1>5
  <2>2. d.at <= d.at BY <1>5
  <2> QED BY <1>5, <2>1, <2>2 DEF GotTo
(* A document that is read again has a later date than before.              *)
<1>15. ASSUME NEW t \in Nat, GotTo(t), \A d \in D : t <= d.at
       PROVE  GotTo(t)'
  <2>1. PICK j \in ContactIds : copy[j] # None /\ t <= copy[j].at BY <1>15 DEF GotTo
  <2>2. CASE j \in ids
    <3>1. Here(j) /\ copy'[j] = contact[j] /\ contact[j] \in D BY <1>1, <1>2, <1>4, <2>2
    <3>2. copy'[j] # None /\ t <= copy'[j].at BY <1>15, <3>1 DEF Here
    <3> QED BY <3>2 DEF GotTo
  <2>3. CASE j \notin ids
    <3>1. copy'[j] = copy[j] BY <1>1, <2>3
    <3> QED BY <2>1, <3>1 DEF GotTo
  <2> QED BY <2>2, <2>3
<1>16. mark # 0 => GotTo(mark)'
  <2>1. \A d \in D : mark <= d.at BY <1>2, <1>3, <1>8 DEF Documents
  <2>2. mark # 0 => GotTo(mark) BY DEF ContactsInv, DatesAreRead
  <2> QED BY <1>8, <1>15, <2>1, <2>2
<1>17. c # None => GotTo(c.at)'
  <2>1. c # None => \A d \in D : c.at <= d.at BY <1>2, <1>3, <1>8 DEF Documents, Older
  <2>2. c # None => GotTo(c.at) BY DEF ContactsInv, DatesAreRead
  <2> QED BY <1>8, <1>15, <2>1, <2>2
<1>18. DatesAreRead'
  <2>1. CASE next = None
    <3>1. sync' = [on |-> FALSE, cursor |-> None, mark |-> last] BY <1>1, <2>1
    <3>2. last # 0 => GotTo(last)' BY <1>10, <1>14, <1>16, <1>17 DEF From
    <3> QED BY <3>1, <3>2 DEF DatesAreRead, GotTo
  <2>2. CASE next # None
    <3>1. /\ sync'.on /\ sync'.cursor = next /\ sync'.mark = sync.mark BY <1>1, <1>8, <2>2
    <3>2. next \in page /\ next \in D BY <1>2, <1>6, <1>7, <2>2
    <3>3. sync.mark < next.at /\ GotTo(next.at)' BY <1>2, <1>5, <1>8, <1>14, <3>2
    <3> QED BY <1>16, <3>1, <3>3 DEF DatesAreRead, GotTo
  <2> QED BY <2>1, <2>2
<1>19. PassedIsCopied'
  <2>1. ASSUME NEW i \in ContactIds, Here(i), Passed(contact[i])'
        PROVE  copy'[i] = contact[i] \/ i \in overtaken'
    <3>1. CASE i \in ids BY <1>1, <3>1
    <3>2. CASE i \notin ids
      <4>1. copy'[i] = copy[i] /\ (i \in overtaken => i \in overtaken') BY <1>1, <3>2
      <4>2. Passed(contact[i])
        <5>1. SUFFICES ASSUME ~Passed(contact[i]) PROVE FALSE OBVIOUS
        <5>2. contact[i].at \in Nat /\ contact[i] \in All BY <2>1, ContactFacts DEF All
        <5>3. contact[i] \in D BY <1>2, <1>8, <5>1, <5>2 DEF Passed
        <5>4. page # D BY <1>4, <2>1, <3>2, <5>3
        <5>5. sync'.cursor = next /\ sync'.mark = sync.mark BY <1>1, <1>7, <1>8, <5>4
        <5>6. contact[i].at <= sync'.mark \/ ~Older(next, contact[i])
          BY <1>1, <2>1, <5>5 DEF Passed
        <5>7. ~Older(next, contact[i]) BY <1>2, <1>8, <5>2, <5>3, <5>5, <5>6
        <5>8. contact[i] \in page BY <1>7, <5>3, <5>4, <5>7
        <5> QED BY <1>4, <2>1, <3>2, <5>8
      <4> QED BY <2>1, <4>1, <4>2 DEF ContactsInv, PassedIsCopied
    <3> QED BY <3>1, <3>2
  <2> QED BY <1>1, <2>1 DEF PassedIsCopied, Here
<1>20. \A q \in Requests : ChangeFits(change'[q]) BY <1>1 DEF ContactsInv
<1> QED BY <1>12, <1>13, <1>18, <1>19, <1>20 DEF ContactsInv

LEMMA ContactChangesStep ==
    ASSUME Clocked, ContactsInv, NEW B \in SUBSET [set : SUBSET Flags, clear : SUBSET Flags],
           ContactChanges(B)
    PROVE  ContactsInv'
<1>1. \A b \in B : b.set \in SUBSET Flags /\ b.clear \in SUBSET Flags OBVIOUS
<1>2. CASE \E r \in Requests, p \in Peers, b \in B : CreateContact(r, p, b.set)
  BY <1>1, <1>2, CreateContactStep
<1>3. CASE \E r \in Requests, i \in ContactIds, b \in B : UpdateContact(r, i, b.set, b.clear)
  BY <1>1, <1>3, UpdateContactStep
<1>4. CASE \E r \in Requests : InsertContact(r) BY <1>4, InsertContactStep
<1>5. CASE \E r \in Requests : WriteContact(r) BY <1>5, WriteContactStep
<1>6. CASE \E i \in ContactIds : RemoveContact(i)
  BY <1>6, RemoveContactsStep DEF RemoveContact
<1>7. CASE DeleteAllContacts BY <1>7, RemoveContactsStep DEF DeleteAllContacts
<1> QED BY <1>2, <1>3, <1>4, <1>5, <1>6, <1>7 DEF ContactChanges

LEMMA ContactSyncStep ==
    ASSUME Clocked, ContactsInv, ContactSync
    PROVE  ContactsInv'
  BY StartSyncStep, FindContactsStep, AbandonSyncStep DEF ContactSync

(* What BlockStays says of a step.                                          *)
BlockKept == \A p \in Peers : ~CanCall(p) /\ CanCall(p)' =>
    \/ Of(p)' = {}
    \/ \E r \in Requests : /\ "isBlocked" \in change[r].asked
                           /\ change'[r] = NoChange

LEMMA BlockUntouched ==
    ASSUME UNCHANGED contact
    PROVE  BlockKept
  BY DEF BlockKept, CanCall, Of, All, Here

LEMMA BlockKeptByInsert ==
    ASSUME ContactsInv, NEW r \in Requests, InsertContact(r)
    PROVE  BlockKept
<1>1. CASE UNCHANGED contact BY <1>1, BlockUntouched
<1>2. CASE ~(UNCHANGED contact)
  <2>1. PICK i \in ContactIds :
          /\ Fresh(i)
          /\ Store([id |-> i, peer |-> change[r].peer,
                    flags |-> change[r].set, at |-> change[r].stamp])
    BY <1>2 DEF InsertContact
  <2>2. ~Here(i) BY <2>1, ContactFacts DEF Fresh
  <2>3. \A j \in ContactIds : Here(j) => contact'[j] = contact[j]
    BY <2>1, <2>2 DEF Store, ContactsInv, ContactsTypeOK
  <2>4. All \subseteq All' BY <2>3 DEF All, Here
  <2> QED BY <2>4 DEF BlockKept, CanCall, Of
<1> QED BY <1>1, <1>2

(* Only fields the request asked for are cleared.                           *)
LEMMA BlockKeptByWrite ==
    ASSUME ContactsInv, NEW r \in Requests, WriteContact(r)
    PROVE  BlockKept
<1>1. CASE UNCHANGED contact BY <1>1, BlockUntouched
<1>2. CASE ~(UNCHANGED contact)
  <2> PICK i : i = change[r].id OBVIOUS
  <2>1. /\ change[r].at = "write" /\ Here(i) /\ change' = [change EXCEPT ![r] = NoChange]
        /\ Store([contact[i] EXCEPT !.flags = (@ \cup change[r].set) \ change[r].clear,
                                    !.at = change[r].stamp])
    BY <1>2 DEF WriteContact, Finish
  <2>2. i \in ContactIds /\ change[r].clear \subseteq change[r].asked /\ change'[r] = NoChange
    BY <2>1 DEF ContactsInv, ContactsTypeOK, ChangeFits
  <2> PICK d : d = [contact[i] EXCEPT !.flags = (@ \cup change[r].set) \ change[r].clear,
                                      !.at = change[r].stamp]
    OBVIOUS
  <2>3. contact[i] \in Contact /\ contact[i].id = i BY <2>1, <2>2, ContactFacts
  <2>4. /\ d \in [id : ContactIds, peer : Peers, flags : SUBSET Flags, at : {change[r].stamp}]
        /\ d.id = i /\ d.peer = contact[i].peer
        /\ d.flags = (contact[i].flags \cup change[r].set) \ change[r].clear
    BY <2>2, <2>3 DEF Contact, ContactsInv, ContactsTypeOK, Change
  <2>5. d # None /\ contact' = [contact EXCEPT ![i] = d]
    <3>1. change[r].stamp \in Times BY <2>1 DEF ContactsInv, ChangeFits
    <3>2. d \in Contact BY <2>4, <3>1 DEF Contact
    <3> QED BY <2>1, <2>4, <3>2, ContactsAssumption DEF Store
  <2>6. contact'[i] = d /\ \A j \in ContactIds \ {i} : contact'[j] = contact[j]
    BY <2>2, <2>5 DEF ContactsInv, ContactsTypeOK
  <2>7. ASSUME NEW p \in Peers, ~CanCall(p), CanCall(p)'
        PROVE  "isBlocked" \in change[r].asked
    <3>1. PICK j \in ContactIds :
            Here(j) /\ contact[j].peer = p /\ "isBlocked" \in contact[j].flags
      BY <2>7 DEF CanCall, Of, All
    <3>2. \A k \in ContactIds : contact'[k] # None /\ contact'[k].peer = p
                                => "isBlocked" \notin contact'[k].flags
      BY <2>7 DEF CanCall, Of, All, Here
    <3>3. j = i BY <2>6, <3>1, <3>2 DEF Here
    <3>4. "isBlocked" \notin d.flags
      <4>1. contact'[i] # None /\ contact'[i].peer = p BY <2>4, <2>5, <2>6, <3>1, <3>3
      <4> QED BY <2>2, <2>6, <3>2, <4>1
    <3> QED BY <2>2, <2>4, <3>1, <3>3, <3>4
  <2> QED BY <2>2, <2>7 DEF BlockKept
<1> QED BY <1>1, <1>2

(* The contact of a caller is the only one.                                 *)
LEMMA BlockKeptByRemoval ==
    ASSUME ContactsInv, NEW D, RemoveContacts(D)
    PROVE  BlockKept
<1>1. /\ contact' = [i \in ContactIds |-> IF contact[i] \in D THEN None ELSE contact[i]]
      /\ \A i \in ContactIds : contact'[i] # None => contact'[i] = contact[i]
  BY DEF RemoveContacts
<1>2. ASSUME NEW p \in Peers, ~CanCall(p), CanCall(p)'
      PROVE  Of(p)' = {}
  <2>1. PICK j \in ContactIds :
          Here(j) /\ contact[j].peer = p /\ "isBlocked" \in contact[j].flags
    BY <1>2 DEF CanCall, Of, All
  <2>2. \A k \in ContactIds : contact'[k] # None /\ contact'[k].peer = p
                              => "isBlocked" \notin contact'[k].flags
    BY <1>2 DEF CanCall, Of, All, Here
  <2>3. contact'[j] = None BY <1>1, <2>1, <2>2
  <2>4. \A k \in ContactIds : contact'[k] # None => contact'[k].peer # p
    BY <1>1, <2>1, <2>3 DEF ContactsInv, ContactsToldApart, Here
  <2> QED BY <2>4 DEF Of, All, Here
<1> QED BY <1>2 DEF BlockKept

LEMMA BlockKeptByChanges ==
    ASSUME ContactsInv, NEW B, ContactChanges(B)
    PROVE  BlockKept
<1>1. CASE \E r \in Requests, p \in Peers, b \in B : CreateContact(r, p, b.set)
  BY <1>1, BlockUntouched DEF CreateContact
<1>2. CASE \E r \in Requests, i \in ContactIds, b \in B : UpdateContact(r, i, b.set, b.clear)
  BY <1>2, BlockUntouched DEF UpdateContact
<1>3. CASE \E r \in Requests : InsertContact(r) BY <1>3, BlockKeptByInsert
<1>4. CASE \E r \in Requests : WriteContact(r) BY <1>4, BlockKeptByWrite
<1>5. CASE \E i \in ContactIds : RemoveContact(i)
  BY <1>5, BlockKeptByRemoval DEF RemoveContact
<1>6. CASE DeleteAllContacts BY <1>6, BlockKeptByRemoval DEF DeleteAllContacts
<1> QED BY <1>1, <1>2, <1>3, <1>4, <1>5, <1>6 DEF ContactChanges

LEMMA BlockKeptBySync ==
    ASSUME ContactSync
    PROVE  BlockKept
  BY BlockUntouched DEF ContactSync, StartSync, FindContacts, AbandonSync

-----------------------------------------------------------------------------
(* Notifications *)

NoticesInv == NotificationsTypeOK /\ IsFiniteSet(notice)

Requested == [on : BOOLEAN, status : Filters, offset : Nat,
              data : (SUBSET Ids) \cup {None}, total : Nat \cup {None}]

LEMMA NoticesKept ==
    ASSUME NoticesInv, UNCHANGED noticeVars
    PROVE  NoticesInv'
  BY DEF NoticesInv, NotificationsTypeOK, noticeVars

LEMMA CreateNotificationStep ==
    ASSUME Clocked, NoticesInv, NEW i \in Ids, NEW t \in Stamps, CreateNotification(i, t)
    PROVE  NoticesInv'
<1>1. t \in Times BY TimesAreNat, PagingAssumption DEF Clocked, Stamps, Times
<1> PICK d : d = [id |-> i, at |-> t, read |-> FALSE] OBVIOUS
<1>2. d \in Notice BY <1>1 DEF Notice
<1>3. notice' = notice \cup {d} /\ expected' \subseteq expected /\ UNCHANGED <<list, listed>>
  BY DEF CreateNotification
<1>4. shaken' \in BOOLEAN BY DEF CreateNotification
<1>5. IsFiniteSet(notice') BY <1>3, FS_AddElement DEF NoticesInv
<1> QED BY <1>2, <1>3, <1>4, <1>5 DEF NoticesInv, NotificationsTypeOK

LEMMA MarkAsReadStep ==
    ASSUME NoticesInv, NEW S \in SUBSET Ids, MarkAsRead(S)
    PROVE  NoticesInv'
<1> DEFINE f == [d \in notice |-> [d EXCEPT !.read = @ \/ d.id \in S]]
<1>1. /\ notice' = {[d EXCEPT !.read = @ \/ d.id \in S] : d \in notice}
      /\ UNCHANGED <<list, listed, expected>>
  BY DEF MarkAsRead
<1>2. shaken' \in BOOLEAN BY DEF MarkAsRead
<1>3. f \in Surjection(notice, notice') BY <1>1 DEF Surjection
<1>4. IsFiniteSet(notice')
  <2> HIDE DEF f
  <2> QED BY <1>3, FS_Surjection DEF NoticesInv
<1>5. notice' \subseteq Notice
  <2>1. \A d \in notice : d \in Notice BY DEF NoticesInv, NotificationsTypeOK
  <2>2. \A d \in Notice : [d EXCEPT !.read = @ \/ d.id \in S] \in Notice BY DEF Notice
  <2> QED BY <1>1, <2>1, <2>2
<1> QED BY <1>1, <1>2, <1>4, <1>5 DEF NoticesInv, NotificationsTypeOK

LEMMA DeleteStep ==
    ASSUME NoticesInv, NEW D, Delete(D)
    PROVE  NoticesInv'
<1>1. notice' \subseteq notice /\ expected' \subseteq expected
      /\ UNCHANGED <<list, listed, shaken>>
  BY DEF Delete
<1>2. IsFiniteSet(notice') BY <1>1, FS_Subset DEF NoticesInv
<1> QED BY <1>1, <1>2 DEF NoticesInv, NotificationsTypeOK

LEMMA OpenNotificationsStep ==
    ASSUME NoticesInv, NEW status \in Filters, OpenNotifications(status)
    PROVE  NoticesInv'
<1>1. notice' = notice /\ listed' = {} /\ shaken' = FALSE /\ list' \in Requested
  BY DEF OpenNotifications, Requested
<1>2. expected' \subseteq Ids
  <2>1. \A d \in Matching(status) : d.id \in Ids
    BY DEF Matching, NoticesInv, NotificationsTypeOK, Notice
  <2> QED BY <2>1 DEF OpenNotifications
<1> QED BY <1>1, <1>2 DEF NoticesInv, NotificationsTypeOK, Requested

LEMMA FindNotificationsStep ==
    ASSUME NoticesInv, FindNotifications
    PROVE  NoticesInv'
<1>1. list \in Requested /\ UNCHANGED <<notice, listed, expected, shaken>>
  BY DEF FindNotifications, NoticesInv, NotificationsTypeOK, Requested
<1>2. PICK up \in BOOLEAN : list' = [list EXCEPT !.data =
          {d.id : d \in Page(Matching(list.status), list.offset, up)}]
  BY DEF FindNotifications
<1>3. {d.id : d \in Page(Matching(list.status), list.offset, up)} \subseteq Ids
  BY DEF Page, Matching, NoticesInv, NotificationsTypeOK, Notice
<1>4. list' \in Requested BY <1>1, <1>2, <1>3 DEF Requested
<1> QED BY <1>1, <1>4 DEF NoticesInv, NotificationsTypeOK, Requested

LEMMA CountNotificationsStep ==
    ASSUME NoticesInv, CountNotifications
    PROVE  NoticesInv'
<1>1. list \in Requested /\ UNCHANGED <<notice, listed, expected, shaken>>
  BY DEF CountNotifications, NoticesInv, NotificationsTypeOK, Requested
<1> PICK M : M = Matching(list.status) OBVIOUS
<1>2. Cardinality(M) \in Nat BY FS_Subset, FS_CardinalityType DEF Matching, NoticesInv
<1>3. list' \in Requested BY <1>1, <1>2 DEF CountNotifications, Requested
<1> QED BY <1>1, <1>3 DEF NoticesInv, NotificationsTypeOK, Requested

LEMMA GetNotificationsStep ==
    ASSUME NoticesInv, GetNotifications
    PROVE  NoticesInv'
<1> DEFINE next == list.offset + Cardinality(list.data) < list.total
<1>1. list \in Requested /\ list.data # None /\ listed' = listed \cup list.data
      /\ UNCHANGED <<notice, expected, shaken>>
  BY DEF GetNotifications, NoticesInv, NotificationsTypeOK, Requested
<1>2. list' \in Requested
  <2>1. list' = [list EXCEPT !.on = next, !.offset = IF next THEN @ + Limit ELSE 0,
                             !.data = None, !.total = None]
    BY DEF GetNotifications
  <2>2. next \in BOOLEAN OBVIOUS
  <2> HIDE DEF next
  <2>3. CASE next
    <3>1. list' = [list EXCEPT !.on = TRUE, !.offset = @ + Limit, !.data = None, !.total = None]
      BY <2>1, <2>2, <2>3
    <3>2. list.offset + Limit \in Nat BY <1>1, PagingAssumption DEF Requested
    <3>3. PICK o \in Nat : o = list.offset + Limit BY <3>2
    <3>4. list' = [list EXCEPT !.on = TRUE, !.offset = o, !.data = None, !.total = None]
      BY <1>1, <3>1, <3>3 DEF Requested
    <3> QED BY <1>1, <3>4 DEF Requested
  <2>4. CASE ~next
    <3>1. list' = [list EXCEPT !.on = FALSE, !.offset = 0, !.data = None, !.total = None]
      BY <2>1, <2>2, <2>4
    <3> QED BY <1>1, <3>1 DEF Requested
  <2> QED BY <2>2, <2>3, <2>4
<1>3. listed' \subseteq Ids BY <1>1 DEF Requested, NoticesInv, NotificationsTypeOK
<1> QED BY <1>1, <1>2, <1>3 DEF NoticesInv, NotificationsTypeOK, Requested

LEMMA NotificationsNextStep ==
    ASSUME Clocked, NoticesInv, NotificationsNext
    PROVE  NoticesInv'
  BY CreateNotificationStep, MarkAsReadStep, DeleteStep, OpenNotificationsStep,
     FindNotificationsStep, CountNotificationsStep, GetNotificationsStep
  DEF NotificationsNext, NotificationExpires, DeleteAllNotifications

-----------------------------------------------------------------------------
(* All lists together                                                       *)

IInv ==
    /\ part \in Parts
    /\ Clocked
    /\ ContactsInv
    /\ LogsInv
    /\ NoticesInv

LEMMA InitIInv == Init => IInv
<1> SUFFICES ASSUME Init PROVE IInv OBVIOUS
<1>1. part \in Parts BY DEF Init
<1>2. Clocked
  <2>1. now = 1 /\ used = {} BY DEF Init
  <2> QED BY <2>1, PagingAssumption, FS_EmptySet DEF Clocked, Times
<1>3. ContactsInv
  <2>1. /\ contact = [i \in ContactIds |-> None] /\ change = [r \in Requests |-> NoChange]
        /\ sync = [on |-> FALSE, cursor |-> None, mark |-> 0]
        /\ copy = [i \in ContactIds |-> None] /\ overtaken = {}
    BY DEF Init, ContactsInit
  <2>2. ContactsTypeOK BY <2>1, NoChangeFits, PagingAssumption DEF ContactsTypeOK, Maybe
  <2>3. \A r \in Requests : ChangeFits(change[r]) BY <2>1, NoChangeFits
  <2> QED BY <2>1, <2>2, <2>3
          DEF ContactsInv, ContactsToldApart, DatesAreRead, PassedIsCopied, Here
<1>4. LogsInv
  <2>1. /\ log = {} /\ pages = [on |-> FALSE, cursor |-> None]
        /\ shown = {} /\ twice = {} /\ atStart = {}
    BY DEF Init, CallLogsInit
  <2> QED BY <2>1, FS_EmptySet
          DEF LogsInv, CallLogsTypeOK, LogsToldApart, ShownUpToCursor, LogsShownOnce
<1>5. NoticesInv
  <2>1. /\ notice = {} /\ listed = {} /\ expected = {} /\ shaken = FALSE
        /\ list = [on |-> FALSE, status |-> "all", offset |-> 0, data |-> None, total |-> None]
    BY DEF Init, NotificationsInit
  <2> QED BY <2>1, FS_EmptySet DEF NoticesInv, NotificationsTypeOK, Filters
<1> QED BY <1>1, <1>2, <1>3, <1>4, <1>5 DEF IInv

(* The clock, and the ids that are given away.                              *)
LEMMA FreshKeepsClocked ==
    ASSUME Clocked, UNCHANGED now, NEW i \in Ids, Fresh(i)
    PROVE  Clocked'
<1>1. now' = now /\ used' = used \cup {i} BY DEF Fresh
<1> QED BY <1>1, FS_AddElement DEF Clocked

LEMMA ClockedStep ==
    ASSUME IInv, [Next]_vars
    PROVE  Clocked' /\ used \subseteq used'
<1> SUFFICES ASSUME Clocked PROVE Clocked' /\ used \subseteq used' BY DEF IInv
<1>1. ASSUME UNCHANGED <<now, used>> PROVE Clocked' /\ used \subseteq used'
  BY <1>1 DEF Clocked
<1>2. ASSUME UNCHANGED now, NEW i \in Ids, Fresh(i) PROVE Clocked' /\ used \subseteq used'
  BY <1>2, FreshKeepsClocked DEF Fresh
<1>3. CASE now < Clock[part] /\ ClockTicks
  <2>1. Clock[part] \in Times BY FeedsAssumption DEF IInv
  <2>2. now' = now + 1 /\ used' = used /\ now < Clock[part] BY <1>3 DEF ClockTicks
  <2>3. now' \in Times BY <2>1, <2>2, PagingAssumption DEF Clocked, Times
  <2> QED BY <2>2, <2>3 DEF Clocked
<1>4. CASE \E B : ContactChanges(B)
  <2>1. PICK B : ContactChanges(B) BY <1>4
  <2>2. CASE \E r \in Requests : InsertContact(r)
    BY <1>1, <1>2, <2>2, ContactsAssumption DEF InsertContact
  <2>3. CASE ~(\E r \in Requests : InsertContact(r))
    BY <1>1, <2>1, <2>3
    DEF ContactChanges, CreateContact, UpdateContact, WriteContact, RemoveContact,
        DeleteAllContacts, RemoveContacts
  <2> QED BY <2>2, <2>3
<1>5. CASE ContactSync
  BY <1>1, <1>5 DEF ContactSync, StartSync, FindContacts, AbandonSync
<1>6. CASE CallLogsNext
  BY <1>1, <1>2, <1>6
  DEF CallLogsNext, CreateCallLog, DeleteAllCallLogs, OpenCallLogs, GetCallLogs
<1>7. CASE NotificationsNext
  BY <1>1, <1>2, <1>7
  DEF NotificationsNext, CreateNotification, MarkAsRead, NotificationExpires,
      DeleteAllNotifications, Delete, OpenNotifications, FindNotifications,
      CountNotifications, GetNotifications
<1>8. CASE UNCHANGED vars BY <1>1, <1>8 DEF vars, clockVars
<1> QED BY <1>3, <1>4, <1>5, <1>6, <1>7, <1>8 DEF Next

LEMMA IInvStep ==
    ASSUME IInv, [Next]_vars
    PROVE  IInv'
<1>1. Clocked' /\ used \subseteq used' BY ClockedStep
<1>2. part' \in Parts BY DEF IInv, Next, vars, clockVars
<1>3. ContactsInv'
  <2>1. CASE UNCHANGED contactVars BY <1>1, <2>1, ContactsKept DEF IInv
  <2>2. CASE part \in {"contacts", "blocks"} /\ ContactChanges(Bodies[part])
    <3>1. Bodies[part] \in SUBSET [set : SUBSET Flags, clear : SUBSET Flags]
      BY <2>2, FeedsAssumption
    <3> QED BY <2>2, <3>1, ContactChangesStep DEF IInv
  <2>3. CASE ContactSync BY <2>3, ContactSyncStep DEF IInv
  <2> QED BY <2>1, <2>2, <2>3 DEF Next, vars
<1>4. LogsInv'
  <2>1. CASE UNCHANGED logVars BY <1>1, <2>1, LogsKept DEF IInv
  <2>2. CASE CallLogsNext BY <2>2, CallLogsNextStep DEF IInv
  <2> QED BY <2>1, <2>2 DEF Next, vars
<1>5. NoticesInv'
  <2>1. CASE UNCHANGED noticeVars BY <2>1, NoticesKept DEF IInv
  <2>2. CASE NotificationsNext BY <2>2, NotificationsNextStep DEF IInv
  <2> QED BY <2>1, <2>2 DEF Next, vars
<1> QED BY <1>1, <1>2, <1>3, <1>4, <1>5 DEF IInv

LEMMA Invariance == Spec => []IInv
<1>1. Init => IInv BY InitIInv
<1>2. IInv /\ [Next]_vars => IInv' BY IInvStep
<1> QED BY <1>1, <1>2, PTL DEF Spec

(* Every variable keeps its type, for any number of documents, requests and  *)
(* dates and any page size.                                                 *)
THEOREM FeedsTypeCorrect == Spec => []TypeOK
<1>1. IInv => TypeOK
  BY DEF IInv, Clocked, ContactsInv, LogsInv, NoticesInv, TypeOK
<1> QED BY <1>1, Invariance, PTL

(* A client that has followed the cursors of its contacts to the end has all *)
(* up to its mark, other than what was written with a date it had passed.    *)
THEOREM SyncIsComplete == Spec => []SyncMissesNothing
<1>1. IInv => SyncMissesNothing
  <2> SUFFICES ASSUME IInv, ~sync.on, NEW i \in ContactIds, Here(i), contact[i].at <= sync.mark
               PROVE  copy[i] = contact[i] \/ i \in overtaken
    BY DEF SyncMissesNothing
  <2>1. ContactsInv BY DEF IInv
  <2>2. Passed(contact[i]) BY DEF Passed
  <2> QED BY <2>1, <2>2 DEF ContactsInv, PassedIsCopied
<1> QED BY <1>1, Invariance, PTL

(* Paging through the call log shows no call twice, and leaves out none that *)
(* was there from beginning to end.                                         *)
THEOREM LogsArePagedOnce == Spec => []LogsShownOnce
<1>1. IInv => LogsShownOnce BY DEF IInv, LogsInv
<1> QED BY <1>1, Invariance, PTL

(* A block goes only when a request that names isBlocked is carried out, or  *)
(* with the contact itself.                                                 *)
THEOREM BlocksStay == Spec => BlockStays
<1>1. IInv /\ [Next]_vars => [BlockKept]_contactVars
  <2> SUFFICES ASSUME IInv, [Next]_vars PROVE BlockKept \/ UNCHANGED contactVars OBVIOUS
  <2>1. CASE \E B : ContactChanges(B) BY <2>1, BlockKeptByChanges DEF IInv
  <2>2. CASE ContactSync BY <2>2, BlockKeptBySync
  <2>3. CASE UNCHANGED contactVars BY <2>3
  <2> QED BY <2>1, <2>2, <2>3 DEF Next, vars
<1>2. QED BY <1>1, Invariance, PTL DEF Spec, BlockStays, BlockKept

=============================================================================
