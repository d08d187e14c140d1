------------------------- MODULE NotificationsProofs -------------------------
(***************************************************************************)
(* What is proved of reading notifications by offset, for any number of     *)
(* them and any page size: a client that reads to the end has been shown    *)
(* each one that was there all the time with a date of its own.             *)
(*                                                                         *)
(* An offset counts documents from the newest, and the client has been      *)
(* shown what was in front of it.  So the argument is about positions: what *)
(* the client still has to see has as many documents in front of it as the  *)
(* offset says, or more.  New notifications only push it back, and the      *)
(* oldest, which expire, stand behind it.                                   *)
(***************************************************************************)
EXTENDS FeedsProofs

-----------------------------------------------------------------------------
(* Positions, in any set of documents.                                      *)

Newer(D, d) == {e \in D : e.at > d.at}

(* The documents of D with an id of I have k newer ones or more.            *)
StandBehind(k, I, D) == \A d \in D : d.id \in I => Cardinality(Newer(D, d)) >= k

(* Each id of I is in D, and no other document of N has its date.           *)
DatedAlone(I, D, N) == \A i \in I : \E d \in D : d.id = i /\ \A e \in N : e.at = d.at => e = d

LEMMA NewestFirstIsAnOrder ==
    ASSUME NEW S, Documents(S), NEW up \in BOOLEAN
    PROVE  /\ \A d \in S : ~NewestFirst(d, d, up)
           /\ \A d, e \in S : d # e => NewestFirst(d, e, up) \/ NewestFirst(e, d, up)
           /\ \A d, e, f \in S : NewestFirst(d, e, up) /\ NewestFirst(e, f, up)
                                 => NewestFirst(d, f, up)
<1>1. CASE up = TRUE BY <1>1 DEF Documents, NewestFirst
<1>2. CASE up = FALSE BY <1>2 DEF Documents, NewestFirst
<1> QED BY <1>1, <1>2

(* Two documents of a page have different positions, so it has no more of    *)
(* them than there are positions on it.                                     *)
LEMMA PageIsNotLonger ==
    ASSUME NEW S, Documents(S), NEW up \in BOOLEAN, NEW offset \in Nat
    PROVE  /\ IsFiniteSet({d.id : d \in Page(S, offset, up)})
           /\ Cardinality({d.id : d \in Page(S, offset, up)}) <= Limit
<1> PICK page : page = Page(S, offset, up) OBVIOUS
<1> DEFINE Ahead(d) == {e \in S : NewestFirst(e, d, up)}
           places == offset .. offset + Limit - 1
           pos == [d \in page |-> Cardinality(Ahead(d))]
           ids == {d.id : d \in page}
           id == [d \in page |-> d.id]
<1>1. page \subseteq S /\ \A d \in page : Cardinality(Ahead(d)) \in places BY DEF Page
<1>2. ASSUME NEW d \in S, NEW e \in S, NewestFirst(d, e, up)
      PROVE  Cardinality(Ahead(d)) # Cardinality(Ahead(e))
  <2>1. Ahead(d) \subseteq Ahead(e) /\ d \in Ahead(e) /\ d \notin Ahead(d)
    BY <1>2, NewestFirstIsAnOrder
  <2>2. Ahead(e) \subseteq S OBVIOUS
  <2> HIDE DEF Ahead
  <2>3. IsFiniteSet(Ahead(e)) BY <2>2, FS_Subset DEF Documents
  <2> QED BY <2>1, <2>3, FS_Subset
<1>3. \A d, e \in page : pos[d] = pos[e] => d = e
  <2> SUFFICES ASSUME NEW d \in page, NEW e \in page, pos[d] = pos[e], d # e PROVE FALSE OBVIOUS
  <2>1. NewestFirst(d, e, up) \/ NewestFirst(e, d, up) BY <1>1, NewestFirstIsAnOrder
  <2>2. pos[d] = Cardinality(Ahead(d)) /\ pos[e] = Cardinality(Ahead(e)) OBVIOUS
  <2> HIDE DEF Ahead, pos
  <2> QED BY <1>1, <1>2, <2>1, <2>2
<1>4. pos \in [page -> places] BY <1>1
<1>5. pos \in Injection(page, places)
  <2> HIDE DEF pos, places
  <2> QED BY <1>3, <1>4 DEF Injection, IsInjective
<1>6. IsFiniteSet(places) /\ Cardinality(places) = Limit
  <2> PICK last : last = offset + Limit - 1 OBVIOUS
  <2>1. last \in Int /\ offset \in Int /\ ~(offset > last) /\ last - offset + 1 = Limit
    BY PagingAssumption
  <2>2. IsFiniteSet(offset .. last)
        /\ Cardinality(offset .. last) = IF offset > last THEN 0 ELSE last - offset + 1
    BY <2>1, FS_Interval
  <2> QED BY <2>1, <2>2
<1>7. IsFiniteSet(page) /\ Cardinality(page) <= Limit
  <2> HIDE DEF pos, places
  <2> QED BY <1>5, <1>6, FS_Injection
<1>8. id \in Surjection(page, ids) BY DEF Surjection
<1>9. IsFiniteSet(ids) /\ Cardinality(ids) <= Cardinality(page)
  <2> HIDE DEF id, ids
  <2> QED BY <1>7, <1>8, FS_Surjection
<1>10. Cardinality(ids) \in Nat /\ Cardinality(page) \in Nat BY <1>7, <1>9, FS_CardinalityType
<1>11. Cardinality(ids) <= Limit
  <2> HIDE DEF ids
  <2> QED BY <1>7, <1>9, <1>10, PagingAssumption
<1> QED BY <1>9, <1>11

(* What stands behind the offset and is not on its page stands behind the    *)
(* next offset.                                                             *)
LEMMA RestStandsBehindPage ==
    ASSUME NEW S, Documents(S), NEW up \in BOOLEAN, NEW offset \in Nat, NEW I,
           DatedAlone(I, S, S), StandBehind(offset, I, S)
    PROVE  StandBehind(offset + Limit, I \ {d.id : d \in Page(S, offset, up)}, S)
<1> SUFFICES ASSUME NEW d \in S, d.id \in I, d \notin Page(S, offset, up)
             PROVE  Cardinality(Newer(S, d)) >= offset + Limit
  BY DEF StandBehind
<1>1. \A e \in S : e.at = d.at => e = d BY DEF DatedAlone, Documents
<1>2. {e \in S : NewestFirst(e, d, up)} = Newer(S, d)
  BY <1>1 DEF NewestFirst, Newer, Documents
<1> PICK n : n = Cardinality(Newer(S, d)) OBVIOUS
<1>3. Newer(S, d) \subseteq S BY DEF Newer
<1>4. n \in Nat BY <1>3, FS_Subset, FS_CardinalityType DEF Documents
<1>5. n \notin offset .. offset + Limit - 1 BY <1>2 DEF Page
<1>6. n >= offset BY DEF StandBehind
<1> QED BY <1>4, <1>5, <1>6, PagingAssumption

(* Nothing moves forward if no newer document goes.                         *)
LEMMA StandBehindKept ==
    ASSUME NEW D, NEW E, IsFiniteSet(E), NEW I, NEW J, J \subseteq I, NEW k \in Nat,
           \A d \in E : d.id \in J => d \in D /\ Newer(D, d) \subseteq Newer(E, d),
           StandBehind(k, I, D)
    PROVE  StandBehind(k, J, E)
<1> SUFFICES ASSUME NEW d \in E, d.id \in J PROVE Cardinality(Newer(E, d)) >= k
  BY DEF StandBehind
<1> PICK X : X = Newer(D, d) OBVIOUS
<1> PICK Y : Y = Newer(E, d) OBVIOUS
<1>1. X \subseteq Y /\ Y \subseteq E BY DEF Newer
<1>2. IsFiniteSet(Y) BY <1>1, FS_Subset
<1>3. Cardinality(X) <= Cardinality(Y) /\ Cardinality(X) \in Nat /\ Cardinality(Y) \in Nat
  BY <1>1, <1>2, FS_Subset, FS_CardinalityType
<1>4. Cardinality(X) >= k BY DEF StandBehind
<1> QED BY <1>3, <1>4

(* Documents that keep their ids and dates keep their positions.             *)
LEMMA StandBehindRewritten ==
    ASSUME NEW D, Documents(D), NEW E, NEW f \in Surjection(D, E),
           \A d \in D : f[d].id = d.id /\ f[d].at = d.at,
           NEW I, NEW k \in Nat
    PROVE  /\ DatedAlone(I, D, D) => DatedAlone(I, E, E)
           /\ StandBehind(k, I, D) => StandBehind(k, I, E)
           /\ Cardinality(E) <= Cardinality(D)
<1>1. /\ f \in [D -> E] /\ \A e \in E : \E d \in D : f[d] = e
      /\ \A d, e \in D : f[d] = f[e] => d = e
  BY DEF Surjection, Documents
<1>2. IsFiniteSet(E) /\ Cardinality(E) <= Cardinality(D)
  BY FS_Surjection DEF Documents
<1>3. ASSUME DatedAlone(I, D, D) PROVE DatedAlone(I, E, E)
  <2> SUFFICES ASSUME NEW i \in I
               PROVE  \E e \in E : e.id = i /\ \A g \in E : g.at = e.at => g = e
    BY DEF DatedAlone
  <2>1. PICK d \in D : d.id = i /\ \A e \in D : e.at = d.at => e = d BY <1>3 DEF DatedAlone
  <2>2. f[d] \in E /\ f[d].id = i BY <1>1, <2>1
  <2>3. \A g \in E : g.at = f[d].at => g = f[d] BY <1>1, <2>1
  <2> QED BY <2>2, <2>3
<1>4. ASSUME StandBehind(k, I, D), NEW e \in E, e.id \in I
      PROVE  Cardinality(Newer(E, e)) >= k
  <2>1. PICK d \in D : f[d] = e BY <1>1
  <2>2. d.id \in I /\ d.at = e.at BY <1>4, <2>1
  <2> PICK X : X = Newer(D, d) OBVIOUS
  <2> PICK Y : Y = Newer(E, e) OBVIOUS
  <2> PICK g : g = [c \in X |-> f[c]] OBVIOUS
  <2>3. X \subseteq D /\ Y \subseteq E /\ \A c \in X : f[c] \in Y
    BY <1>1, <2>2 DEF Newer
  <2>4. g \in Injection(X, Y) BY <1>1, <2>3 DEF Injection, IsInjective
  <2>5. IsFiniteSet(Y) BY <1>2, <2>3, FS_Subset
  <2>6. IsFiniteSet(X) /\ Cardinality(X) <= Cardinality(Y) BY <2>4, <2>5, FS_Injection
  <2>7. Cardinality(X) \in Nat /\ Cardinality(Y) \in Nat BY <2>5, <2>6, FS_CardinalityType
  <2>8. Cardinality(X) >= k BY <1>4, <2>2 DEF StandBehind
  <2> QED BY <2>6, <2>7, <2>8
<1> QED BY <1>2, <1>3, <1>4 DEF StandBehind

-----------------------------------------------------------------------------
(* The invariant                                                            *)

Listing == Matching(list.status)

NoticesToldApart ==
    /\ \A d \in notice : d.id \in used
    /\ \A d, e \in notice : d.id = e.id => d = e

(* What the client still has to see stands behind the page it asked for, and *)
(* once it has the page, behind it.  A total taken before the page is not    *)
(* less than there is, and with both it goes on or has seen everything.      *)
RestIsAhead ==
    /\ DatedAlone(expected, Listing, notice)
    /\ list.data = None => StandBehind(list.offset, expected \ listed, Listing)
    /\ list.data # None =>
         /\ IsFiniteSet(list.data) /\ Cardinality(list.data) <= Limit
         /\ StandBehind(list.offset + Limit, expected \ (listed \cup list.data), Listing)
    /\ Counted => Cardinality(Listing) <= list.total
    /\ list.data # None /\ list.total # None =>
         \/ list.offset + Cardinality(list.data) < list.total
         \/ expected \subseteq listed \cup list.data

OffsetsInv ==
    /\ NoticesToldApart
    /\ ~list.on => list.data = None /\ list.total = None
    /\ list.on /\ ~shaken => RestIsAhead
    /\ NoneSkipped

LEMMA NoticeFacts ==
    ASSUME NoticesInv
    PROVE  /\ list \in Requested /\ list.offset \in Nat
           /\ Listing \subseteq notice
           /\ IsFiniteSet(Listing) /\ Cardinality(Listing) \in Nat
           /\ \A d \in notice : d.id \in Nat /\ d.at \in Nat
<1>1. list \in Requested BY DEF NoticesInv, NotificationsTypeOK, Requested
<1>2. list.offset \in Nat BY <1>1 DEF Requested
<1>3. Listing \subseteq notice BY DEF Listing, Matching
<1>4. IsFiniteSet(Listing) /\ Cardinality(Listing) \in Nat
  BY <1>3, FS_Subset, FS_CardinalityType DEF NoticesInv
<1>5. \A d \in notice : d.id \in Nat /\ d.at \in Nat
  BY TimesAreNat DEF NoticesInv, NotificationsTypeOK, Notice
<1> QED BY <1>1, <1>2, <1>3, <1>4, <1>5

LEMMA ListingIsDocuments ==
    ASSUME NoticesInv, NoticesToldApart
    PROVE  Documents(Listing) /\ Documents(notice)
<1>1. IsFiniteSet(notice) BY DEF NoticesInv
<1> QED BY <1>1, NoticeFacts DEF Documents, NoticesToldApart

LEMMA OffsetsKept ==
    ASSUME OffsetsInv, UNCHANGED noticeVars, used \subseteq used'
    PROVE  OffsetsInv'
<1>1. UNCHANGED <<notice, list, listed, expected, shaken>> BY DEF noticeVars
<1>2. Listing' = Listing BY <1>1 DEF Listing, Matching
<1>3. NoticesToldApart' BY <1>1 DEF OffsetsInv, NoticesToldApart
<1>4. RestIsAhead => RestIsAhead' BY <1>1, <1>2 DEF RestIsAhead, Counted
<1>5. NoneSkipped => NoneSkipped' BY <1>1 DEF NoneSkipped
<1> QED BY <1>1, <1>3, <1>4, <1>5 DEF OffsetsInv

-----------------------------------------------------------------------------
(* Changes of the collection                                                *)

(* The new one is in the list, unless that is of those read, was not         *)
(* expected, and takes from what is expected those whose date it shares; if  *)
(* the total was taken and the page was not, it shakes.                      *)
LEMMA CreateKeepsOffsets ==
    ASSUME Clocked, NoticesInv, OffsetsInv, NEW i \in Ids, NEW t \in Stamps,
           CreateNotification(i, t)
    PROVE  OffsetsInv'
<1> PICK n : n = [id |-> i, at |-> t, read |-> FALSE] OBVIOUS
<1> PICK D : D = Listing OBVIOUS
<1> PICK E : E = IF list.status = "read" THEN D ELSE D \cup {n} OBVIOUS
<1>1. n.id = i /\ n.at = t /\ ~n.read OBVIOUS
<1>2. /\ i \notin used /\ used' = used \cup {i} /\ notice' = notice \cup {n}
      /\ expected' = expected \ {d.id : d \in {e \in notice : e.at = t}}
      /\ shaken' = (shaken \/ (Counted /\ list.status # "read"))
      /\ list' = list /\ listed' = listed
  BY DEF CreateNotification, Fresh
<1>3. Listing' = E
  <2>1. list.status \in Filters BY NoticeFacts DEF Requested
  <2>2. CASE list.status = "read" BY <1>1, <1>2, <2>2 DEF Listing, Matching
  <2>3. CASE list.status = "unread" BY <1>1, <1>2, <2>3 DEF Listing, Matching
  <2>4. CASE list.status = "all" BY <1>1, <1>2, <2>4 DEF Listing, Matching
  <2> QED BY <2>1, <2>2, <2>3, <2>4 DEF Filters
<1>4. \A d \in notice : d.id # i BY <1>2 DEF OffsetsInv, NoticesToldApart
<1>5. NoticesToldApart'
  <2>1. NoticesToldApart BY DEF OffsetsInv
  <2>2. notice' = notice \cup {n} /\ used' = used \cup {i} BY <1>2
  <2>3. \A d \in notice' : d.id \in used' BY <1>1, <2>1, <2>2 DEF NoticesToldApart
  <2>4. ASSUME NEW d \in notice', NEW e \in notice', d.id = e.id PROVE d = e
    <3>1. CASE d \in notice /\ e \in notice BY <2>1, <2>4, <3>1 DEF NoticesToldApart
    <3>2. CASE d \notin notice \/ e \notin notice BY <1>1, <1>4, <2>2, <2>4, <3>2
    <3> QED BY <3>1, <3>2
  <2> QED BY <2>3, <2>4 DEF NoticesToldApart
<1>6. ASSUME list.on, ~shaken, Counted => list.status = "read"
      PROVE  RestIsAhead'
  <2>1. RestIsAhead BY <1>6 DEF OffsetsInv
  <2>2. DatedAlone(expected, D, notice) BY <2>1 DEF RestIsAhead
  <2>3. i \notin expected BY <1>4, <2>2, NoticeFacts DEF DatedAlone
  <2>4. DatedAlone(expected', E, notice')
    <3> SUFFICES ASSUME NEW j \in expected'
                 PROVE  \E d \in E : d.id = j /\ \A e \in notice' : e.at = d.at => e = d
      BY DEF DatedAlone
    <3>1. PICK d \in D : d.id = j /\ \A e \in notice : e.at = d.at => e = d
      BY <1>2, <2>2 DEF DatedAlone
    <3>2. d \in notice /\ d \in E BY NoticeFacts
    <3>3. d.at # t BY <1>2, <3>1, <3>2
    <3>4. \A e \in notice' : e.at = d.at => e = d BY <1>1, <1>2, <3>1, <3>3
    <3> QED BY <3>1, <3>2, <3>4
  <2>5. IsFiniteSet(E) BY FS_AddElement, NoticeFacts
  <2>6. ASSUME NEW S, NEW k \in Nat, StandBehind(k, expected \ S, D)
        PROVE  StandBehind(k, expected' \ S, E)
    <3>1. expected' \ S \subseteq expected \ S BY <1>2
    <3>2. \A d \in E : d.id \in expected' \ S => d \in D /\ Newer(D, d) \subseteq Newer(E, d)
      BY <1>1, <2>3, <3>1 DEF Newer
    <3> QED BY <2>5, <2>6, <3>1, <3>2, StandBehindKept
  <2>7. list.data = None => StandBehind(list.offset, expected' \ listed, E)
    BY <2>1, <2>6, NoticeFacts DEF RestIsAhead
  <2>8. list.data # None =>
          /\ IsFiniteSet(list.data) /\ Cardinality(list.data) <= Limit
          /\ StandBehind(list.offset + Limit, expected' \ (listed \cup list.data), E)
    <3>1. list.offset + Limit \in Nat BY NoticeFacts, PagingAssumption
    <3> QED BY <2>1, <2>6, <3>1 DEF RestIsAhead
  <2>9. Counted' => Cardinality(E) <= list.total
    <3>1. Counted' => Counted BY <1>2 DEF Counted
    <3>2. Counted => E = D BY <1>6
    <3> QED BY <2>1, <3>1, <3>2 DEF RestIsAhead
  <2>10. list.data # None /\ list.total # None =>
           \/ list.offset + Cardinality(list.data) < list.total
           \/ expected' \subseteq listed \cup list.data
    BY <1>2, <2>1 DEF RestIsAhead
  <2> QED BY <1>2, <1>3, <2>4, <2>7, <2>8, <2>9, <2>10 DEF RestIsAhead
<1>7. NoneSkipped' BY <1>2 DEF OffsetsInv, NoneSkipped
<1> QED BY <1>2, <1>5, <1>6, <1>7 DEF OffsetsInv

(* Who reads all of them sees nothing move, and in the list of those read    *)
(* the ones that come in only push others back.                             *)
LEMMA MarkKeepsOffsets ==
    ASSUME NoticesInv, OffsetsInv, NEW S \in SUBSET Ids, MarkAsRead(S)
    PROVE  OffsetsInv'
<1>0. PICK f : f = [d \in notice |-> [d EXCEPT !.read = @ \/ d.id \in S]] OBVIOUS
<1>1. /\ notice' = {[d EXCEPT !.read = @ \/ d.id \in S] : d \in notice}
      /\ shaken' = (shaken \/ (list.on /\ list.status = "unread")
                           \/ (Counted /\ list.status = "read"))
      /\ UNCHANGED <<used, list, listed, expected>>
  BY DEF MarkAsRead
<1>2. f \in Surjection(notice, notice') BY <1>0, <1>1 DEF Surjection
<1>3. \A d \in notice : f[d].id = d.id /\ f[d].at = d.at
  BY <1>0 DEF NoticesInv, NotificationsTypeOK, Notice
<1>4. NoticesToldApart'
  <2>1. \A e \in notice' : \E d \in notice : f[d] = e BY <1>2 DEF Surjection
  <2>2. used' = used BY <1>1
  <2>3. \A e \in notice' : e.id \in used' BY <1>3, <2>1, <2>2 DEF OffsetsInv, NoticesToldApart
  <2>4. ASSUME NEW c \in notice', NEW e \in notice', c.id = e.id PROVE c = e
    <3>1. PICK a \in notice : f[a] = c BY <2>1
    <3>2. PICK b \in notice : f[b] = e BY <2>1
    <3>3. a = b BY <1>3, <2>4, <3>1, <3>2 DEF OffsetsInv, NoticesToldApart
    <3> QED BY <3>1, <3>2, <3>3
  <2> QED BY <2>3, <2>4 DEF NoticesToldApart
<1>5. ASSUME list.on, ~shaken, list.status = "all"
      PROVE  RestIsAhead'
  <2>1. RestIsAhead BY <1>5 DEF OffsetsInv
  <2>2. Listing = notice /\ Listing' = notice' BY <1>1, <1>5 DEF Listing, Matching
  <2>3. Documents(notice) BY ListingIsDocuments DEF OffsetsInv
  <2>4. ASSUME NEW I, NEW k \in Nat, StandBehind(k, I, notice)
        PROVE  StandBehind(k, I, notice')
    BY <1>2, <1>3, <2>3, <2>4, StandBehindRewritten
  <2>5. DatedAlone(expected, notice', notice')
    <3>1. DatedAlone(expected, notice, notice) BY <2>1, <2>2 DEF RestIsAhead
    <3>2. 0 \in Nat OBVIOUS
    <3> QED BY <1>2, <1>3, <2>3, <3>1, <3>2, StandBehindRewritten
  <2>6. Cardinality(notice') <= Cardinality(notice)
        /\ Cardinality(notice') \in Nat /\ Cardinality(notice) \in Nat
    <3>1. IsFiniteSet(notice) BY <2>3 DEF Documents
    <3> QED BY <1>2, <3>1, FS_Surjection, FS_CardinalityType
  <2>7. Counted => Cardinality(notice') <= list.total
    <3>1. Counted => Cardinality(notice) <= list.total /\ list.total \in Nat
      BY <2>1, <2>2, NoticeFacts DEF RestIsAhead, Requested, Counted
    <3> QED BY <2>6, <3>1
  <2>8. list.data = None => StandBehind(list.offset, expected \ listed, notice')
    BY <2>1, <2>2, <2>4, NoticeFacts DEF RestIsAhead
  <2>9. list.data # None =>
          /\ IsFiniteSet(list.data) /\ Cardinality(list.data) <= Limit
          /\ StandBehind(list.offset + Limit, expected \ (listed \cup list.data), notice')
    <3>1. list.offset + Limit \in Nat BY NoticeFacts, PagingAssumption
    <3> QED BY <2>1, <2>2, <2>4, <3>1 DEF RestIsAhead
  <2>10. Counted' => Counted BY <1>1 DEF Counted
  <2> QED BY <1>1, <2>1, <2>2, <2>5, <2>7, <2>8, <2>9, <2>10 DEF RestIsAhead
<1>6. ASSUME list.on, ~shaken, list.status = "read", ~Counted
      PROVE  RestIsAhead'
  <2> PICK D : D = Listing OBVIOUS
  <2> PICK E : E = Listing' OBVIOUS
  <2>1. RestIsAhead BY <1>6 DEF OffsetsInv
  <2>2. /\ \A d \in D : d \in notice /\ d.read
        /\ \A e \in E : e \in notice' /\ e.read
        /\ \A e \in notice' : e.read => e \in E
    BY <1>1, <1>6 DEF Listing, Matching
  <2>3. \A d \in D : f[d] = d /\ d \in E
    <3>1. ASSUME NEW d \in D PROVE f[d] = d /\ d \in notice'
      <4>1. d \in Notice /\ d.read BY <2>2 DEF NoticesInv, NotificationsTypeOK
      <4>2. f[d] = [d EXCEPT !.read = @ \/ d.id \in S] BY <1>0, <2>2
      <4>3. f[d] = d BY <4>1, <4>2 DEF Notice
      <4> QED BY <1>2, <2>2, <4>3 DEF Surjection
    <3> QED BY <2>2, <3>1
  <2>4. DatedAlone(expected, D, notice) BY <2>1 DEF RestIsAhead
  <2>5. ASSUME NEW d \in D, \A e \in notice : e.at = d.at => e = d
        PROVE  \A e \in notice' : e.at = d.at => e = d
    <3> SUFFICES ASSUME NEW e \in notice', e.at = d.at PROVE e = d OBVIOUS
    <3>1. PICK c \in notice : f[c] = e BY <1>2 DEF Surjection
    <3>2. c.at = d.at BY <1>3, <3>1
    <3> QED BY <2>3, <2>5, <3>1, <3>2
  <2>6. DatedAlone(expected, E, notice') BY <2>3, <2>4, <2>5 DEF DatedAlone
  <2>7. ASSUME NEW e \in E, e.id \in expected PROVE e \in D
    <3>1. PICK d \in D : d.id = e.id BY <2>4, <2>7 DEF DatedAlone
    <3>2. d \in notice' /\ e \in notice' BY <2>2, <2>3
    <3> QED BY <1>4, <3>1, <3>2 DEF NoticesToldApart
  <2>8. IsFiniteSet(E)
    <3>1. IsFiniteSet(notice') BY <1>2, FS_Surjection DEF NoticesInv
    <3>2. E \subseteq notice' BY <2>2
    <3> QED BY <3>1, <3>2, FS_Subset
  <2>9. ASSUME NEW X, NEW k \in Nat, StandBehind(k, expected \ X, D)
        PROVE  StandBehind(k, expected \ X, E)
    <3>1. \A d \in E : d.id \in expected \ X => d \in D /\ Newer(D, d) \subseteq Newer(E, d)
      BY <2>3, <2>7 DEF Newer
    <3> QED BY <2>8, <2>9, <3>1, StandBehindKept
  <2>10. list.data = None => StandBehind(list.offset, expected \ listed, E)
    BY <2>1, <2>9, NoticeFacts DEF RestIsAhead
  <2>11. list.data # None =>
           /\ IsFiniteSet(list.data) /\ Cardinality(list.data) <= Limit
           /\ StandBehind(list.offset + Limit, expected \ (listed \cup list.data), E)
    <3>1. list.offset + Limit \in Nat BY NoticeFacts, PagingAssumption
    <3> QED BY <2>1, <2>9, <3>1 DEF RestIsAhead
  <2>12. ~Counted' BY <1>1, <1>6 DEF Counted
  <2> QED BY <1>1, <2>1, <2>6, <2>10, <2>11, <2>12 DEF RestIsAhead
<1>7. NoneSkipped' BY <1>1 DEF OffsetsInv, NoneSkipped
<1>8. (list.on /\ ~shaken)' => RestIsAhead'
  <2>1. list.status \in Filters BY NoticeFacts DEF Requested
  <2> QED BY <1>1, <1>5, <1>6, <2>1 DEF Filters
<1> QED BY <1>1, <1>4, <1>7, <1>8 DEF OffsetsInv

(* What goes is older than all that stays, or it is all there is.            *)
LEMMA DeleteKeepsOffsets ==
    ASSUME NoticesInv, OffsetsInv, NEW D \in SUBSET notice, Delete(D),
           \A d \in D, e \in notice \ D : d.at <= e.at
    PROVE  OffsetsInv'
<1> PICK L : L = Listing OBVIOUS
<1>1. /\ notice' = notice \ D /\ expected' = expected \ {d.id : d \in D}
      /\ UNCHANGED <<used, list, listed, shaken>>
  BY DEF Delete
<1>2. Listing' = L \ D BY <1>1 DEF Listing, Matching
<1>3. NoticesToldApart' BY <1>1 DEF OffsetsInv, NoticesToldApart
<1>4. ASSUME list.on, ~shaken
      PROVE  RestIsAhead'
  <2>1. RestIsAhead BY <1>4 DEF OffsetsInv
  <2>2. DatedAlone(expected', L \ D, notice')
    <3> SUFFICES ASSUME NEW i \in expected'
                 PROVE  \E d \in L \ D : d.id = i /\ \A e \in notice' : e.at = d.at => e = d
      BY DEF DatedAlone
    <3>1. PICK d \in L : d.id = i /\ \A e \in notice : e.at = d.at => e = d
      BY <1>1, <2>1 DEF RestIsAhead, DatedAlone
    <3>2. d \notin D BY <1>1, <3>1
    <3> QED BY <1>1, <3>1, <3>2
  <2>3. IsFiniteSet(L) /\ IsFiniteSet(L \ D) /\ Cardinality(L \ D) <= Cardinality(L)
        /\ Cardinality(L \ D) \in Nat /\ Cardinality(L) \in Nat
    BY NoticeFacts, FS_Subset, FS_CardinalityType
  <2>4. \A d \in L \ D : Newer(L, d) \subseteq Newer(L \ D, d)
    BY NoticeFacts DEF Newer
  <2>5. ASSUME NEW S, NEW k \in Nat, StandBehind(k, expected \ S, L)
        PROVE  StandBehind(k, expected' \ S, L \ D)
    <3>1. expected' \ S \subseteq expected \ S BY <1>1
    <3> QED BY <2>3, <2>4, <2>5, <3>1, StandBehindKept
  <2>6. list.data = None => StandBehind(list.offset, expected' \ listed, L \ D)
    BY <2>1, <2>5, NoticeFacts DEF RestIsAhead
  <2>7. list.data # None =>
          /\ IsFiniteSet(list.data) /\ Cardinality(list.data) <= Limit
          /\ StandBehind(list.offset + Limit, expected' \ (listed \cup list.data), L \ D)
    <3>1. list.offset + Limit \in Nat BY NoticeFacts, PagingAssumption
    <3> QED BY <2>1, <2>5, <3>1 DEF RestIsAhead
  <2>8. Counted' => Cardinality(L \ D) <= list.total
    <3>1. Counted => Cardinality(L) <= list.total /\ list.total \in Nat
      BY <2>1, NoticeFacts DEF RestIsAhead, Requested, Counted
    <3>2. Counted' => Counted BY <1>1 DEF Counted
    <3> QED BY <2>3, <3>1, <3>2
  <2>9. list.data # None /\ list.total # None =>
          \/ list.offset + Cardinality(list.data) < list.total
          \/ expected' \subseteq listed \cup list.data
    BY <1>1, <2>1 DEF RestIsAhead
  <2> QED BY <1>1, <1>2, <2>2, <2>6, <2>7, <2>8, <2>9 DEF RestIsAhead
<1>5. NoneSkipped' BY <1>1 DEF OffsetsInv, NoneSkipped
<1> QED BY <1>1, <1>3, <1>4, <1>5 DEF OffsetsInv

-----------------------------------------------------------------------------
(* The reader                                                               *)

(* It expects what has a date of its own, and everything stands behind 0.    *)
LEMMA OpenKeepsOffsets ==
    ASSUME NoticesInv, OffsetsInv, NEW status \in Filters, OpenNotifications(status)
    PROVE  OffsetsInv'
<1> PICK L : L = Matching(status) OBVIOUS
<1>1. /\ list' = [on |-> TRUE, status |-> status, offset |-> 0, data |-> None, total |-> None]
      /\ listed' = {} /\ shaken' = FALSE /\ UNCHANGED <<used, notice>>
      /\ expected' = {d.id : d \in {e \in L : \A f \in notice \ {e} : f.at # e.at}}
  BY DEF OpenNotifications
<1>2. list'.on /\ list'.status = status /\ list'.offset = 0 /\ list'.data = None
      /\ list'.total = None
  BY <1>1
<1>3. Listing' = L BY <1>1, <1>2 DEF Listing, Matching
<1>4. NoticesToldApart' BY <1>1 DEF OffsetsInv, NoticesToldApart
<1>5. DatedAlone(expected', L, notice') BY <1>1 DEF DatedAlone
<1>6. StandBehind(0, expected' \ listed', L)
  <2> SUFFICES ASSUME NEW d \in L PROVE Cardinality(Newer(L, d)) >= 0 BY DEF StandBehind
  <2> PICK X : X = Newer(L, d) OBVIOUS
  <2>1. X \subseteq notice BY DEF Newer, Matching
  <2>2. Cardinality(X) \in Nat BY <2>1, FS_Subset, FS_CardinalityType DEF NoticesInv
  <2> QED BY <2>2
<1>7. RestIsAhead' BY <1>2, <1>3, <1>5, <1>6 DEF RestIsAhead, Counted
<1>8. NoneSkipped' BY <1>2 DEF NoneSkipped
<1> QED BY <1>2, <1>4, <1>7, <1>8 DEF OffsetsInv

(* If the total is no more than the offset and the page, nothing stands      *)
(* behind the page.                                                         *)
LEMMA LastPage ==
    ASSUME NEW L, IsFiniteSet(L), NEW o \in Nat, NEW page,
           IsFiniteSet(page), Cardinality(page) <= Limit, NEW N,
           DatedAlone(expected, L, N), StandBehind(o + Limit, expected \ (listed \cup page), L),
           \A d \in L : d.at \in Nat, NEW total \in Nat, Cardinality(L) <= total
    PROVE  \/ o + Cardinality(page) < total
           \/ expected \subseteq listed \cup page
<1> SUFFICES ASSUME NEW i \in expected, i \notin listed \cup page
             PROVE  o + Cardinality(page) < total
  OBVIOUS
<1>1. PICK d \in L : d.id = i BY DEF DatedAlone
<1> PICK X : X = Newer(L, d) OBVIOUS
<1>2. Cardinality(X) >= o + Limit BY <1>1 DEF StandBehind
<1>3. X \subseteq L /\ (d \in X => d.at > d.at) BY DEF Newer
<1>4. d \notin X BY <1>1, <1>3
<1>5. Cardinality(X) < Cardinality(L) /\ Cardinality(X) \in Nat /\ Cardinality(L) \in Nat
  BY <1>1, <1>3, <1>4, FS_Subset, FS_CardinalityType
<1>6. Cardinality(page) \in Nat BY FS_CardinalityType
<1> QED BY <1>2, <1>5, <1>6, PagingAssumption

LEMMA FindKeepsOffsets ==
    ASSUME NoticesInv, OffsetsInv, FindNotifications
    PROVE  OffsetsInv'
<1> PICK L : L = Listing OBVIOUS
<1> PICK o \in Nat : o = list.offset BY NoticeFacts
<1>1. /\ list.on /\ list.data = None /\ list \in Requested
      /\ UNCHANGED <<used, notice, listed, expected, shaken>>
  BY NoticeFacts DEF FindNotifications
<1>2. PICK up \in BOOLEAN :
        list' = [list EXCEPT !.data = {d.id : d \in Page(L, o, up)}]
  BY DEF FindNotifications, Listing
<1> PICK page : page = {d.id : d \in Page(L, o, up)} OBVIOUS
<1>3. /\ list'.on /\ list'.status = list.status /\ list'.offset = o /\ list'.data = page
      /\ list'.total = list.total
  BY <1>1, <1>2 DEF Requested
<1>4. Listing' = L BY <1>1, <1>3 DEF Listing, Matching
<1>5. NoticesToldApart' BY <1>1 DEF OffsetsInv, NoticesToldApart
<1>6. ASSUME ~shaken PROVE RestIsAhead'
  <2>1. RestIsAhead BY <1>1, <1>6 DEF OffsetsInv
  <2>2. Documents(L) BY ListingIsDocuments DEF OffsetsInv
  <2>3. IsFiniteSet(page) /\ Cardinality(page) <= Limit BY <2>2, PageIsNotLonger
  <2>4. StandBehind(o, expected \ listed, L) BY <1>1, <2>1 DEF RestIsAhead
  <2>5. DatedAlone(expected \ listed, L, L)
    BY <2>1, NoticeFacts DEF RestIsAhead, DatedAlone
  <2>6. StandBehind(o + Limit, (expected \ listed) \ page, L)
    BY <2>2, <2>4, <2>5, RestStandsBehindPage
  <2>7. (expected \ listed) \ page = expected \ (listed \cup page) OBVIOUS
  <2>8. StandBehind(o + Limit, expected \ (listed \cup page), L) BY <2>6, <2>7
  <2>9. list.total # None =>
          o + Cardinality(page) < list.total \/ expected \subseteq listed \cup page
    <3>1. IsFiniteSet(L) /\ \A d \in L : d.at \in Nat BY NoticeFacts
    <3>2. list.total # None => Cardinality(L) <= list.total /\ list.total \in Nat
      BY <1>1, <2>1 DEF RestIsAhead, Counted, Requested
    <3>3. DatedAlone(expected, L, notice) BY <2>1 DEF RestIsAhead
    <3> QED BY <2>3, <2>8, <3>1, <3>2, <3>3, LastPage
  <2>10. Counted' => Cardinality(L) <= list'.total
    BY <1>1, <1>3, <2>1 DEF RestIsAhead, Counted
  <2> QED BY <1>1, <1>3, <1>4, <2>1, <2>3, <2>4, <2>8, <2>9, <2>10 DEF RestIsAhead
<1>7. NoneSkipped' BY <1>3 DEF NoneSkipped
<1> QED BY <1>1, <1>3, <1>5, <1>6, <1>7 DEF OffsetsInv

LEMMA CountKeepsOffsets ==
    ASSUME NoticesInv, OffsetsInv, CountNotifications
    PROVE  OffsetsInv'
<1> PICK n \in Nat : n = Cardinality(Listing) BY NoticeFacts
<1>1. /\ list.on /\ list \in Requested /\ list' = [list EXCEPT !.total = n]
      /\ UNCHANGED <<used, notice, listed, expected, shaken>>
  BY NoticeFacts DEF CountNotifications, Listing
<1>2. /\ list'.on /\ list'.status = list.status /\ list'.offset = list.offset
      /\ list'.data = list.data /\ list'.total = n
  BY <1>1 DEF Requested
<1>3. Listing' = Listing BY <1>1, <1>2 DEF Listing, Matching
<1>4. NoticesToldApart' BY <1>1 DEF OffsetsInv, NoticesToldApart
<1>5. ASSUME RestIsAhead PROVE RestIsAhead'
  <2>1. Counted' => Cardinality(Listing) <= list'.total
    <3>1. n <= n OBVIOUS
    <3> QED BY <1>2, <3>1
  <2>2. list.data # None => list.offset + Cardinality(list.data) < n
                            \/ expected \subseteq listed \cup list.data
    <3>1. /\ IsFiniteSet(Listing) /\ Cardinality(Listing) <= n /\ list.offset \in Nat
          /\ \A d \in Listing : d.at \in Nat
      BY NoticeFacts
    <3> QED BY <1>5, <3>1, LastPage DEF RestIsAhead
  <2> QED BY <1>1, <1>2, <1>3, <1>5, <2>1, <2>2 DEF RestIsAhead
<1>6. NoneSkipped' BY <1>2 DEF NoneSkipped
<1> QED BY <1>1, <1>2, <1>4, <1>5, <1>6 DEF OffsetsInv

(* If there is no next page, nothing stands behind this one.                 *)
LEMMA GetKeepsOffsets ==
    ASSUME NoticesInv, OffsetsInv, GetNotifications
    PROVE  OffsetsInv'
<1> PICK L : L = Listing OBVIOUS
<1> PICK o \in Nat : o = list.offset BY NoticeFacts
<1> PICK page : page = list.data OBVIOUS
<1> PICK next : next = (o + Cardinality(page) < list.total) OBVIOUS
<1>1. /\ page # None /\ list.total # None /\ list.on /\ list \in Requested
      /\ listed' = listed \cup page
      /\ list' = [list EXCEPT !.on = next, !.offset = IF next THEN @ + Limit ELSE 0,
                              !.data = None, !.total = None]
      /\ UNCHANGED <<used, notice, expected, shaken>>
  BY NoticeFacts DEF GetNotifications, OffsetsInv
<1>2. /\ list'.on = next /\ list'.status = list.status /\ list'.data = None
      /\ list'.total = None /\ list'.offset = IF next THEN o + Limit ELSE 0
  BY <1>1 DEF Requested
<1>3. Listing' = L BY <1>1, <1>2 DEF Listing, Matching
<1>4. NoticesToldApart' BY <1>1 DEF OffsetsInv, NoticesToldApart
<1>5. ASSUME ~shaken
      PROVE  /\ DatedAlone(expected, L, notice)
             /\ StandBehind(o + Limit, expected \ listed', L)
             /\ next \/ expected \subseteq listed'
  BY <1>1, <1>5 DEF OffsetsInv, RestIsAhead
<1>6. ASSUME ~shaken, next PROVE RestIsAhead'
  <2>1. list'.offset = o + Limit BY <1>2, <1>6
  <2> QED BY <1>1, <1>2, <1>3, <1>5, <1>6, <2>1 DEF RestIsAhead, Counted
<1>7. ASSUME ~shaken, ~next PROVE expected \subseteq listed' BY <1>5, <1>7
<1>8. next \in BOOLEAN OBVIOUS
<1>9. NoneSkipped' BY <1>1, <1>2, <1>7 DEF NoneSkipped
<1>10. (list.on /\ ~shaken => RestIsAhead)' BY <1>1, <1>2, <1>6
<1> QED BY <1>2, <1>4, <1>9, <1>10 DEF OffsetsInv

-----------------------------------------------------------------------------
(* The theorem                                                              *)

LEMMA NotificationsKeepOffsets ==
    ASSUME IInv, OffsetsInv, NotificationsNext
    PROVE  OffsetsInv'
<1>1. Clocked /\ NoticesInv BY DEF IInv
<1>2. CASE \E i \in Ids, t \in Stamps : CreateNotification(i, t)
  BY <1>1, <1>2, CreateKeepsOffsets
<1>3. CASE \E S \in SUBSET Ids : MarkAsRead(S)
  BY <1>1, <1>3, MarkKeepsOffsets
<1>4. CASE NotificationExpires
  <2>1. PICK d \in notice : (\A e \in notice : d.at <= e.at) /\ Delete({d})
    BY <1>4 DEF NotificationExpires
  <2>2. {d} \in SUBSET notice /\ \A c \in {d}, e \in notice \ {d} : c.at <= e.at
    BY <2>1
  <2> QED BY <1>1, <2>1, <2>2, DeleteKeepsOffsets
<1>5. CASE DeleteAllNotifications
  <2>1. notice \in SUBSET notice /\ \A d \in notice, e \in notice \ notice : d.at <= e.at
    OBVIOUS
  <2> QED BY <1>1, <1>5, <2>1, DeleteKeepsOffsets DEF DeleteAllNotifications
<1>6. CASE \E status \in Filters : OpenNotifications(status)
  BY <1>1, <1>6, OpenKeepsOffsets
<1>7. CASE FindNotifications BY <1>1, <1>7, FindKeepsOffsets
<1>8. CASE CountNotifications BY <1>1, <1>8, CountKeepsOffsets
<1>9. CASE GetNotifications BY <1>1, <1>9, GetKeepsOffsets
<1> QED BY <1>2, <1>3, <1>4, <1>5, <1>6, <1>7, <1>8, <1>9 DEF NotificationsNext

LEMMA OffsetsInvStep ==
    ASSUME IInv, OffsetsInv, [Next]_vars
    PROVE  OffsetsInv'
<1>1. used \subseteq used' BY ClockedStep
<1>2. CASE UNCHANGED noticeVars BY <1>1, <1>2, OffsetsKept
<1>3. CASE NotificationsNext BY <1>3, NotificationsKeepOffsets
<1> QED BY <1>2, <1>3 DEF Next, vars

LEMMA InitOffsets == Init => OffsetsInv
<1> SUFFICES ASSUME Init PROVE OffsetsInv OBVIOUS
<1>1. /\ notice = {} /\ expected = {} /\ listed = {}
      /\ list = [on |-> FALSE, status |-> "all", offset |-> 0, data |-> None, total |-> None]
  BY DEF Init, NotificationsInit
<1>2. ~list.on /\ list.data = None /\ list.total = None BY <1>1
<1> QED BY <1>1, <1>2 DEF OffsetsInv, NoticesToldApart, NoneSkipped

(* Reading notifications by offset, be it all of them, those read or those   *)
(* unread, leaves out none that was there from the first page to the last    *)
(* with a date of its own, whatever is added in front of the page or expires *)
(* behind it: other than if the client marks as read while it reads what is  *)
(* unread, or one comes into its list between the total and the page.        *)
THEOREM NothingSkipped == Spec => []NoneSkipped
<1>1. Init => OffsetsInv BY InitOffsets
<1>2. IInv /\ OffsetsInv /\ [Next]_vars => OffsetsInv' BY OffsetsInvStep
<1>3. OffsetsInv => NoneSkipped BY DEF OffsetsInv
<1> QED BY <1>1, <1>2, <1>3, Invariance, PTL DEF Spec

=============================================================================
