-------------------- MODULE PresenceSubscriptionsProofs --------------------
(***************************************************************************)
(* What is proved of PresenceSubscriptions for every set of users, sockets  *)
(* and subscriptions, with servers that die: the two keys of an entry stay  *)
(* mirrored where it matters, and no watcher misses a change.               *)
(***************************************************************************)
EXTENDS PresenceSubscriptions, TLAPS

(* What is about to be renewed or unsubscribed was listed for its user.     *)
RewritesItsOwn == \A t \in Tasks :
    at[t] = "rewrite" => \A e \in found[t] : e[1] = TaskUser(t)

(* A client knows only of users it watches, and only while it is connected. *)
KnownIsWatched == \A s \in Sockets, u \in Users :
    told[s][u] # "unsure" => link[s] = "open" /\ <<UserOf[s], u>> \in watchers

IInv ==
    /\ TypeOK
    /\ RewritesItsOwn
    /\ Mirrored
    /\ KnownIsWatched
    /\ NoChangeMissed

-----------------------------------------------------------------------------
LEMMA TaskFacts ==
    /\ \A t \in Tasks : t[1] \in Handlers /\ t[2] \in Sockets /\ TaskUser(t) \in Users
    /\ \A h \in Handlers, s \in Sockets :
          /\ <<h, s>> \in Tasks /\ <<h, s>>[1] = h /\ <<h, s>>[2] = s
          /\ TaskUser(<<h, s>>) = UserOf[s]
  BY ConstantsAssumption DEF Tasks, TaskUser

LEMMA StateIsKnown == \A P, u : State(P, u) \in {"online", "offline"}
  BY DEF State

LEMMA HearTells ==
    \A s, u, state : /\ Hear(s, u, state) \in {state, "unsure"}
                     /\ Hear(s, u, state) # "unsure" =>
                          /\ Hear(s, u, state) = State(present, u)
                          /\ <<UserOf[s], u>> \in watchers
  BY DEF Hear

(* A task takes a step, and no client hears anything.  All that can come to  *)
(* be unsure or to be written is in the four conditions at the end.         *)
LEMMA SilentStep ==
    ASSUME IInv, NEW t \in Tasks, NEW step \in Steps, NEW E \in SUBSET Entries,
           at' = [at EXCEPT ![t] = step], found' = [found EXCEPT ![t] = E],
           UNCHANGED <<present, link, ticking, scenario>>, seen' \in [Sockets -> SUBSET Users],
           watchers' \subseteq Entries, watched' \subseteq Entries, due' \subseteq watchers',
           told' \in [Sockets -> [Users -> {"unsure", "online", "offline"}]],
           step = "rewrite" => \A e \in E : e[1] = TaskUser(t),
           Mirrored',
           \A s \in Sockets, u \in Users : told'[s][u] # "unsure" =>
              told'[s][u] = told[s][u] /\ <<UserOf[s], u>> \in watchers',
           \A s \in Sockets, u \in Users :
              told'[s][u] # "unsure" /\ WillTell(t, s, u) => WillTell(t, s, u)'
    PROVE  IInv'
<1>1. /\ at \in [Tasks -> Steps] /\ at'[t] = step /\ \A q \in Tasks \ {t} : at'[q] = at[q]
      /\ found \in [Tasks -> SUBSET Entries] /\ found'[t] = E
      /\ \A q \in Tasks \ {t} : found'[q] = found[q]
  BY DEF IInv, TypeOK
<1>2. TypeOK' BY <1>1 DEF IInv, TypeOK
<1>3. RewritesItsOwn' BY <1>1 DEF IInv, RewritesItsOwn
<1>4. KnownIsWatched' BY DEF IInv, KnownIsWatched
<1>5. NoChangeMissed'
  <2>1. ASSUME NEW s \in Sockets, NEW u \in Users,
               told'[s][u] \in {"online", "offline"}, told'[s][u] # State(present', u)
        PROVE  \E q \in Tasks : WillTell(q, s, u)'
    <3>1. told'[s][u] # "unsure" /\ told[s][u] = told'[s][u] BY <2>1
    <3>2. PICK q \in Tasks : WillTell(q, s, u) BY <2>1, <3>1 DEF IInv, NoChangeMissed
    <3>3. CASE q = t BY <3>1, <3>2, <3>3
    <3>4. CASE q # t BY <1>1, <3>2, <3>4 DEF WillTell
    <3> QED BY <3>3, <3>4
  <2> QED BY <2>1 DEF NoChangeMissed
<1> QED BY <1>2, <1>3, <1>4, <1>5 DEF IInv

(* The same without a change to the keys or to what clients know.           *)
LEMMA ReadingStep ==
    ASSUME IInv, NEW t \in Tasks, NEW step \in Steps, NEW E \in SUBSET Entries,
           Goto(t, step), Keep(t, E),
           UNCHANGED <<keys, present, link, ticking, told, scenario>>, seen' \in [Sockets -> SUBSET Users],
           step = "rewrite" => \A e \in E : e[1] = TaskUser(t),
           \A s \in Sockets, u \in Users :
              told[s][u] # "unsure" /\ WillTell(t, s, u) => WillTell(t, s, u)'
    PROVE  IInv'
<1>1. UNCHANGED <<watchers, watched, due, present, link, ticking, told, scenario>>
      /\ at' = [at EXCEPT ![t] = step] /\ found' = [found EXCEPT ![t] = E]
  BY DEF keys, Goto, Keep
<1>2. /\ watchers' \subseteq Entries /\ watched' \subseteq Entries /\ due' \subseteq watchers'
      /\ told' \in [Sockets -> [Users -> {"unsure", "online", "offline"}]]
      /\ Mirrored'
  BY <1>1 DEF IInv, TypeOK, Mirrored
<1>3. \A s \in Sockets, u \in Users : told'[s][u] # "unsure" =>
         told'[s][u] = told[s][u] /\ <<UserOf[s], u>> \in watchers'
  BY <1>1 DEF IInv, KnownIsWatched
<1> QED BY <1>1, <1>2, <1>3, SilentStep

-----------------------------------------------------------------------------
LEMMA ListIsEntries ==
    ASSUME IInv, NEW t \in Tasks
    PROVE  List(t) \subseteq Entries
  BY DEF IInv, TypeOK, List, WatchersOf, WatchedBy

LEMMA FindDueStep ==
    ASSUME IInv, NEW t \in Tasks, FindDue(t)
    PROVE  IInv'
<1> DEFINE step == IF at[t] = "getWatchers" THEN "dropWatchers" ELSE "dropWatched"
<1>1. step \in Steps /\ step # "rewrite" BY DEF Steps
<1>2. List(t) \cap due \in SUBSET Entries BY ListIsEntries
<1>3. Goto(t, step) /\ Keep(t, List(t) \cap due) /\ UNCHANGED <<keys, present, link, ticking, told, scenario>>
      /\ UNCHANGED seen
  BY DEF FindDue
<1>4. seen' \in [Sockets -> SUBSET Users] BY <1>3 DEF IInv, TypeOK
<1>5. \A s \in Sockets, u \in Users : WillTell(t, s, u) => WillTell(t, s, u)'
  <2>1. at[t] \in {"getWatchers", "getWatched"} /\ at'[t] = step
    BY <1>3 DEF FindDue, Goto, IInv, TypeOK
  <2> QED BY <1>3, <2>1 DEF WillTell
<1> HIDE DEF step
<1> QED BY <1>1, <1>2, <1>3, <1>4, <1>5, ReadingStep

(* Entries leave the watchers keys, and their watchers are unsure.          *)
LEMMA StruckFromWatchers ==
    ASSUME IInv, NEW E \in SUBSET Entries,
           watchers' = watchers \ E, due' = due \ E, watched' \subseteq watched, Unlearn(E)
    PROVE  /\ watchers' \subseteq Entries /\ watched' \subseteq Entries /\ due' \subseteq watchers'
           /\ told' \in [Sockets -> [Users -> {"unsure", "online", "offline"}]]
           /\ \A s \in Sockets, u \in Users : told'[s][u] # "unsure" =>
                 told'[s][u] = told[s][u] /\ <<UserOf[s], u>> \in watchers'
<1>1. /\ watchers' \subseteq Entries /\ watched' \subseteq Entries /\ due' \subseteq watchers'
  BY DEF IInv, TypeOK
<1>2. told' = [s \in Sockets |-> [u \in Users |->
                  IF <<UserOf[s], u>> \in E THEN "unsure" ELSE told[s][u]]]
  BY DEF Unlearn
<1>3. told' \in [Sockets -> [Users -> {"unsure", "online", "offline"}]]
  BY <1>2 DEF IInv, TypeOK
<1>4. \A s \in Sockets, u \in Users : told'[s][u] # "unsure" =>
         told'[s][u] = told[s][u] /\ <<UserOf[s], u>> \in watchers'
  BY <1>2 DEF IInv, KnownIsWatched
<1> QED BY <1>1, <1>3, <1>4

LEMMA DropDueStep ==
    ASSUME IInv, NEW t \in Tasks, DropDue(t)
    PROVE  IInv'
<1>1. found[t] \in SUBSET Entries BY DEF IInv, TypeOK
<1>2. /\ watchers' = watchers \ found[t] /\ watched' = watched \ found[t]
      /\ due' = due \ found[t] /\ Unlearn(found[t])
  BY DEF DropDue, Strike
<1>3. Dropped(t) \in Steps /\ Dropped(t) # "rewrite" BY DEF Dropped, Steps
<1>4. at' = [at EXCEPT ![t] = Dropped(t)] /\ found' = [found EXCEPT ![t] = {}]
      /\ UNCHANGED <<present, link, ticking, seen, scenario>>
  BY DEF DropDue, Goto, Keep
<1>5. Mirrored' BY <1>2 DEF IInv, Mirrored
<1>6. \A s \in Sockets, u \in Users : WillTell(t, s, u) => WillTell(t, s, u)'
  <2>1. at[t] \in {"dropWatchers", "dropFirst", "dropWatched"} /\ at'[t] = Dropped(t)
    BY <1>4 DEF DropDue, IInv, TypeOK
  <2> QED BY <1>4, <2>1 DEF WillTell, Dropped
<1>7. /\ watchers' \subseteq Entries /\ watched' \subseteq Entries /\ due' \subseteq watchers'
      /\ told' \in [Sockets -> [Users -> {"unsure", "online", "offline"}]]
      /\ \A s \in Sockets, u \in Users : told'[s][u] # "unsure" =>
            told'[s][u] = told[s][u] /\ <<UserOf[s], u>> \in watchers'
  BY <1>1, <1>2, StruckFromWatchers
<1>8. seen' \in [Sockets -> SUBSET Users] BY <1>4 DEF IInv, TypeOK
<1> PICK step, E : step = Dropped(t) /\ E = {} OBVIOUS
<1>9. step \in Steps /\ E \in SUBSET Entries /\ step # "rewrite"
      /\ at' = [at EXCEPT ![t] = step] /\ found' = [found EXCEPT ![t] = E]
  BY <1>3, <1>4
<1> QED BY <1>4, <1>5, <1>6, <1>7, <1>8, <1>9, SilentStep

(* Every client that knows of the user is among the watchers that are read.  *)
LEMMA ListWatchersStep ==
    ASSUME IInv, NEW t \in Tasks, ListWatchers(t)
    PROVE  IInv'
<1> DEFINE step == IF List(t) = {} THEN Announced(t) ELSE "announce"
<1>1. step \in Steps /\ step # "rewrite" BY DEF Steps, Announced
<1>2. List(t) \in SUBSET Entries BY ListIsEntries
<1>3. Goto(t, step) /\ Keep(t, List(t)) /\ UNCHANGED <<keys, present, link, ticking, told, scenario>>
      /\ UNCHANGED seen
  BY DEF ListWatchers
<1>4. seen' \in [Sockets -> SUBSET Users] BY <1>3 DEF IInv, TypeOK
<1>5. at[t] \in {"getWatchers", "listWatchers"} BY DEF ListWatchers, Listing
<1>6. ASSUME NEW s \in Sockets, NEW u \in Users, told[s][u] # "unsure", WillTell(t, s, u)
      PROVE  WillTell(t, s, u)'
  <2>1. u = TaskUser(t) /\ t[1] \in {"connect", "disconnect"} BY <1>6 DEF WillTell
  <2>2. <<UserOf[s], u>> \in watchers /\ <<UserOf[s], u>>[2] = u
    BY <1>6 DEF IInv, KnownIsWatched
  <2>3. <<UserOf[s], u>> \in List(t) BY <1>5, <2>1, <2>2 DEF List, WatchersOf
  <2>4. at'[t] = "announce" /\ found'[t] = List(t)
    BY <1>3, <2>3 DEF Goto, Keep, IInv, TypeOK
  <2> QED BY <1>3, <1>6, <2>1, <2>3, <2>4 DEF WillTell
<1> HIDE DEF step
<1> QED BY <1>1, <1>2, <1>3, <1>4, <1>6, ReadingStep

LEMMA ListWatchedStep ==
    ASSUME IInv, NEW t \in Tasks, ListWatched(t)
    PROVE  IInv'
<1> DEFINE step == IF t[1] = "refresh" /\ List(t) = {} THEN "idle" ELSE "rewrite"
<1>1. step \in Steps BY DEF Steps
<1>2. List(t) \in SUBSET Entries BY ListIsEntries
<1>3. Goto(t, step) /\ Keep(t, List(t)) /\ UNCHANGED <<keys, present, link, ticking, told, scenario>>
      /\ UNCHANGED seen
  BY DEF ListWatched
<1>4. seen' \in [Sockets -> SUBSET Users] BY <1>3 DEF IInv, TypeOK
<1>5. at[t] \in {"getWatched", "listWatched"} BY DEF ListWatched, Listing
<1>6. \A e \in List(t) : e[1] = TaskUser(t) BY <1>5 DEF List, WatchedBy
<1>7. \A s \in Sockets, u \in Users : ~WillTell(t, s, u) BY <1>5 DEF WillTell
<1> HIDE DEF step
<1> QED BY <1>1, <1>2, <1>3, <1>4, <1>6, <1>7, ReadingStep

LEMMA TickStep ==
    ASSUME IInv, NEW s \in Sockets, Tick(s)
    PROVE  IInv'
<1> PICK t : t = <<"refresh", s>> OBVIOUS
<1> PICK E : E = WatchedBy(UserOf[s]) OBVIOUS
<1> PICK D : D = E \cap due OBVIOUS
<1> DEFINE F == IF D = {} THEN E ELSE D
           step == IF D = {} THEN "rewrite" ELSE "dropFirst"
<1>1. t \in Tasks /\ TaskUser(t) = UserOf[s] /\ t[1] = "refresh"
  BY TaskFacts DEF Handlers
<1>2. Keep(t, F) /\ Goto(t, step) /\ UNCHANGED <<keys, present, link, ticking, seen, told, scenario>>
  BY DEF Tick
<1>3. F \in SUBSET Entries /\ \A e \in F : e[1] = UserOf[s] BY DEF IInv, TypeOK, WatchedBy
<1>4. step \in Steps BY DEF Steps
<1>5. seen' \in [Sockets -> SUBSET Users] BY <1>2 DEF IInv, TypeOK
<1>6. \A c \in Sockets, u \in Users : ~WillTell(t, c, u) BY <1>1 DEF WillTell
<1> HIDE DEF F, step
<1> QED BY <1>1, <1>2, <1>3, <1>4, <1>5, <1>6, ReadingStep

(* Entries are written to both keys by a task that tells nobody.            *)
LEMMA EnlistStep ==
    ASSUME IInv, NEW t \in Tasks, t[1] \in {"refresh", "subscribe"},
           NEW step \in Steps \ {"rewrite"}, NEW E \in SUBSET Entries, NEW F \in SUBSET Entries,
           Goto(t, step), Keep(t, F), Enlist(E), UNCHANGED <<present, link, ticking, seen, told, scenario>>
    PROVE  IInv'
<1>1. /\ watchers' \subseteq Entries /\ watched' \subseteq Entries /\ due' \subseteq watchers'
      /\ told' \in [Sockets -> [Users -> {"unsure", "online", "offline"}]]
      /\ seen' \in [Sockets -> SUBSET Users]
      /\ Mirrored'
  BY DEF Enlist, IInv, TypeOK, Mirrored
<1>2. \A s \in Sockets, u \in Users : told'[s][u] # "unsure" =>
         told'[s][u] = told[s][u] /\ <<UserOf[s], u>> \in watchers'
  BY DEF Enlist, IInv, KnownIsWatched
<1>3. \A s \in Sockets, u \in Users : ~WillTell(t, s, u) BY DEF WillTell
<1>4. at' = [at EXCEPT ![t] = step] /\ found' = [found EXCEPT ![t] = F]
      /\ UNCHANGED <<present, link, ticking, scenario>>
  BY DEF Goto, Keep
<1>5. step # "rewrite" OBVIOUS
<1> QED BY <1>1, <1>2, <1>3, <1>4, <1>5, SilentStep

LEMMA RenewStep ==
    ASSUME IInv, NEW s \in Sockets, Renew(s)
    PROVE  IInv'
<1>1. <<"refresh", s>> \in Tasks /\ <<"refresh", s>>[1] = "refresh" BY TaskFacts DEF Handlers
<1>2. found[<<"refresh", s>>] \in SUBSET Entries BY <1>1 DEF IInv, TypeOK
<1>3. "idle" \in Steps \ {"rewrite"} BY DEF Steps
<1>4. {} \in SUBSET Entries OBVIOUS
<1> QED BY <1>1, <1>2, <1>3, <1>4, EnlistStep DEF Renew

LEMMA SubscribeStep ==
    ASSUME IInv, NEW s \in Sockets, Subscribe(s)
    PROVE  IInv'
<1>1. <<"subscribe", s>> \in Tasks /\ <<"subscribe", s>>[1] = "subscribe"
  BY TaskFacts DEF Handlers
<1>2. /\ {UserOf[s]} \X (Wants[s] \ {UserOf[s]}) \in SUBSET Entries
      /\ {UserOf[s]} \X Wants[s] \in SUBSET Entries
  BY ConstantsAssumption DEF Entries
<1>3. "ask" \in Steps \ {"rewrite"} BY DEF Steps
<1> QED BY <1>1, <1>2, <1>3, EnlistStep DEF Subscribe

(* The entries listed leave the watchers keys; those of the user's watched   *)
(* key that were not listed leave only that.                                *)
LEMMA UnsubscribeStep ==
    ASSUME IInv, NEW s \in Sockets, Unsubscribe(s)
    PROVE  IInv'
<1> PICK t : t = <<"disconnect", s>> OBVIOUS
<1>1. t \in Tasks /\ TaskUser(t) = UserOf[s] BY TaskFacts DEF Handlers
<1>2. /\ watchers' = watchers \ found[t] /\ watched' = watched \ WatchedBy(UserOf[s])
      /\ due' = due \ found[t] /\ Unlearn(found[t]) /\ at[t] = "rewrite"
  BY DEF Unsubscribe
<1>3. found[t] \in SUBSET Entries BY <1>1 DEF IInv, TypeOK
<1>4. \A e \in found[t] : e[1] = UserOf[s] BY <1>1, <1>2 DEF IInv, RewritesItsOwn
<1>5. Mirrored' BY <1>2, <1>4 DEF IInv, Mirrored, WatchedBy
<1>6. /\ watchers' \subseteq Entries /\ watched' \subseteq Entries /\ due' \subseteq watchers'
      /\ told' \in [Sockets -> [Users -> {"unsure", "online", "offline"}]]
      /\ \A c \in Sockets, u \in Users : told'[c][u] # "unsure" =>
            told'[c][u] = told[c][u] /\ <<UserOf[c], u>> \in watchers'
  <2>1. watched' \subseteq watched BY <1>2
  <2> QED BY <1>2, <1>3, <2>1, StruckFromWatchers
<1>7. \A c \in Sockets, u \in Users : ~WillTell(t, c, u) BY <1>2 DEF WillTell
<1>8. at' = [at EXCEPT ![t] = "idle"] /\ found' = [found EXCEPT ![t] = {}]
      /\ UNCHANGED <<present, link, ticking, seen, scenario>>
  BY DEF Unsubscribe, Goto, Keep
<1>9. seen' \in [Sockets -> SUBSET Users] BY <1>8 DEF IInv, TypeOK
<1> PICK step, E : step = "idle" /\ E = {} OBVIOUS
<1>10. step \in Steps /\ E \in SUBSET Entries /\ step # "rewrite"
       /\ at' = [at EXCEPT ![t] = step] /\ found' = [found EXCEPT ![t] = E]
  BY <1>8 DEF Steps
<1> QED BY <1>1, <1>5, <1>6, <1>7, <1>8, <1>9, <1>10, SilentStep

LEMMA ReceiveStep ==
    ASSUME IInv, NEW s \in Sockets, Receive(s)
    PROVE  IInv'
<1> PICK t : t = <<"subscribe", s>> OBVIOUS
<1>1. t \in Tasks /\ t[1] = "subscribe" BY TaskFacts DEF Handlers
<1>2. Goto(t, "enlist") /\ UNCHANGED <<keys, present, link, ticking, found, seen, told, scenario>>
  BY DEF Receive
<1> PICK E : E = found[t] OBVIOUS
<1>3. E \in SUBSET Entries /\ Keep(t, E) BY <1>1, <1>2 DEF IInv, TypeOK, Keep
<1>4. "enlist" \in Steps /\ seen' \in [Sockets -> SUBSET Users]
  BY <1>2 DEF Steps, IInv, TypeOK
<1>5. \A c \in Sockets, u \in Users : ~WillTell(t, c, u) BY <1>1 DEF WillTell
<1> QED BY <1>1, <1>2, <1>3, <1>4, <1>5, ReadingStep

LEMMA AskStep ==
    ASSUME IInv, NEW s \in Sockets, Ask(s)
    PROVE  IInv'
<1> PICK t : t = <<"subscribe", s>> OBVIOUS
<1>1. t \in Tasks /\ t[1] = "subscribe" /\ at[t] = "ask" BY TaskFacts DEF Handlers, Ask
<1>2. PICK e \in found[t] : /\ seen' = [seen EXCEPT ![s] = @ \cup OnlineAmong({e[2]})]
                            /\ Keep(t, found[t] \ {e})
  BY DEF Ask
<1> PICK E : E = found[t] \ {e} OBVIOUS
<1>3. e[2] \in Users /\ E \in SUBSET Entries BY <1>1 DEF IInv, TypeOK, Entries
<1>4. Goto(t, "ask") /\ UNCHANGED <<keys, present, link, ticking, told, scenario>> /\ "ask" \in Steps
  BY <1>1 DEF Ask, Goto, IInv, TypeOK, Steps
<1>5. seen' \in [Sockets -> SUBSET Users] BY <1>2, <1>3 DEF IInv, TypeOK, OnlineAmong
<1>6. \A c \in Sockets, u \in Users : ~WillTell(t, c, u) BY <1>1 DEF WillTell
<1> QED BY <1>1, <1>2, <1>3, <1>4, <1>5, <1>6, ReadingStep

-----------------------------------------------------------------------------
(* Steps that tell clients something, or change who is present.             *)

(* A task takes a step, the keys stay, and what a client newly hears is so.  *)
LEMMA TellingStep ==
    ASSUME IInv, NEW t \in Tasks, NEW step \in Steps, Goto(t, step), Keep(t, {}),
           UNCHANGED <<keys, present, link, ticking, scenario>>, seen' \in [Sockets -> SUBSET Users],
           told' \in [Sockets -> [Users -> {"unsure", "online", "offline"}]],
           \A s \in Sockets, u \in Users :
              \/ told'[s][u] = "unsure"
              \/ /\ told'[s][u] = State(present, u)
                 /\ link[s] = "open" /\ <<UserOf[s], u>> \in watchers
              \/ told'[s][u] = told[s][u] /\ ~WillTell(t, s, u)
    PROVE  IInv'
<1>1. UNCHANGED <<watchers, watched, due, present, link, ticking, scenario>> BY DEF keys
<1>2. /\ at \in [Tasks -> Steps] /\ at'[t] = step /\ \A q \in Tasks \ {t} : at'[q] = at[q]
      /\ found \in [Tasks -> SUBSET Entries] /\ found'[t] = {}
      /\ \A q \in Tasks \ {t} : found'[q] = found[q]
      /\ at' \in [Tasks -> Steps] /\ found' \in [Tasks -> SUBSET Entries]
  BY DEF Goto, Keep, IInv, TypeOK
<1>3. TypeOK' BY <1>1, <1>2 DEF IInv, TypeOK
<1>4. RewritesItsOwn' BY <1>2 DEF IInv, RewritesItsOwn
<1>5. Mirrored' BY <1>1 DEF IInv, Mirrored
<1>6. KnownIsWatched' BY <1>1 DEF IInv, KnownIsWatched
<1>7. NoChangeMissed'
  <2>1. ASSUME NEW s \in Sockets, NEW u \in Users,
               told'[s][u] \in {"online", "offline"}, told'[s][u] # State(present', u)
        PROVE  \E q \in Tasks : WillTell(q, s, u)'
    <3>1. told'[s][u] = told[s][u] /\ ~WillTell(t, s, u) BY <1>1, <2>1
    <3>2. PICK q \in Tasks : WillTell(q, s, u) BY <1>1, <2>1, <3>1 DEF IInv, NoChangeMissed
    <3>3. q # t BY <3>1, <3>2
    <3> QED BY <1>2, <3>2, <3>3 DEF WillTell
  <2> QED BY <2>1 DEF NoChangeMissed
<1> QED BY <1>3, <1>4, <1>5, <1>6, <1>7 DEF IInv

(* All the sockets it was going to tell are told, or have stopped listening. *)
LEMMA AnnounceStep ==
    ASSUME IInv, NEW t \in Tasks, Announce(t)
    PROVE  IInv'
<1> PICK v : v = TaskUser(t) OBVIOUS
<1> PICK state : state = IF t[1] = "connect" THEN "online" ELSE "offline" OBVIOUS
<1>1. v \in Users BY TaskFacts
<1>2. told' = [s \in Sockets |->
          IF link[s] # "open" \/ <<UserOf[s], v>> \notin found[t] THEN told[s]
          ELSE IF s \in present THEN [told[s] EXCEPT ![v] = Hear(s, v, state)]
          ELSE IF told[s][v] # State(present, v) THEN [told[s] EXCEPT ![v] = "unsure"]
          ELSE told[s]]
  BY DEF Announce
<1>3. ASSUME NEW s \in Sockets PROVE Hear(s, v, state) \in {"online", "offline", "unsure"}
  <2>1. state \in {"online", "offline"} OBVIOUS
  <2>2. Hear(s, v, state) \in {state, "unsure"} BY HearTells
  <2> QED BY <2>1, <2>2
<1>4. told \in [Sockets -> [Users -> {"unsure", "online", "offline"}]] BY DEF IInv, TypeOK
<1>5. told' \in [Sockets -> [Users -> {"unsure", "online", "offline"}]]
  BY <1>1, <1>2, <1>3, <1>4
<1>6. ASSUME NEW s \in Sockets, NEW u \in Users
      PROVE  \/ told'[s][u] = "unsure"
             \/ /\ told'[s][u] = State(present, u)
                /\ link[s] = "open" /\ <<UserOf[s], u>> \in watchers
             \/ told'[s][u] = told[s][u] /\ ~WillTell(t, s, u)
  <2>1. CASE u # v
    <3>1. told'[s][u] = told[s][u] BY <1>1, <1>2, <1>4, <2>1
    <3>2. ~WillTell(t, s, u) BY <2>1 DEF WillTell
    <3> QED BY <3>1, <3>2
  <2>2. CASE u = v /\ link[s] # "open"
    <3>1. told'[s][u] = told[s][u] BY <1>1, <1>2, <1>4, <2>2
    <3> QED BY <2>2, <3>1 DEF IInv, KnownIsWatched
  <2>3. CASE u = v /\ <<UserOf[s], v>> \notin found[t]
    <3>1. told'[s][u] = told[s][u] BY <1>1, <1>2, <1>4, <2>3
    <3>2. at[t] = "announce" BY DEF Announce
    <3>3. ~WillTell(t, s, u) BY <2>3, <3>2 DEF WillTell
    <3> QED BY <3>1, <3>3
  <2>4. CASE u = v /\ link[s] = "open" /\ <<UserOf[s], v>> \in found[t]
    <3>1. CASE s \in present
      <4>1. told'[s][u] = Hear(s, v, state) BY <1>1, <1>2, <1>4, <2>4, <3>1
      <4> QED BY <2>4, <4>1, HearTells
    <3>2. CASE s \notin present /\ told[s][v] # State(present, v)
      BY <1>1, <1>2, <1>4, <2>4, <3>2
    <3>3. CASE s \notin present /\ told[s][v] = State(present, v)
      <4>1. told'[s][u] = told[s][u] BY <1>2, <2>4, <3>3
      <4>2. told[s][u] # "unsure" BY <2>4, <3>3, StateIsKnown
      <4> QED BY <2>4, <3>3, <4>1, <4>2 DEF IInv, KnownIsWatched
    <3> QED BY <3>1, <3>2, <3>3
  <2> QED BY <2>1, <2>2, <2>3, <2>4
<1>7. Keep(t, {}) /\ Goto(t, Announced(t)) /\ UNCHANGED <<keys, present, link, ticking, seen, scenario>>
  BY DEF Announce
<1>8. Announced(t) \in Steps BY DEF Announced, Steps
<1>9. seen' \in [Sockets -> SUBSET Users] BY <1>7 DEF IInv, TypeOK
<1> QED BY <1>5, <1>6, <1>7, <1>8, <1>9, TellingStep

LEMMA ReplyStep ==
    ASSUME IInv, NEW s \in Sockets, Reply(s)
    PROVE  IInv'
<1> PICK t : t = <<"subscribe", s>> OBVIOUS
<1>1. t \in Tasks /\ t[1] = "subscribe" BY TaskFacts DEF Handlers
<1>2. told \in [Sockets -> [Users -> {"unsure", "online", "offline"}]] BY DEF IInv, TypeOK
<1>3. PICK e : told' = IF link[s] # "open" THEN told
                       ELSE [told EXCEPT ![s] = [u \in Users |->
                         IF u \notin Wants[s] THEN told[s][u]
                         ELSE Hear(s, u, IF u \in seen[s] \cup OnlineAmong({e[2]})
                                         THEN "online" ELSE "offline")]]
  BY DEF Reply
<1>4. \A c \in Sockets, u \in Users : ~WillTell(t, c, u) BY <1>1 DEF WillTell
<1>5. told' \in [Sockets -> [Users -> {"unsure", "online", "offline"}]]
      /\ \A c \in Sockets, u \in Users :
            \/ told'[c][u] = "unsure"
            \/ /\ told'[c][u] = State(present, u)
               /\ link[c] = "open" /\ <<UserOf[c], u>> \in watchers
            \/ told'[c][u] = told[c][u] /\ ~WillTell(t, c, u)
  <2>1. CASE link[s] # "open" BY <1>2, <1>3, <1>4, <2>1
  <2>2. CASE link[s] = "open"
    <3> DEFINE heard(u) == IF u \notin Wants[s] THEN told[s][u]
                           ELSE Hear(s, u, IF u \in seen[s] \cup OnlineAmong({e[2]})
                                           THEN "online" ELSE "offline")
    <3>1. told' = [told EXCEPT ![s] = [u \in Users |-> heard(u)]] BY <1>3, <2>2
    <3>2. ASSUME NEW u \in Users
          PROVE  /\ heard(u) \in {"unsure", "online", "offline"}
                 /\ \/ heard(u) = "unsure"
                    \/ heard(u) = State(present, u) /\ <<UserOf[s], u>> \in watchers
                    \/ heard(u) = told[s][u]
      <4>1. CASE u \notin Wants[s] BY <1>2, <4>1
      <4>2. CASE u \in Wants[s] BY <4>2, HearTells
      <4> QED BY <4>1, <4>2
    <3> HIDE DEF heard
    <3>3. told'[s] = [u \in Users |-> heard(u)] /\ \A c \in Sockets \ {s} : told'[c] = told[c]
      BY <1>2, <3>1
    <3>4. told' \in [Sockets -> [Users -> {"unsure", "online", "offline"}]]
      BY <1>2, <3>1, <3>2
    <3> QED BY <1>4, <2>2, <3>2, <3>3, <3>4
  <2> QED BY <2>1, <2>2
<1>6. Keep(t, {}) /\ Goto(t, "idle") /\ UNCHANGED <<keys, present, link, ticking, scenario>>
      /\ seen' = [seen EXCEPT ![s] = {}] /\ "idle" \in Steps
  BY DEF Reply, Steps
<1>7. seen' \in [Sockets -> SUBSET Users] BY <1>6 DEF IInv, TypeOK
<1> QED BY <1>1, <1>5, <1>6, <1>7, TellingStep

(* What happens to the sockets of one user concerns no other.                *)
LEMMA OtherUsers ==
    ASSUME NEW P, NEW Q, NEW u, NEW v, u # v, P \ SocketsOf(v) = Q \ SocketsOf(v)
    PROVE  State(P, u) = State(Q, u)
<1>1. SocketsOf(u) \cap SocketsOf(v) = {} BY DEF SocketsOf
<1>2. P \cap SocketsOf(u) = Q \cap SocketsOf(u) BY <1>1
<1> QED BY <1>2 DEF State

LEMMA ConnectStep ==
    ASSUME IInv, NEW s \in Sockets, Connect(s)
    PROVE  IInv'
<1> PICK t : t = <<"connect", s>> OBVIOUS
<1>1. t \in Tasks /\ t[1] = "connect" BY TaskFacts DEF Handlers
<1>2. /\ link' = [link EXCEPT ![s] = "open"] /\ at' = [at EXCEPT ![t] = "register"]
      /\ UNCHANGED <<watchers, watched, due, present, ticking, found, seen, told, scenario>>
      /\ at[t] = "idle"
  BY DEF Connect, Goto, keys, Handlers
<1>3. /\ at'[t] = "register" /\ \A q \in Tasks \ {t} : at'[q] = at[q]
      /\ link'[s] = "open" /\ \A c \in Sockets \ {s} : link'[c] = link[c]
  BY <1>1, <1>2 DEF IInv, TypeOK
<1>4. TypeOK' BY <1>1, <1>2 DEF IInv, TypeOK, Steps
<1>5. RewritesItsOwn' BY <1>1, <1>2, <1>3 DEF IInv, RewritesItsOwn
<1>6. Mirrored' BY <1>2 DEF IInv, Mirrored
<1>7. KnownIsWatched' BY <1>2, <1>3 DEF IInv, KnownIsWatched
<1>8. NoChangeMissed'
  <2>1. ASSUME NEW c \in Sockets, NEW u \in Users, NEW q \in Tasks, WillTell(q, c, u)
        PROVE  WillTell(q, c, u)'
    <3>1. q # t BY <1>2, <2>1 DEF WillTell
    <3> QED BY <1>2, <1>3, <2>1, <3>1 DEF WillTell
  <2> QED BY <1>2, <2>1 DEF IInv, NoChangeMissed
<1> QED BY <1>4, <1>5, <1>6, <1>7, <1>8 DEF IInv

(* The user comes online: the handler has begun to tell those who believe    *)
(* otherwise.                                                               *)
LEMMA RegisterStep ==
    ASSUME IInv, NEW s \in Sockets, Register(s)
    PROVE  IInv'
<1> PICK t : t = <<"connect", s>> OBVIOUS
<1>1. t \in Tasks /\ t[1] = "connect" /\ TaskUser(t) = UserOf[s] BY TaskFacts DEF Handlers
<1>2. /\ present' = present \cup {s} /\ ticking' = ticking \cup {s}
      /\ at' = [at EXCEPT ![t] = "getWatchers"] /\ at[t] = "register"
      /\ UNCHANGED <<watchers, watched, due, link, found, seen, told, scenario>>
  BY DEF Register, Goto, keys
<1>3. /\ at'[t] = "getWatchers" /\ \A q \in Tasks \ {t} : at'[q] = at[q]
  BY <1>1, <1>2 DEF IInv, TypeOK
<1>4. TypeOK' BY <1>1, <1>2 DEF IInv, TypeOK, Steps
<1>5. RewritesItsOwn' BY <1>1, <1>2, <1>3 DEF IInv, RewritesItsOwn
<1>6. Mirrored' /\ KnownIsWatched' BY <1>2 DEF IInv, Mirrored, KnownIsWatched
<1>7. s \in SocketsOf(UserOf[s]) BY DEF SocketsOf
<1>8. NoChangeMissed'
  <2>1. ASSUME NEW c \in Sockets, NEW u \in Users,
               told'[c][u] \in {"online", "offline"}, told'[c][u] # State(present', u)
        PROVE  \E q \in Tasks : WillTell(q, c, u)'
    <3>1. CASE u = UserOf[s]
      <4>1. State(present', u) = "online" BY <1>2, <1>7, <3>1 DEF State
      <4>2. WillTell(t, c, u)' BY <1>1, <1>3, <3>1, <4>1 DEF WillTell, TaskUser
      <4> QED BY <1>1, <4>2
    <3>2. CASE u # UserOf[s]
      <4>1. State(present', u) = State(present, u) BY <1>2, <1>7, <3>2, OtherUsers
      <4>2. PICK q \in Tasks : WillTell(q, c, u) BY <1>2, <2>1, <4>1 DEF IInv, NoChangeMissed
      <4>3. q # t BY <1>2, <4>2 DEF WillTell
      <4> QED BY <1>2, <1>3, <4>1, <4>2, <4>3 DEF WillTell
    <3> QED BY <3>1, <3>2
  <2> QED BY <2>1 DEF NoChangeMissed
<1> QED BY <1>4, <1>5, <1>6, <1>8 DEF IInv

(* The user's last socket goes: the handler is about to count, and to tell   *)
(* its watchers, unless another socket comes first.                          *)
LEMMA DisconnectStep ==
    ASSUME IInv, NEW s \in Sockets, Disconnect(s)
    PROVE  IInv'
<1> PICK t : t = <<"disconnect", s>> OBVIOUS
<1> PICK r : r = <<"rejoin", s>> OBVIOUS
<1>1. /\ t \in Tasks /\ t[1] = "disconnect" /\ TaskUser(t) = UserOf[s]
      /\ r \in Tasks /\ r[1] = "rejoin"
  BY TaskFacts DEF Handlers
<1>2. /\ link' = [link EXCEPT ![s] = "closed"] /\ ticking' = ticking \ {s}
      /\ told' = [told EXCEPT ![s] = [u \in Users |-> "unsure"]]
      /\ UNCHANGED <<watchers, watched, due, found, seen, scenario>> /\ at[t] = "idle"
  BY DEF Disconnect, keys
<1>3. \/ UNCHANGED <<present, at>>
      \/ /\ present' = present \ {s}
         /\ \E late \in {"idle", "rejoin"} : at' = [at EXCEPT ![t] = "count", ![r] = late]
  BY DEF Disconnect
<1>4. /\ \A q \in Tasks \ {t, r} : at'[q] = at[q]
      /\ at' \in [Tasks -> Steps]
      /\ present' = present \/ (present' = present \ {s} /\ at'[t] = "count")
      /\ at'[t] # "rewrite" /\ (at'[r] = "rewrite" => at[r] = "rewrite")
  <2>1. CASE UNCHANGED <<present, at>> BY <1>2, <2>1 DEF IInv, TypeOK
  <2>2. ASSUME present' = present \ {s}, NEW late \in {"idle", "rejoin"},
               at' = [at EXCEPT ![t] = "count", ![r] = late]
        PROVE  /\ \A q \in Tasks \ {t, r} : at'[q] = at[q]
               /\ at' \in [Tasks -> Steps] /\ at'[t] = "count" /\ at'[r] # "rewrite"
    <3>1. at \in [Tasks -> Steps] /\ t # r BY <1>1 DEF IInv, TypeOK
    <3> QED BY <1>1, <2>2, <3>1 DEF Steps
  <2> QED BY <1>3, <2>1, <2>2
<1>5. /\ link'[s] = "closed" /\ \A c \in Sockets \ {s} : link'[c] = link[c]
      /\ told'[s] = [u \in Users |-> "unsure"] /\ \A c \in Sockets \ {s} : told'[c] = told[c]
  BY <1>2 DEF IInv, TypeOK
<1>6. TypeOK'
  <2>1. told' \in [Sockets -> [Users -> {"unsure", "online", "offline"}]]
    BY <1>2 DEF IInv, TypeOK
  <2>2. link' \in [Sockets -> {"new", "open", "closed"}] BY <1>2 DEF IInv, TypeOK
  <2>3. present' \subseteq Sockets BY <1>4 DEF IInv, TypeOK
  <2> QED BY <1>2, <1>4, <2>1, <2>2, <2>3 DEF IInv, TypeOK
<1>7. RewritesItsOwn' BY <1>2, <1>4 DEF IInv, RewritesItsOwn
<1>8. Mirrored' BY <1>2 DEF IInv, Mirrored
<1>9. KnownIsWatched' BY <1>2, <1>5 DEF IInv, KnownIsWatched
<1>10. s \in SocketsOf(UserOf[s]) BY DEF SocketsOf
<1>11. NoChangeMissed'
  <2>1. ASSUME NEW c \in Sockets, NEW u \in Users,
               told'[c][u] \in {"online", "offline"}, told'[c][u] # State(present', u)
        PROVE  \E q \in Tasks : WillTell(q, c, u)'
    <3>1. c # s /\ told'[c][u] = told[c][u] BY <1>5, <2>1
    <3>2. CASE State(present', u) = State(present, u)
      <4>1. PICK q \in Tasks : WillTell(q, c, u)
        BY <2>1, <3>1, <3>2 DEF IInv, NoChangeMissed
      <4>2. q # t /\ q # r BY <1>1, <1>2, <4>1 DEF WillTell
      <4> QED BY <1>2, <1>4, <3>2, <4>1, <4>2 DEF WillTell
    <3>3. CASE State(present', u) # State(present, u)
      <4>1. present' = present \ {s} /\ at'[t] = "count" BY <1>4, <3>3
      <4>2. u = UserOf[s] BY <1>10, <3>3, <4>1, OtherUsers
      <4>3. State(present', u) = "offline" BY <3>3, <4>1 DEF State
      <4>4. WillTell(t, c, u)' BY <1>1, <4>1, <4>2, <4>3 DEF WillTell, TaskUser
      <4> QED BY <1>1, <4>4
    <3> QED BY <3>2, <3>3
  <2> QED BY <2>1 DEF NoChangeMissed
<1> QED BY <1>6, <1>7, <1>8, <1>9, <1>11 DEF IInv

(* A handler that would have told somebody counts no socket, and goes on.    *)
LEMMA CountStep ==
    ASSUME IInv, NEW t \in Tasks, t[1] \in {"disconnect", "lapse"}, Count(t)
    PROVE  IInv'
<1> PICK step : step = IF State(present, TaskUser(t)) = "offline" THEN "wipe" ELSE "idle"
  OBVIOUS
<1> PICK E : E = found[t] OBVIOUS
<1>1. /\ Goto(t, step) /\ UNCHANGED <<keys, present, link, ticking, found, seen, told, scenario>>
      /\ at[t] = "count"
  BY DEF Count
<1>2. E \in SUBSET Entries /\ Keep(t, E) BY <1>1 DEF IInv, TypeOK, Keep
<1>3. step \in Steps /\ step # "rewrite" /\ seen' \in [Sockets -> SUBSET Users]
  BY <1>1 DEF Steps, IInv, TypeOK
<1>4. ASSUME NEW s \in Sockets, NEW u \in Users, WillTell(t, s, u)
      PROVE  WillTell(t, s, u)'
  <2>1. State(present, u) # "online" /\ u = TaskUser(t) BY <1>4 DEF WillTell
  <2>2. at'[t] = "wipe" BY <1>1, <2>1, StateIsKnown DEF Goto, IInv, TypeOK
  <2> QED BY <1>1, <1>4, <2>2 DEF WillTell
<1> QED BY <1>1, <1>2, <1>3, <1>4, ReadingStep

(* The sockets of a user change without a message: who was told otherwise is *)
(* unsure.                                                                  *)
LEMMA UnannouncedStep ==
    ASSUME IInv, NEW t \in Tasks, t[1] \notin {"connect", "disconnect"},
           NEW step \in Steps \ {"rewrite"}, Goto(t, step), NEW v \in Users, Unannounced(v),
           present' \subseteq Sockets, present' \ SocketsOf(v) = present \ SocketsOf(v),
           UNCHANGED <<keys, link, ticking, found, seen, scenario>>
    PROVE  IInv'
<1>1. /\ at' = [at EXCEPT ![t] = step]
      /\ UNCHANGED <<watchers, watched, due, link, ticking, found, seen, scenario>>
      /\ told' = [s \in Sockets |-> [u \in Users |->
             IF /\ u = v
                /\ State(present', u) # State(present, u)
                /\ told[s][u] # State(present', u)
             THEN "unsure" ELSE told[s][u]]]
  BY DEF Goto, Unannounced, keys
<1>2. at'[t] = step /\ \A q \in Tasks \ {t} : at'[q] = at[q] BY <1>1 DEF IInv, TypeOK
<1>3. \A s \in Sockets, u \in Users : told'[s][u] # "unsure" =>
         /\ told'[s][u] = told[s][u]
         /\ u = v => State(present', u) = State(present, u) \/ told[s][u] = State(present', u)
  BY <1>1
<1>4. told' \in [Sockets -> [Users -> {"unsure", "online", "offline"}]]
  BY <1>1 DEF IInv, TypeOK
<1>5. TypeOK'
  <2>1. at' \in [Tasks -> Steps] BY <1>1 DEF IInv, TypeOK
  <2> QED BY <1>1, <1>4, <2>1 DEF IInv, TypeOK
<1>6. RewritesItsOwn' BY <1>1, <1>2 DEF IInv, RewritesItsOwn
<1>7. Mirrored' BY <1>1 DEF IInv, Mirrored
<1>8. KnownIsWatched' BY <1>1, <1>3 DEF IInv, KnownIsWatched
<1>9. NoChangeMissed'
  <2>1. ASSUME NEW c \in Sockets, NEW u \in Users,
               told'[c][u] \in {"online", "offline"}, told'[c][u] # State(present', u)
        PROVE  \E q \in Tasks : WillTell(q, c, u)'
    <3>1. told'[c][u] = told[c][u] BY <1>3, <2>1
    <3>2. State(present', u) = State(present, u)
      <4>1. CASE u = v BY <1>3, <2>1, <3>1, <4>1
      <4>2. CASE u # v BY <4>2, OtherUsers
      <4> QED BY <4>1, <4>2
    <3>3. PICK q \in Tasks : WillTell(q, c, u)
      BY <2>1, <3>1, <3>2 DEF IInv, NoChangeMissed
    <3>4. q # t BY <3>3 DEF WillTell
    <3> QED BY <1>1, <1>2, <3>2, <3>3, <3>4 DEF WillTell
  <2> QED BY <2>1 DEF NoChangeMissed
<1> QED BY <1>5, <1>6, <1>7, <1>8, <1>9 DEF IInv

LEMMA RejoinStep ==
    ASSUME IInv, NEW s \in Sockets, Rejoin(s)
    PROVE  IInv'
<1> PICK t : t = <<"rejoin", s>> OBVIOUS
<1> PICK v : v = UserOf[s] OBVIOUS
<1>1. t \in Tasks /\ t[1] \notin {"connect", "disconnect"} /\ v \in Users
  BY TaskFacts, ConstantsAssumption DEF Handlers
<1>2. /\ present' = present \cup {s} /\ Unannounced(v) /\ Goto(t, "idle")
      /\ UNCHANGED <<keys, link, ticking, found, seen, scenario>>
  BY DEF Rejoin
<1>3. present' \subseteq Sockets /\ present' \ SocketsOf(v) = present \ SocketsOf(v)
  BY <1>2 DEF IInv, TypeOK, SocketsOf
<1>4. "idle" \in Steps \ {"rewrite"} BY DEF Steps
<1> QED BY <1>1, <1>2, <1>3, <1>4, UnannouncedStep

LEMMA LapseStep ==
    ASSUME IInv, NEW s \in Sockets, Lapse(s)
    PROVE  IInv'
<1> PICK t : t = <<"lapse", s>> OBVIOUS
<1> PICK v : v = UserOf[s] OBVIOUS
<1>1. t \in Tasks /\ t[1] \notin {"connect", "disconnect"} /\ v \in Users
  BY TaskFacts, ConstantsAssumption DEF Handlers
<1>2. /\ present' = present \ {s} /\ Unannounced(v) /\ Goto(t, "count")
      /\ UNCHANGED <<keys, link, ticking, found, seen, scenario>>
  BY DEF Lapse
<1>3. present' \subseteq Sockets /\ present' \ SocketsOf(v) = present \ SocketsOf(v)
  BY <1>2 DEF IInv, TypeOK, SocketsOf
<1>4. "count" \in Steps \ {"rewrite"} BY DEF Steps
<1> QED BY <1>1, <1>2, <1>3, <1>4, UnannouncedStep

(* The set is deleted: handleDisconnect says so, a cleanup does not.         *)
LEMMA WipeStep ==
    ASSUME IInv, NEW t \in Tasks, t[1] \in {"disconnect", "lapse"}, Wipe(t)
    PROVE  IInv'
<1> PICK v : v = TaskUser(t) OBVIOUS
<1>1. v \in Users BY TaskFacts
<1>2. /\ present' = present \ SocketsOf(v)
      /\ UNCHANGED <<keys, link, ticking, found, seen, scenario>> /\ at[t] = "wipe"
  BY DEF Wipe
<1>3. present' \subseteq Sockets /\ present' \ SocketsOf(v) = present \ SocketsOf(v)
  BY <1>2 DEF IInv, TypeOK
<1>4. CASE t[1] = "lapse" /\ Goto(t, "idle") /\ Unannounced(v)
  <2>1. "idle" \in Steps \ {"rewrite"} /\ t[1] \notin {"connect", "disconnect"}
    BY <1>4 DEF Steps
  <2> QED BY <1>1, <1>2, <1>3, <1>4, <2>1, UnannouncedStep
<1>5. CASE t[1] = "disconnect" /\ Goto(t, "getWatchers") /\ UNCHANGED told
  <2>1. at' = [at EXCEPT ![t] = "getWatchers"]
        /\ UNCHANGED <<watchers, watched, due, link, ticking, found, seen, told, scenario>>
    BY <1>2, <1>5 DEF Goto, keys
  <2>2. at'[t] = "getWatchers" /\ \A q \in Tasks \ {t} : at'[q] = at[q]
    BY <2>1 DEF IInv, TypeOK
  <2>3. TypeOK'
    <3>1. at' \in [Tasks -> Steps] BY <2>1 DEF IInv, TypeOK, Steps
    <3> QED BY <1>3, <2>1, <3>1 DEF IInv, TypeOK
  <2>4. RewritesItsOwn' BY <2>1, <2>2 DEF IInv, RewritesItsOwn
  <2>5. Mirrored' /\ KnownIsWatched' BY <2>1 DEF IInv, Mirrored, KnownIsWatched
  <2>6. NoChangeMissed'
    <3>1. ASSUME NEW c \in Sockets, NEW u \in Users,
                 told'[c][u] \in {"online", "offline"}, told'[c][u] # State(present', u)
          PROVE  \E q \in Tasks : WillTell(q, c, u)'
      <4>1. CASE u = v
        <5>1. State(present', u) = "offline" BY <1>2, <4>1 DEF State
        <5>2. WillTell(t, c, u)' BY <1>5, <2>2, <4>1, <5>1 DEF WillTell, TaskUser
        <5> QED BY <5>2
      <4>2. CASE u # v
        <5>1. State(present', u) = State(present, u) BY <1>3, <4>2, OtherUsers
        <5>2. PICK q \in Tasks : WillTell(q, c, u)
          BY <2>1, <3>1, <5>1 DEF IInv, NoChangeMissed
        <5>3. q # t BY <4>2, <5>2 DEF WillTell
        <5> QED BY <2>1, <2>2, <5>1, <5>2, <5>3 DEF WillTell
      <4> QED BY <4>1, <4>2
    <3> QED BY <3>1 DEF NoChangeMissed
  <2> QED BY <2>3, <2>4, <2>5, <2>6 DEF IInv
<1> QED BY <1>4, <1>5 DEF Wipe

LEMMA EntryFallsDueStep ==
    ASSUME IInv, NEW e \in Entries, EntryFallsDue(e)
    PROVE  IInv'
  BY DEF EntryFallsDue, IInv, TypeOK, RewritesItsOwn, Mirrored, KnownIsWatched,
         NoChangeMissed, WillTell

(* Whom only the dead process was about to tell is unsure.                  *)
LEMMA ServerDiesStep ==
    ASSUME IInv, NEW s \in Sockets, ServerDies(s)
    PROVE  IInv'
<1>1. /\ link' = [link EXCEPT ![s] = "closed"] /\ ticking' = ticking \ {s}
      /\ at' = [t \in Tasks |-> IF t[2] = s THEN "idle" ELSE at[t]]
      /\ found' = [t \in Tasks |-> IF t[2] = s THEN {} ELSE found[t]]
      /\ seen' = [seen EXCEPT ![s] = {}]
      /\ told' = [c \in Sockets |-> [u \in Users |->
                    IF \/ c = s
                       \/ /\ told[c][u] # State(present, u)
                          /\ \E h \in Handlers : WillTell(<<h, s>>, c, u)
                    THEN "unsure" ELSE told[c][u]]]
      /\ UNCHANGED <<watchers, watched, due, present, scenario>>
  BY DEF ServerDies, keys
<1>2. /\ link'[s] = "closed" /\ \A c \in Sockets \ {s} : link'[c] = link[c]
      /\ \A t \in Tasks : /\ t[2] # s => at'[t] = at[t] /\ found'[t] = found[t]
                          /\ t[2] = s => at'[t] = "idle"
  BY <1>1 DEF IInv, TypeOK
<1>3. \A c \in Sockets, u \in Users : told'[c][u] # "unsure" =>
         /\ told'[c][u] = told[c][u] /\ c # s
         /\ told[c][u] # State(present, u) => \A h \in Handlers : ~WillTell(<<h, s>>, c, u)
  BY <1>1
<1>4. TypeOK'
  <2>1. told' \in [Sockets -> [Users -> {"unsure", "online", "offline"}]]
    BY <1>1 DEF IInv, TypeOK
  <2>2. at' \in [Tasks -> Steps] /\ found' \in [Tasks -> SUBSET Entries]
    BY <1>1 DEF IInv, TypeOK, Steps
  <2>3. seen' \in [Sockets -> SUBSET Users] /\ link' \in [Sockets -> {"new", "open", "closed"}]
    BY <1>1 DEF IInv, TypeOK
  <2> QED BY <1>1, <2>1, <2>2, <2>3 DEF IInv, TypeOK
<1>5. RewritesItsOwn' BY <1>2 DEF IInv, RewritesItsOwn
<1>6. Mirrored' BY <1>1 DEF IInv, Mirrored
<1>7. KnownIsWatched' BY <1>1, <1>2, <1>3 DEF IInv, KnownIsWatched
<1>8. NoChangeMissed'
  <2>1. ASSUME NEW c \in Sockets, NEW u \in Users,
               told'[c][u] \in {"online", "offline"}, told'[c][u] # State(present', u)
        PROVE  \E q \in Tasks : WillTell(q, c, u)'
    <3>1. /\ told'[c][u] = told[c][u] /\ told[c][u] # State(present, u)
          /\ \A h \in Handlers : ~WillTell(<<h, s>>, c, u)
      BY <1>1, <1>3, <2>1
    <3>2. PICK q \in Tasks : WillTell(q, c, u) BY <2>1, <3>1 DEF IInv, NoChangeMissed
    <3>3. q = <<q[1], q[2]>> /\ q[1] \in Handlers BY DEF Tasks
    <3>4. q[2] # s BY <3>1, <3>2, <3>3
    <3> QED BY <1>1, <1>2, <3>2, <3>4 DEF WillTell
  <2> QED BY <2>1 DEF NoChangeMissed
<1> QED BY <1>4, <1>5, <1>6, <1>7, <1>8 DEF IInv

-----------------------------------------------------------------------------
LEMMA InitInvariant == Init => IInv
<1> SUFFICES ASSUME Init PROVE IInv OBVIOUS
<1>1. TypeOK BY DEF Init, TypeOK, Steps
<1>2. RewritesItsOwn /\ Mirrored /\ KnownIsWatched
  BY DEF Init, RewritesItsOwn, Mirrored, KnownIsWatched
<1>3. NoChangeMissed BY DEF Init, NoChangeMissed
<1> QED BY <1>1, <1>2, <1>3 DEF IInv

LEMMA StepInvariant == IInv /\ [Next]_vars => IInv'
<1> SUFFICES ASSUME IInv, [Next]_vars PROVE IInv' OBVIOUS
<1>1. CASE UNCHANGED vars
  BY <1>1 DEF vars, IInv, TypeOK, RewritesItsOwn, Mirrored, KnownIsWatched,
              NoChangeMissed, WillTell
<1>2. ASSUME NEW t \in Tasks, Handle(t) PROVE IInv'
  <2>1. t[2] \in Sockets BY TaskFacts
  <2> QED BY <1>2, <2>1, RegisterStep, CountStep, WipeStep, FindDueStep, DropDueStep, ListWatchersStep, AnnounceStep,
             ListWatchedStep, RenewStep, UnsubscribeStep, SubscribeStep, AskStep, ReplyStep
          DEF Handle
<1>3. ASSUME NEW s \in Sockets,
             \/ Connect(s) \/ Disconnect(s) \/ Rejoin(s) \/ Tick(s) \/ Receive(s)
             \/ ServerDies(s) \/ Lapse(s)
      PROVE  IInv'
  BY <1>3, ConnectStep, DisconnectStep, RejoinStep, TickStep, ReceiveStep, ServerDiesStep, LapseStep
<1>4. CASE \E e \in Entries : EntryFallsDue(e) BY <1>4, EntryFallsDueStep
<1> QED BY <1>1, <1>2, <1>3, <1>4 DEF Next

LEMMA Invariant == Spec => []IInv
<1>1. Init => IInv BY InitInvariant
<1>2. IInv /\ [Next]_vars => IInv' BY StepInvariant
<1> QED BY <1>1, <1>2, PTL DEF Spec

(* Keys, tasks and what clients know are well formed.                       *)
THEOREM SubscriptionsTypeCorrect == Spec => []TypeOK
<1>1. IInv => TypeOK BY DEF IInv
<1> QED BY <1>1, Invariant, PTL

(* No interleaving of subscribe, refresh, unsubscribe and the cleanups, and  *)
(* no death of a server, leaves an entry in the watched key alone.          *)
THEOREM KeysStayMirrored == Spec => []Mirrored
<1>1. IInv => Mirrored BY DEF IInv
<1> QED BY <1>1, Invariant, PTL

(* What a client was told of a user it watches is so, or a handler is under  *)
(* way that will tell it.                                                   *)
THEOREM WatchersAreTold == Spec => []NoChangeMissed
<1>1. IInv => NoChangeMissed BY DEF IInv
<1> QED BY <1>1, Invariant, PTL

=============================================================================
