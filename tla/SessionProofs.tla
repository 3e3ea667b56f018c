--------------------------- MODULE SessionProofs ----------------------------
(* What holds of Sessions for every number of requests, ids and sessions. *)
EXTENDS Sessions, LruMapProofs

-----------------------------------------------------------------------------
(* The inductive invariant. *)

\* Whatever has an id got it from the generator, and the generator never
\* returns to it.
IdsUsed ==
  /\ \A i \in DOMAIN store : i < nextId
  /\ \A c \in issued : c.id < nextId
  /\ \A r \in Req : req[r].pc # "new" =>
       req[r].original < nextId /\ req[r].session.id < nextId
  /\ \A pair \in rotated : pair[2] < nextId
  /\ \A i \in destroyed : i < nextId

\* Every copy of a session remembers when the session was first created.
StoreKeeps   == \A i \in DOMAIN store : store[i].session.created = born[i]
RequestKeeps(r) ==
  req[r].pc # "new" => req[r].session.created = born[req[r].session.id]
CookiesKeep  == ~StoreMode => \A c \in issued : c.created = born[c.id]

CreatedKept == StoreKeeps /\ (\A r \in Req : RequestKeeps(r)) /\ CookiesKeep

\* A copy that shows what r wrote exists only after r's response, and under
\* none of the ids that r rotated away from.
ShowsRightly(r, s) ==
  r \in s.data => req[r].pc = "done" /\ <<r, s.id>> \notin rotated

HiddenInStore(r)    == \A i \in DOMAIN store : ShowsRightly(r, store[i].session)
HiddenInCookies(r)  == ~StoreMode => \A c \in issued : ShowsRightly(r, c)
HiddenInRequests(r) == \A q \in Req \ {r} : ShowsRightly(r, req[q].session)
RotatedWhenDone(r)  == \A i \in Id : <<r, i>> \in rotated => req[r].pc = "done"

LoginHiddenOf(r) ==
  HiddenInStore(r) /\ HiddenInCookies(r) /\ HiddenInRequests(r) /\ RotatedWhenDone(r)

LoginHidden == \A r \in Req : LoginHiddenOf(r)

\* A request has its ids to itself, those it shares apart, and an id that it is
\* done revoking is gone.
Alone(r)   == req[r].pc \in Active =>
                \A q \in Req \ {r} : req[q].pc \in Active => Ids(q) \cap Ids(r) \subseteq shared
Unended(r) == req[r].pc \in Active => Ids(r) \cap Ended \subseteq shared
HasRevoked(r) ==
  /\ req[r].pc \in {"revoke current", "answering"} =>
       (req[r].destroyed \/ req[r].original # req[r].session.id
          => req[r].original \notin DOMAIN store \ shared)
  /\ req[r].pc = "answering" =>
       (req[r].destroyed => req[r].session.id \notin DOMAIN store \ shared)

Serial ==
  /\ \A r \in Req : Alone(r) /\ Unended(r) /\ HasRevoked(r)
  /\ Ended \cap DOMAIN store \subseteq shared

-----------------------------------------------------------------------------
(* Type correctness. *)

\* The sets that the state is made of are what they seem.
LEMMA TypesAreSane ==
  ASSUME TypeOK, IdsUsed
  PROVE  /\ nextId <= MaxId => nextId \in Id
         /\ 0 \in Time /\ now \in Time
         /\ \A r \in Req : req[r] \in Request /\ req[r].session \in SessionData
         /\ \A i \in DOMAIN store : store[i].session \in SessionData
         /\ \A c \in issued : Known(c) => Payload(c) \in SessionData
                                       /\ Payload(c).id = c.id
<1> USE BoundsAssumption DEF TypeOK, Id, Time
<1>1. \A r \in Req : req[r] \in Request /\ req[r].session \in SessionData
  BY DEF Request
<1>2. \A i \in DOMAIN store : store[i].session \in SessionData
  OBVIOUS
<1>3. ASSUME NEW c \in issued, Known(c)
      PROVE  Payload(c) \in SessionData /\ Payload(c).id = c.id
  <2>1. CASE StoreMode
    BY <1>3, <2>1 DEF Known, Payload
  <2>2. CASE ~StoreMode
    BY <2>2 DEF Payload, CookieSet
  <2> QED
    BY <2>1, <2>2
<1> QED
  BY <1>1, <1>2, <1>3

-----------------------------------------------------------------------------
(* How each kind of step changes the requests, free of EXCEPT. *)

OthersSame(r) == \A q \in Req : q # r => req'[q] = req[q]

LEMMA GotoShape ==
  ASSUME req \in [Req -> Request], NEW r \in Req, NEW pc \in Phase, Goto(r, pc)
  PROVE  /\ req' \in [Req -> Request]
         /\ OthersSame(r)
         /\ req'[r].pc = pc
         /\ req'[r].original = req[r].original
         /\ req'[r].session = req[r].session
         /\ req'[r].destroyed = req[r].destroyed
<1>1. req' = [req EXCEPT ![r] = [req[r] EXCEPT !.pc = pc]]
  BY DEF Goto
<1>2. [req[r] EXCEPT !.pc = pc] \in Request
  BY DEF Request
<1> QED
  BY <1>1, <1>2 DEF OthersSame, Request

LEMMA BeginShape ==
  ASSUME req \in [Req -> Request], NEW r \in Req, NEW s \in SessionData, Begin(r, s)
  PROVE  /\ req' \in [Req -> Request]
         /\ OthersSame(r)
         /\ req'[r].pc = "handling"
         /\ req'[r].original = s.id
         /\ req'[r].session = s
<1> DEFINE q == [req[r] EXCEPT !.pc = "handling", !.original = s.id, !.session = s]
<1>1. s.id \in Id
  BY DEF SessionData
<1>2. /\ q \in Request
      /\ q.pc = "handling" /\ q.original = s.id /\ q.session = s
  BY <1>1 DEF Request, Phase
<1>3. req' = [req EXCEPT ![r] = q]
  BY DEF Begin
<1> HIDE DEF q
<1> QED
  BY <1>2, <1>3 DEF OthersSame

LEMMA WithDataShape ==
  ASSUME NEW q \in Request, NEW d \in SUBSET Req
  PROVE  /\ WithData(q, d) \in Request
         /\ WithData(q, d).pc = q.pc
         /\ WithData(q, d).original = q.original
         /\ WithData(q, d).session.id = q.session.id
         /\ WithData(q, d).session.created = q.session.created
         /\ WithData(q, d).session.data = d
BY DEF WithData, Request, SessionData

Edit(r) == Insert(r) \/ Clear(r) \/ Destroy(r) \/ \E v \in Req : Remove(r, v)

LEMMA EditShape ==
  ASSUME req \in [Req -> Request], NEW r \in Req, Edit(r)
  PROVE  /\ req' \in [Req -> Request]
         /\ OthersSame(r)
         /\ req[r].pc = "handling"
         /\ req'[r].pc = "handling"
         /\ req'[r].original = req[r].original
         /\ req'[r].session.id = req[r].session.id
         /\ req'[r].session.created = req[r].session.created
         /\ req'[r].session.data \subseteq req[r].session.data \cup {r}
         /\ Local
<1> DEFINE Edited(q) ==
             /\ q \in Request
             /\ q.pc = req[r].pc
             /\ q.original = req[r].original
             /\ q.session.id = req[r].session.id
             /\ q.session.created = req[r].session.created
             /\ q.session.data \subseteq req[r].session.data \cup {r}
             /\ req' = [req EXCEPT ![r] = q]
<1>0. req[r] \in Request /\ req[r].session.data \subseteq Req
  BY DEF Request, SessionData
<1>1. \E q : Edited(q)
  <2>1. CASE Insert(r)
    <3>1. Edited(WithData(req[r], req[r].session.data \cup {r}))
      BY <2>1, <1>0, WithDataShape DEF Insert
    <3> QED
      BY <3>1
  <2>2. CASE Clear(r)
    <3>1. Edited(WithData(req[r], {}))
      BY <2>2, <1>0, WithDataShape DEF Clear
    <3> QED
      BY <3>1
  <2>3. CASE Destroy(r)
    <3> DEFINE q == [WithData(req[r], {}) EXCEPT !.destroyed = TRUE]
    <3>1. /\ q \in Request
          /\ q.pc = WithData(req[r], {}).pc
          /\ q.original = WithData(req[r], {}).original
          /\ q.session = WithData(req[r], {}).session
      <4>1. WithData(req[r], {}) \in Request
        BY <1>0, WithDataShape
      <4> QED
        BY <4>1 DEF Request
    <3>2. req' = [req EXCEPT ![r] = q]
      BY <2>3 DEF Destroy
    <3> HIDE DEF q
    <3>3. Edited(q)
      BY <3>1, <3>2, <1>0, WithDataShape
    <3> QED
      BY <3>3
  <2>4. ASSUME NEW v \in Req, Remove(r, v)
        PROVE \E q : Edited(q)
    <3>1. Edited(WithData(req[r], req[r].session.data \ {v}))
      BY <2>4, <1>0, WithDataShape DEF Remove
    <3> QED
      BY <3>1
  <2> QED
    BY <2>1, <2>2, <2>3, <2>4 DEF Edit
<1>2. PICK q : Edited(q)
  BY <1>1
<1>3. req[r].pc = "handling" /\ Local
  BY DEF Edit, Insert, Clear, Destroy, Remove, Handler
<1> QED
  BY <1>2, <1>3 DEF OthersSame

LEMMA RegenerateShape ==
  ASSUME req \in [Req -> Request], nextId <= MaxId => nextId \in Id,
         NEW r \in Req, RegenerateId(r)
  PROVE  /\ req' \in [Req -> Request]
         /\ OthersSame(r)
         /\ req[r].pc = "handling"
         /\ req'[r].pc = "handling"
         /\ req'[r].original = req[r].original
         /\ req'[r].session.id = nextId
         /\ req'[r].session.created = req[r].session.created
         /\ req'[r].session.data = req[r].session.data
<1> DEFINE q == WithId(req[r], nextId, req[r].session.created)
<1>1. req' = [req EXCEPT ![r] = q]
  BY DEF RegenerateId, GiveId
<1>2. nextId \in Id
  BY DEF RegenerateId, GiveId
<1>3. req[r].pc = "handling"
  BY DEF RegenerateId, Handler
<1>4. req[r] \in Request
  OBVIOUS
<1>5. /\ q \in Request
      /\ q.pc = req[r].pc /\ q.original = req[r].original
      /\ q.session.id = nextId
      /\ q.session.created = req[r].session.created
      /\ q.session.data = req[r].session.data
  BY <1>2, <1>4 DEF WithId, Request, SessionData
<1> HIDE DEF q
<1> QED
  BY <1>1, <1>3, <1>5 DEF OthersSame

-----------------------------------------------------------------------------
(* How each kind of step changes the store. *)

StoreTyped ==
  /\ DOMAIN store \subseteq Id
  /\ \A i \in DOMAIN store :
       /\ store[i] \in [session : SessionData, touched : Time]
       /\ store[i].session.id = i

SameSessions ==
  /\ DOMAIN store' = DOMAIN store
  /\ \A i \in DOMAIN store : store'[i].session = store[i].session
  /\ StoreTyped'

\* Sessions are finitely many, since ids are.
LEMMA StoreIsFinite ==
  ASSUME StoreTyped
  PROVE  IsFiniteSet(DOMAIN store)
<1>1. IsFiniteSet(Id)
  BY BoundsAssumption, FS_Interval DEF Id
<1> QED
  BY <1>1, FS_Subset DEF StoreTyped

LEMMA TouchShape ==
  ASSUME StoreTyped, now \in Time, NEW c, Known(c), store' = Touch(c)
  PROVE  SameSessions
<1>1. CASE StoreMode
  <2>1. c.id \in DOMAIN store
    BY <1>1 DEF Known
  <2>2. store' = [store EXCEPT ![c.id] = [store[c.id] EXCEPT !.touched = now]]
    BY <1>1 DEF Touch
  <2>3. /\ [store[c.id] EXCEPT !.touched = now] \in [session : SessionData, touched : Time]
        /\ [store[c.id] EXCEPT !.touched = now].session = store[c.id].session
    BY <2>1 DEF StoreTyped
  <2> QED
    BY <2>1, <2>2, <2>3 DEF StoreTyped, SameSessions
<1>2. CASE ~StoreMode
  BY <1>2 DEF Touch, StoreTyped, SameSessions
<1> QED
  BY <1>1, <1>2

LEMMA RevokeShape ==
  ASSUME StoreTyped, NEW i, store' = Without(store, {i})
  PROVE  /\ DOMAIN store' = DOMAIN store \ {i}
         /\ \A j \in DOMAIN store' : store'[j] = store[j]
         /\ StoreTyped'
<1>1. /\ DOMAIN store' = DOMAIN store \ {i}
      /\ \A j \in DOMAIN store' : store'[j] = store[j]
  <2> DEFINE S == {i}
             w == Without(store, S)
  <2>1. store' = w
    OBVIOUS
  <2> HIDE DEF S
  <2>2. DOMAIN w = DOMAIN store \ S /\ \A j \in DOMAIN w : w[j] = store[j]
    BY StoreIsFinite, WithoutShrinks
  <2> HIDE DEF w
  <2> QED
    BY <2>1, <2>2 DEF S
<1> QED
  BY <1>1 DEF StoreTyped

Saved(r) ==
  LET i == req[r].session.id
  IN  /\ i \in DOMAIN store'
      /\ store'[i].session = req[r].session
      /\ \A j \in DOMAIN store' \ {i} : j \in DOMAIN store /\ store'[j] = store[j]
      /\ DOMAIN store \subseteq DOMAIN store' \cup evicted'
      /\ evicted \subseteq DOMAIN store' \cup evicted'
      /\ evicted' \subseteq evicted \cup DOMAIN store
      /\ StoreTyped'
      /\ MaxSessions # 0 /\ StoreBounded => StoreBounded'

LEMMA SaveShape ==
  ASSUME StoreTyped, now \in Time, NEW r \in Req, req[r].session \in SessionData, Save(r)
  PROVE  Saved(r)
<1> DEFINE i == req[r].session.id
           e == [session |-> req[r].session, touched |-> now]
<1>1. PICK kept \in Evicted(store, now, MaxSessions, IdleEviction) :
        /\ store' = Put(kept, i, e)
        /\ evicted' = (evicted \cup (DOMAIN store \ DOMAIN kept)) \ {i}
  BY DEF Save, SaveUnder
<1>2. /\ DOMAIN kept \subseteq DOMAIN store
      /\ IsFiniteSet(DOMAIN kept)
      /\ \A k \in DOMAIN kept : kept[k] = store[k]
  BY StoreIsFinite, EvictionDrops
<1>3. /\ DOMAIN store' = DOMAIN kept \cup {i}
      /\ store'[i] = e
      /\ \A j \in DOMAIN kept : j # i => store'[j] = kept[j]
  <2> HIDE DEF i, e
  <2> DEFINE w == Put(kept, i, e)
  <2>1. /\ DOMAIN w = DOMAIN kept \cup {i}
        /\ w[i] = e
        /\ \A j \in DOMAIN kept : j # i => w[j] = kept[j]
    BY DEF Put
  <2>2. store' = w
    BY <1>1
  <2> HIDE DEF w
  <2> QED
    BY <2>1, <2>2
<1>4. i \in Id /\ e \in [session : SessionData, touched : Time]
      /\ e.session = req[r].session
  BY DEF SessionData
<1> HIDE DEF e
<1>5. \A j \in DOMAIN store' \ {i} : j \in DOMAIN store /\ store'[j] = store[j]
  BY <1>2, <1>3
<1>6. StoreTyped'
  <2>1. DOMAIN store' \subseteq Id
    BY <1>2, <1>3, <1>4 DEF StoreTyped
  <2>2. ASSUME NEW j \in DOMAIN store'
        PROVE /\ store'[j] \in [session : SessionData, touched : Time]
              /\ store'[j].session.id = j
    BY <1>3, <1>4, <1>5 DEF StoreTyped
  <2> QED
    BY <2>1, <2>2 DEF StoreTyped
<1>7. ASSUME MaxSessions # 0, StoreBounded
      PROVE  StoreBounded'
  <2> HIDE DEF i
  <2>1. MaxSessions \in Nat \ {0} /\ IsFiniteSet(DOMAIN store) /\ Size(store) <= MaxSessions
    BY <1>7, BoundsAssumption, StoreIsFinite DEF StoreBounded
  <2>2. Size(Put(kept, i, e)) <= MaxSessions
    BY <2>1, CapHolds
  <2> QED
    BY <1>1, <2>2 DEF StoreBounded
<1> QED
  BY <1>1, <1>2, <1>3, <1>4, <1>5, <1>6, <1>7 DEF Saved

-----------------------------------------------------------------------------
(* Every step of a request has one of seven shapes. *)

Same(r) == req' \in [Req -> Request] /\ OthersSame(r)

Started(r) ==           \* StartFresh, Replace
  /\ Same(r)
  /\ req[r].pc = "new" /\ req'[r].pc = "handling"
  /\ req'[r].original = nextId
  /\ req'[r].session = [id |-> nextId, created |-> now, data |-> {}]
  /\ nextId \in Id /\ nextId' = nextId + 1 /\ born' = Append(born, now)
  /\ SameSessions
  /\ UNCHANGED <<now, issued, destroyed, rotated, evicted, shared>>

Resumed(r) ==
  /\ Same(r)
  /\ req[r].pc = "new" /\ req'[r].pc = "handling"
  /\ \E c \in issued :
       /\ Usable(c)
       /\ shared' = IF Free(c.id) THEN shared ELSE shared \cup {c.id}
       /\ req'[r].original = c.id /\ req'[r].session = Payload(c)
  /\ SameSessions
  /\ UNCHANGED <<now, nextId, issued, destroyed, rotated, evicted, born>>

Edited(r) ==            \* Insert, Remove, Clear, Destroy
  /\ Same(r)
  /\ req[r].pc = "handling" /\ req'[r].pc = "handling"
  /\ req'[r].original = req[r].original
  /\ req'[r].session.id = req[r].session.id
  /\ req'[r].session.created = req[r].session.created
  /\ req'[r].session.data \subseteq req[r].session.data \cup {r}
  /\ Local

Regenerated(r) ==
  /\ Same(r)
  /\ req[r].pc = "handling" /\ req'[r].pc = "handling"
  /\ req'[r].original = req[r].original
  /\ req'[r].session.id = nextId
  /\ req'[r].session.created = req[r].session.created
  /\ req'[r].session.data = req[r].session.data
  /\ nextId \in Id /\ nextId' = nextId + 1
  /\ born' = Append(born, born[req[r].session.id])
  /\ UNCHANGED <<now, store, issued, destroyed, rotated, evicted, shared>>

SameRequest(r) ==
  /\ Same(r)
  /\ req'[r].original = req[r].original
  /\ req'[r].session = req[r].session
  /\ req'[r].destroyed = req[r].destroyed

Handled(r) ==           \* Returned, Abandoned
  /\ SameRequest(r)
  /\ req[r].pc = "handling"
  /\ req'[r].pc \in {"revoke arriving", "answering", "done"}
  /\ req'[r].pc = "answering" =>
       ~req[r].destroyed /\ req[r].original = req[r].session.id
  /\ Local

Revoked(r) ==
  /\ SameRequest(r)
  /\ \E i \in Ids(r) :
       /\ DOMAIN store' = DOMAIN store \ {i}
       /\ \A j \in DOMAIN store' : store'[j] = store[j]
       /\ StoreTyped'
       /\ \/ /\ req[r].pc = "revoke arriving" /\ i = req[r].original
             /\ req'[r].pc = NextRevoke(req[r])
          \/ /\ req[r].pc = "revoke current" /\ i = req[r].session.id
             /\ req'[r].pc = "answering"
  /\ UNCHANGED <<now, nextId, issued, history>>

Answered(r) ==          \* AnswerDestroyed, AnswerPersisted
  /\ SameRequest(r)
  /\ req[r].pc = "answering" /\ req'[r].pc = "done"
  /\ UNCHANGED <<now, nextId, shared, born>>
  /\ IF req[r].destroyed
     THEN /\ destroyed' = destroyed \cup Ids(r)
          /\ UNCHANGED <<store, issued, rotated, evicted>>
     ELSE /\ IF StoreMode THEN Saved(r) ELSE UNCHANGED <<store, evicted>>
          /\ issued' = issued \cup {Cookie(req[r].session)}
          /\ rotated' = IF req[r].original = req[r].session.id THEN rotated
                        ELSE rotated \cup {<<r, req[r].original>>}
          /\ UNCHANGED destroyed

LEMMA StepShapes ==
  ASSUME TypeOK, IdsUsed, NEW r \in Req, RequestStep(r)
  PROVE  \/ Started(r) \/ Resumed(r) \/ Edited(r) \/ Regenerated(r)
         \/ Handled(r) \/ Revoked(r) \/ Answered(r)
<1>0. /\ req \in [Req -> Request] /\ StoreTyped /\ now \in Time
      /\ req[r] \in Request /\ req[r].session \in SessionData
  BY TypesAreSane DEF TypeOK, StoreTyped
<1>1. ASSUME CreateSession(r)
      PROVE  /\ Same(r)
             /\ req'[r].pc = "handling"
             /\ req'[r].original = nextId
             /\ req'[r].session = [id |-> nextId, created |-> now, data |-> {}]
             /\ nextId \in Id /\ nextId' = nextId + 1 /\ born' = Append(born, now)
  <2> DEFINE s == [id |-> nextId, created |-> now, data |-> {}]
  <2>1. nextId \in Id
    BY <1>1, TypesAreSane DEF CreateSession
  <2>2. s \in SessionData /\ s.id = nextId
    BY <1>0, <2>1 DEF SessionData
  <2>3. Begin(r, s)
    BY <1>1 DEF CreateSession
  <2> HIDE DEF s
  <2>4. Same(r) /\ req'[r].pc = "handling" /\ req'[r].original = nextId /\ req'[r].session = s
    BY <1>0, <2>2, <2>3, BeginShape DEF Same
  <2> QED
    BY <1>1, <2>1, <2>4 DEF s, CreateSession
<1>2. CASE StartFresh(r)
  <2>1. SameSessions
    BY <1>0, <1>2 DEF StartFresh, SameSessions, StoreTyped, Time
  <2> QED
    BY <1>1, <1>2, <2>1 DEF StartFresh, Started
<1>3. ASSUME NEW c \in issued, Resume(r, c)
      PROVE  Resumed(r)
  <2>1. SameSessions
    BY <1>0, <1>3, TouchShape DEF Resume, Usable
  <2>2. Payload(c) \in SessionData /\ Payload(c).id = c.id
    BY <1>3, TypesAreSane DEF Resume, Usable
  <2>3. /\ Same(r) /\ req'[r].pc = "handling"
        /\ req'[r].original = c.id /\ req'[r].session = Payload(c)
    BY <1>0, <1>3, <2>2, BeginShape DEF Resume, Same
  <2> QED
    BY <1>3, <2>1, <2>3 DEF Resume, Resumed
<1>4. ASSUME NEW c \in issued, Replace(r, c)
      PROVE  Started(r)
  <2>1. SameSessions
    <3>1. CASE Known(c)
      BY <1>0, <1>4, <3>1, TouchShape DEF Replace
    <3>2. CASE ~Known(c)
      BY <1>0, <1>4, <3>2 DEF Replace, SameSessions, StoreTyped, Time
    <3> QED
      BY <3>1, <3>2
  <2> QED
    BY <1>1, <1>4, <2>1 DEF Replace, Started
<1>5. ASSUME Insert(r) \/ Clear(r) \/ Destroy(r) \/ \E v \in Req : Remove(r, v)
      PROVE  Edited(r)
  BY <1>0, <1>5, EditShape DEF Edit, Edited, Same
<1>6. CASE RegenerateId(r)
  <2>1. nextId <= MaxId => nextId \in Id
    BY TypesAreSane
  <2>2. nextId \in Id /\ nextId' = nextId + 1
        /\ born' = Append(born, born[req[r].session.id])
        /\ UNCHANGED <<now, store, issued, destroyed, rotated, evicted, shared>>
    BY <1>6, <2>1 DEF RegenerateId, GiveId
  <2> QED
    BY <1>0, <1>6, <2>1, <2>2, RegenerateShape DEF Regenerated, Same
<1>7. CASE Returned(r) \/ Abandoned(r)
  <2>1. PICK pc \in {"revoke arriving", "answering", "done"} :
          /\ Goto(r, pc)
          /\ pc = "answering" => ~req[r].destroyed /\ req[r].original = req[r].session.id
    BY <1>7 DEF Returned, Abandoned, FirstRevoke
  <2>2. SameRequest(r) /\ req'[r].pc = pc
    BY <1>0, <2>1, GotoShape DEF SameRequest, Same, Phase
  <2> QED
    BY <1>7, <2>1, <2>2 DEF Returned, Abandoned, Handler, Handled
<1>8. CASE RevokeArriving(r)
  <2>1. NextRevoke(req[r]) \in Phase
    BY DEF NextRevoke, Phase
  <2>2. SameRequest(r) /\ req'[r].pc = NextRevoke(req[r])
    BY <1>0, <1>8, <2>1, GotoShape DEF RevokeArriving, SameRequest, Same
  <2>3. /\ DOMAIN store' = DOMAIN store \ {req[r].original}
        /\ \A j \in DOMAIN store' : store'[j] = store[j]
        /\ StoreTyped'
    BY <1>0, <1>8, RevokeShape DEF RevokeArriving
  <2> QED
    BY <1>8, <2>2, <2>3 DEF RevokeArriving, Revoked, Ids
<1>9. CASE RevokeCurrent(r)
  <2>1. SameRequest(r) /\ req'[r].pc = "answering"
    BY <1>0, <1>9, GotoShape DEF RevokeCurrent, SameRequest, Same, Phase
  <2>2. /\ DOMAIN store' = DOMAIN store \ {req[r].session.id}
        /\ \A j \in DOMAIN store' : store'[j] = store[j]
        /\ StoreTyped'
    BY <1>0, <1>9, RevokeShape DEF RevokeCurrent
  <2> QED
    BY <1>9, <2>1, <2>2 DEF RevokeCurrent, Revoked, Ids
<1>10. CASE AnswerDestroyed(r)
  <2>1. SameRequest(r) /\ req'[r].pc = "done"
    BY <1>0, <1>10, GotoShape DEF AnswerDestroyed, SameRequest, Same, Phase
  <2> QED
    BY <1>10, <2>1 DEF AnswerDestroyed, Answered
<1>11. CASE AnswerPersisted(r)
  <2>1. SameRequest(r) /\ req'[r].pc = "done"
    BY <1>0, <1>11, GotoShape DEF AnswerPersisted, SameRequest, Same, Phase
  <2>2. Save(r) => Saved(r)
    BY <1>0, SaveShape DEF Saved
  <2> QED
    BY <1>11, <2>1, <2>2 DEF AnswerPersisted, Answered
<1> QED
  BY <1>2, <1>3, <1>4, <1>5, <1>6, <1>7, <1>8, <1>9, <1>10, <1>11 DEF RequestStep

-----------------------------------------------------------------------------
(* The types, and that ids are used in order. *)

\* A new id's birth is recorded at its place.
LEMMA BornGrows ==
  ASSUME born \in Seq(Time), nextId \in Nat, Len(born) = nextId - 1, NEW t \in Time,
         born' = Append(born, t)
  PROVE  /\ born' \in Seq(Time) /\ Len(born') = nextId
         /\ \A i \in 1..(nextId - 1) : born'[i] = born[i]
         /\ born'[nextId] = t
OBVIOUS

LEMMA TypeInit == Init => TypeOK /\ IdsUsed
<1> SUFFICES ASSUME Init PROVE TypeOK /\ IdsUsed
  OBVIOUS
<1> USE BoundsAssumption DEF Init
<1>1. NoSession \in SessionData
  BY DEF NoSession, SessionData, Id, Time
<1>2. req \in [Req -> Request]
  BY <1>1 DEF Request, Phase, Id
<1>3. TypeOK
  <2>1. now \in Time /\ nextId \in 1..(MaxId + 1)
    BY DEF Time
  <2>2. born \in Seq(Time) /\ Len(born) = nextId - 1
    OBVIOUS
  <2>3. DOMAIN store = {}
    OBVIOUS
  <2> QED
    BY <1>2, <2>1, <2>2, <2>3 DEF TypeOK
<1>4. IdsUsed
  BY DEF IdsUsed
<1> QED
  BY <1>3, <1>4

\* An id that was used stays used.
LEMMA IdsStayUsed ==
  ASSUME TypeOK, IdsUsed
  PROVE  /\ \A i \in DOMAIN store : i < nextId + 1
         /\ \A c \in issued : c.id < nextId + 1
         /\ \A r \in Req : req[r].pc # "new" =>
              req[r].original < nextId + 1 /\ req[r].session.id < nextId + 1
         /\ \A pair \in rotated : pair[2] < nextId + 1
         /\ \A i \in destroyed : i < nextId + 1
<1>1. nextId \in Nat /\ \A i \in Id : i < nextId => i < nextId + 1
  BY DEF TypeOK, Id
<1>2. \A c \in issued : c.id \in Id
  BY DEF TypeOK, CookieSet, SessionData
<1>3. \A r \in Req : req[r].original \in Id /\ req[r].session.id \in Id
  BY DEF TypeOK, Request, SessionData
<1>4. \A pair \in rotated : pair[2] \in Id
  BY DEF TypeOK
<1>5. \A i \in DOMAIN store \cup destroyed : i \in Id
  BY DEF TypeOK
<1> QED
  BY <1>1, <1>2, <1>3, <1>4, <1>5 DEF IdsUsed

LEMMA TypeStep == TypeOK /\ IdsUsed /\ [Next]_vars => TypeOK' /\ IdsUsed'
<1> SUFFICES ASSUME TypeOK, IdsUsed, [Next]_vars
             PROVE  TypeOK' /\ IdsUsed'
  OBVIOUS
<1>0. /\ nextId \in Nat /\ now \in Time /\ StoreTyped
      /\ \A i \in DOMAIN store : i < nextId
      /\ \A r \in Req : req[r] \in Request /\ req[r].session \in SessionData
      /\ \A r \in Req : req[r].pc # "new" => born[req[r].session.id] \in Time
  <2>1. nextId \in Nat /\ now \in Time /\ StoreTyped
    BY BoundsAssumption DEF TypeOK, StoreTyped
  <2>2. \A r \in Req : req[r] \in Request /\ req[r].session \in SessionData
    BY TypesAreSane
  <2>3. ASSUME NEW r \in Req, req[r].pc # "new"
        PROVE  born[req[r].session.id] \in Time
    <3>1. req[r].session.id \in 1..Len(born)
      BY <2>1, <2>2, <2>3 DEF IdsUsed, TypeOK, SessionData, Id
    <3> QED
      BY <3>1 DEF TypeOK
  <2> QED
    BY <2>1, <2>2, <2>3 DEF IdsUsed
<1>1. CASE UNCHANGED vars
  BY <1>1 DEF vars, history, TypeOK, IdsUsed
<1>2. CASE Tick
  BY <1>2, BoundsAssumption DEF Tick, history, TypeOK, IdsUsed, Time
<1>3. ASSUME NEW r \in Req, Started(r)
      PROVE  TypeOK' /\ IdsUsed'
  <2>1. TypeOK'
    <3>1. born' \in Seq(Time) /\ Len(born') = nextId' - 1
      BY <1>0, <1>3, BornGrows DEF Started, TypeOK
    <3>2. nextId' \in 1..(MaxId + 1)
      BY <1>3, BoundsAssumption DEF Started, Id
    <3> QED
      BY <1>3, <3>1, <3>2 DEF Started, Same, SameSessions, StoreTyped, TypeOK
  <2>2. IdsUsed'
    BY <1>0, <1>3, IdsStayUsed DEF Started, Same, OthersSame, SameSessions, IdsUsed
  <2> QED
    BY <2>1, <2>2
<1>4. ASSUME NEW r \in Req, Resumed(r)
      PROVE  TypeOK' /\ IdsUsed'
  <2>1. TypeOK'
    <3>1. PICK c \in issued :
            Usable(c) /\ shared' = IF Free(c.id) THEN shared ELSE shared \cup {c.id}
      BY <1>4 DEF Resumed
    <3>2. c.id \in Id
      BY <3>1 DEF TypeOK, CookieSet, SessionData
    <3>3. shared' \subseteq Id
      BY <3>1, <3>2 DEF TypeOK
    <3> QED
      BY <1>4, <3>3 DEF Resumed, Same, SameSessions, StoreTyped, TypeOK
  <2>2. req'[r].original < nextId /\ req'[r].session.id < nextId
    BY <1>4, TypesAreSane DEF Resumed, Usable, IdsUsed
  <2> QED
    BY <1>0, <1>4, <2>1, <2>2 DEF Resumed, Same, OthersSame, SameSessions, IdsUsed, history
<1>5. ASSUME NEW r \in Req, Edited(r)
      PROVE  TypeOK' /\ IdsUsed'
  <2>1. TypeOK'
    BY <1>5 DEF Edited, Same, Local, TypeOK, history
  <2> QED
    BY <1>5, <2>1 DEF Edited, Same, OthersSame, Local, IdsUsed, history
<1>6. ASSUME NEW r \in Req, Regenerated(r)
      PROVE  TypeOK' /\ IdsUsed'
  <2>1. TypeOK'
    <3>1. born' \in Seq(Time) /\ Len(born') = nextId' - 1
      BY <1>0, <1>6, BornGrows DEF Regenerated, TypeOK
    <3>2. nextId' \in 1..(MaxId + 1)
      BY <1>6, BoundsAssumption DEF Regenerated, Id
    <3> QED
      BY <1>6, <3>1, <3>2 DEF Regenerated, Same, TypeOK
  <2>2. IdsUsed'
    BY <1>0, <1>6, IdsStayUsed DEF Regenerated, Same, OthersSame, IdsUsed
  <2> QED
    BY <2>1, <2>2
<1>7. ASSUME NEW r \in Req, Handled(r)
      PROVE  TypeOK' /\ IdsUsed'
  <2>1. TypeOK'
    BY <1>7 DEF Handled, SameRequest, Same, Local, TypeOK, history
  <2> QED
    BY <1>7, <2>1 DEF Handled, SameRequest, Same, OthersSame, Local, IdsUsed, history
<1>8. ASSUME NEW r \in Req, Revoked(r)
      PROVE  TypeOK' /\ IdsUsed'
  <2>1. TypeOK'
    BY <1>8 DEF Revoked, SameRequest, Same, StoreTyped, TypeOK, history
  <2> QED
    BY <1>8, <2>1 DEF Revoked, SameRequest, Same, OthersSame, IdsUsed, history
<1>9. ASSUME NEW r \in Req, Answered(r)
      PROVE  TypeOK' /\ IdsUsed'
  <2>1. /\ req[r].original \in Id /\ req[r].session.id \in Id
        /\ req[r].original < nextId /\ req[r].session.id < nextId
    BY <1>0, <1>9 DEF Answered, IdsUsed, Request, SessionData
  <2>2. Cookie(req[r].session) \in CookieSet /\ Cookie(req[r].session).id = req[r].session.id
    BY <1>0 DEF Cookie, CookieSet, SessionData
  <2>3. TypeOK'
    <3>1. CASE req[r].destroyed
      BY <1>9, <2>1, <3>1 DEF Answered, SameRequest, Same, TypeOK, Ids
    <3>2. CASE ~req[r].destroyed
      BY <1>9, <2>1, <2>2, <3>2
      DEF Answered, Saved, StoreTyped, SameRequest, Same, TypeOK
    <3> QED
      BY <3>1, <3>2
  <2>4. IdsUsed'
    <3>1. \A i \in DOMAIN store' : i < nextId
      BY <1>9, <2>1 DEF Answered, Saved, IdsUsed
    <3>2. \A c \in issued' : c.id < nextId
      BY <1>9, <2>1, <2>2 DEF Answered, IdsUsed
    <3>3. \A pair \in rotated' : pair[2] < nextId
      BY <1>9, <2>1 DEF Answered, IdsUsed
    <3>4. \A i \in destroyed' : i < nextId
      BY <1>9, <2>1 DEF Answered, IdsUsed, Ids
    <3> QED
      BY <1>9, <3>1, <3>2, <3>3, <3>4 DEF Answered, SameRequest, Same, OthersSame, IdsUsed
  <2> QED
    BY <2>3, <2>4
<1> QED
  BY <1>1, <1>2, <1>3, <1>4, <1>5, <1>6, <1>7, <1>8, <1>9, StepShapes DEF Next

\* Every variable keeps its type, and every stored session its own id, in all
\* interleavings of the requests (src/session, src/middleware/session.rs).
THEOREM TypeCorrect == Spec => [](TypeOK /\ IdsUsed)
<1>1. Init => TypeOK /\ IdsUsed
  BY TypeInit
<1>2. (TypeOK /\ IdsUsed) /\ [Next]_vars => (TypeOK /\ IdsUsed)'
  BY TypeStep
<1> QED
  BY <1>1, <1>2, PTL DEF Spec

-----------------------------------------------------------------------------
(* The capacity of the store. *)

LEMMA BoundedStep ==
  ASSUME MaxSessions # 0, TypeOK, IdsUsed, StoreBounded, [Next]_vars
  PROVE  StoreBounded'
<1>1. CASE UNCHANGED store
  BY <1>1 DEF StoreBounded
<1>2. CASE SameSessions
  BY <1>2 DEF SameSessions, StoreBounded, Size
<1>3. ASSUME NEW r \in Req, Revoked(r)
      PROVE  StoreBounded'
  <2>1. IsFiniteSet(DOMAIN store)
    BY StoreIsFinite DEF TypeOK, StoreTyped
  <2>2. DOMAIN store' \in SUBSET DOMAIN store
    BY <1>3 DEF Revoked
  <2>3. /\ Cardinality(DOMAIN store') <= Cardinality(DOMAIN store)
        /\ IsFiniteSet(DOMAIN store')
    BY <2>1, <2>2, FS_Subset
  <2>4. Cardinality(DOMAIN store') \in Nat /\ Cardinality(DOMAIN store) \in Nat
    BY <2>1, <2>3, FS_CardinalityType
  <2> QED
    BY <2>3, <2>4, BoundsAssumption DEF StoreBounded, Size
<1>4. ASSUME NEW r \in Req, Answered(r)
      PROVE  StoreBounded'
  <2>1. UNCHANGED store \/ Saved(r)
    BY <1>4 DEF Answered
  <2>2. Saved(r) => StoreBounded'
    BY DEF Saved
  <2> QED
    BY <2>1, <2>2, <1>1
<1>5. ASSUME NEW r \in Req, RequestStep(r)
      PROVE  UNCHANGED store \/ SameSessions \/ Revoked(r) \/ Answered(r)
  BY <1>5, StepShapes DEF Started, Resumed, Edited, Regenerated, Handled, Local
<1>6. UNCHANGED vars \/ Tick => UNCHANGED store
  BY DEF vars, Tick
<1> QED
  BY <1>1, <1>2, <1>3, <1>4, <1>5, <1>6 DEF Next

\* evict_if_full before every insert keeps MemorySessionStore within its
\* capacity, in every interleaving of concurrent saves; only a capacity of zero
\* is outgrown.
THEOREM StoreNeverOverfull ==
  ASSUME MaxSessions # 0
  PROVE  Spec => []StoreBounded
<1>1. Init => StoreBounded
  BY FS_EmptySet, BoundsAssumption DEF Init, StoreBounded, Size
<1>2. TypeOK /\ IdsUsed /\ StoreBounded /\ [Next]_vars => StoreBounded'
  BY BoundedStep
<1> QED
  BY <1>1, <1>2, TypeCorrect, PTL DEF Spec

-----------------------------------------------------------------------------
(* The age of a session. *)

\* Used ids are positions of born, and stay where they are.
LEMMA BirthsKept ==
  ASSUME TypeOK, IdsUsed, [Next]_vars
  PROVE  \A i \in Id : i < nextId => born'[i] = born[i] /\ born[i] \in Time
<1>0. nextId \in Nat /\ born \in Seq(Time) /\ Len(born) = nextId - 1
  BY DEF TypeOK
<1>1. \A i \in Id : i < nextId => i \in 1..(nextId - 1) /\ born[i] \in Time
  BY <1>0 DEF Id
<1>2. UNCHANGED born \/ \E t \in Time : born' = Append(born, t)
  <2>1. ASSUME NEW r \in Req, Regenerated(r)
        PROVE  \E t \in Time : born' = Append(born, t)
    <3>1. req[r].session.id \in Id /\ req[r].session.id < nextId
      BY <2>1, TypesAreSane DEF Regenerated, IdsUsed, SessionData
    <3> QED
      BY <2>1, <3>1, <1>1 DEF Regenerated
  <2>2. ASSUME NEW r \in Req, RequestStep(r)
        PROVE  UNCHANGED born \/ Regenerated(r) \/ Started(r)
    BY <2>2, StepShapes DEF Resumed, Edited, Handled, Revoked, Answered, Local, history
  <2>3. \A r \in Req : Started(r) => born' = Append(born, now)
    BY DEF Started
  <2>4. now \in Time
    BY DEF TypeOK
  <2> QED
    BY <2>1, <2>2, <2>3, <2>4 DEF Next, Tick, vars, history
<1> QED
  BY <1>0, <1>1, <1>2, BornGrows

LEMMA CreatedStep ==
  ASSUME TypeOK, IdsUsed, CreatedKept, [Next]_vars
  PROVE  CreatedKept'
<1>0. /\ \A i \in DOMAIN store : born'[i] = born[i]
      /\ \A r \in Req : req[r].pc # "new" => born'[req[r].session.id] = born[req[r].session.id]
      /\ \A c \in issued : born'[c.id] = born[c.id]
  BY BirthsKept, TypesAreSane DEF TypeOK, IdsUsed, SessionData, CookieSet
<1> USE DEF CreatedKept
<1>1. ASSUME DOMAIN store' \subseteq DOMAIN store,
             \A i \in DOMAIN store' : store'[i].session = store[i].session
      PROVE  StoreKeeps'
  BY <1>0, <1>1 DEF StoreKeeps
<1>2. UNCHANGED issued => CookiesKeep'
  BY <1>0 DEF CookiesKeep
<1>3. \A r \in Req : req'[r] = req[r] => RequestKeeps(r)'
  BY <1>0 DEF RequestKeeps
<1>4. CASE UNCHANGED <<store, req, issued>>
  BY <1>1, <1>2, <1>3, <1>4
<1>5. ASSUME NEW r \in Req, Started(r)
      PROVE  CreatedKept'
  <2>1. born'[nextId] = now
    BY <1>5, BornGrows DEF Started, TypeOK
  <2>2. req'[r].session.id = nextId /\ req'[r].session.created = now
    BY <1>5 DEF Started
  <2>3. RequestKeeps(r)'
    BY <2>1, <2>2 DEF RequestKeeps
  <2> QED
    BY <1>1, <1>2, <1>3, <1>5, <2>3 DEF Started, Same, OthersSame, SameSessions
<1>6. ASSUME NEW r \in Req, Resumed(r)
      PROVE  CreatedKept'
  <2>1. PICK c \in issued : Usable(c) /\ req'[r].session = Payload(c)
    BY <1>6 DEF Resumed
  <2>2. Payload(c).id = c.id
    BY <2>1, TypesAreSane DEF Usable
  <2>3. RequestKeeps(r)'
    BY <1>6, <2>1, <2>2
    DEF Resumed, RequestKeeps, StoreKeeps, CookiesKeep, Payload, Usable, Known, history
  <2> QED
    BY <1>1, <1>2, <1>3, <1>6, <2>3 DEF Resumed, Same, OthersSame, SameSessions
<1>7. ASSUME NEW r \in Req, Edited(r)
      PROVE  CreatedKept'
  <2>1. RequestKeeps(r)'
    BY <1>7 DEF Edited, Local, history, RequestKeeps
  <2> QED
    BY <1>1, <1>2, <1>3, <1>7, <2>1 DEF Edited, Same, OthersSame, Local
<1>8. ASSUME NEW r \in Req, Regenerated(r)
      PROVE  CreatedKept'
  <2>1. req[r].session.created = born[req[r].session.id]
    BY <1>8 DEF Regenerated, RequestKeeps
  <2>2. req[r].session.created \in Time
    BY TypesAreSane DEF SessionData
  <2>3. born'[nextId] = req[r].session.created
    BY <1>8, <2>1, <2>2, BornGrows DEF Regenerated, TypeOK
  <2>4. RequestKeeps(r)'
    BY <1>8, <2>3 DEF Regenerated, RequestKeeps
  <2> QED
    BY <1>1, <1>2, <1>3, <1>8, <2>4 DEF Regenerated, Same, OthersSame
<1>9. ASSUME NEW r \in Req, Handled(r) \/ Revoked(r)
      PROVE  CreatedKept'
  <2>1. RequestKeeps(r)'
    BY <1>9 DEF Handled, Revoked, SameRequest, Local, history, RequestKeeps
  <2>2. StoreKeeps'
    BY <1>1, <1>9 DEF Handled, Local, Revoked
  <2> QED
    BY <1>2, <1>3, <1>9, <2>1, <2>2
    DEF Handled, Revoked, SameRequest, Same, OthersSame, Local
<1>10. ASSUME NEW r \in Req, Answered(r)
       PROVE  CreatedKept'
  <2>1. req[r].session.created = born[req[r].session.id] /\ born' = born
    BY <1>10 DEF Answered, RequestKeeps
  <2>2. StoreKeeps'
    BY <1>10, <2>1 DEF Answered, Saved, StoreKeeps
  <2>3. CookiesKeep'
    BY <1>10, <2>1 DEF Answered, Cookie, CookiesKeep
  <2>4. RequestKeeps(r)'
    BY <1>10, <2>1 DEF Answered, SameRequest, RequestKeeps
  <2> QED
    BY <1>3, <1>10, <2>2, <2>3, <2>4 DEF Answered, SameRequest, Same, OthersSame
<1> QED
  BY <1>4, <1>5, <1>6, <1>7, <1>8, <1>9, <1>10, StepShapes DEF Next, Tick, vars, history

\* No chain of rotations, saves and reloads carries a session past max_age: the
\* handler sees it only within max_age of the moment its first ancestor was
\* created (SessionManager::is_expired, Session::regenerate_id).
THEOREM SessionsAge == Spec => NoImmortalSession
<1> DEFINE InTime ==
      \A r \in Req :
        req[r].pc = "new" /\ req'[r].pc = "handling"
          => now <= born'[req'[r].original] + MaxAge
<1>1. Init => CreatedKept
  BY DEF Init, CreatedKept, StoreKeeps, RequestKeeps, CookiesKeep
<1>2. TypeOK /\ IdsUsed /\ CreatedKept /\ [Next]_vars => CreatedKept'
  BY CreatedStep
<1>3. TypeOK /\ IdsUsed /\ CreatedKept /\ [Next]_vars => [InTime]_vars
  <2> SUFFICES ASSUME TypeOK, IdsUsed, CreatedKept, [Next]_vars,
                      NEW r \in Req, req[r].pc = "new", req'[r].pc = "handling"
               PROVE  now <= born'[req'[r].original] + MaxAge
    OBVIOUS
  <2>1. PICK q \in Req : RequestStep(q)
    BY DEF Next, Tick, vars
  <2>2. OthersSame(q)
    BY <2>1, StepShapes
    DEF Started, Resumed, Edited, Regenerated, Handled, Revoked, Answered, SameRequest, Same
  <2>3. q = r
    BY <2>2 DEF OthersSame
  <2>4. Started(r) \/ Resumed(r)
    BY <2>1, <2>3, StepShapes DEF Edited, Regenerated, Handled, Revoked, Answered
  <2>5. now \in Nat /\ MaxAge \in Nat
    BY BoundsAssumption DEF TypeOK, Time
  <2>6. CASE Started(r)
    <3>1. born'[req'[r].original] = now
      BY <2>6, BornGrows DEF Started, TypeOK
    <3> QED
      BY <2>5, <3>1
  <2>7. CASE Resumed(r)
    <3>1. PICK c \in issued : Usable(c) /\ req'[r].original = c.id
      BY <2>7 DEF Resumed
    <3>2. Payload(c) \in SessionData /\ Payload(c).id = c.id
      BY <3>1, TypesAreSane DEF Usable
    <3>3. Payload(c).created = born[c.id]
      BY <3>1 DEF CreatedKept, StoreKeeps, CookiesKeep, Payload, Usable, Known
    <3>4. ~(now > born[c.id] + MaxAge) /\ born[c.id] \in Nat
      BY <3>1, <3>2, <3>3 DEF Usable, Expired, SessionData, Time
    <3>5. born' = born
      BY <2>7 DEF Resumed, history
    <3> QED
      BY <2>5, <3>1, <3>4, <3>5
  <2> QED
    BY <2>4, <2>6, <2>7
<1> QED
  BY <1>1, <1>2, <1>3, TypeCorrect, PTL DEF Spec, NoImmortalSession, InTime

-----------------------------------------------------------------------------
(* A login stays out of the sessions that it rotated away from. *)

LEMMA HiddenStep ==
  ASSUME TypeOK, IdsUsed, NEW p \in Req, RequestStep(p), NEW r \in Req, LoginHiddenOf(r)
  PROVE  LoginHiddenOf(r)'
<1> DEFINE Right(s) == r \in s.data => req'[r].pc = "done" /\ <<r, s.id>> \notin rotated'
<1>0. /\ OthersSame(p) /\ req[p].pc # "done"
      /\ \/ Started(p) \/ Resumed(p) \/ Edited(p) \/ Regenerated(p)
         \/ Handled(p) \/ Revoked(p) \/ Answered(p)
  BY StepShapes
  DEF Started, Resumed, Edited, Regenerated, Handled, Revoked, Answered, SameRequest, Same
<1>1. /\ \A i \in DOMAIN store : ShowsRightly(r, store[i].session)
      /\ ~StoreMode => \A c \in issued : ShowsRightly(r, c)
      /\ \A q \in Req \ {r} : ShowsRightly(r, req[q].session)
  BY DEF LoginHiddenOf, HiddenInStore, HiddenInCookies, HiddenInRequests
<1>2. req[r].pc = "done" => req'[r].pc = "done"
  BY <1>0 DEF OthersSame
<1>3. Answered(p) \/ UNCHANGED rotated
  BY <1>0 DEF Started, Resumed, Edited, Regenerated, Handled, Revoked, Local, history
<1>4. ASSUME Answered(p)
      PROVE  /\ req[p].pc = "answering" /\ req'[p].pc = "done"
             /\ rotated' \subseteq rotated \cup {<<p, req[p].original>>}
             /\ req[p].original = req[p].session.id => rotated' = rotated
  BY <1>4 DEF Answered
\* What was shown rightly before the step is shown rightly after it.
<1>5. ASSUME NEW s, ShowsRightly(r, s)
      PROVE  Right(s)
  BY <1>2, <1>3, <1>4, <1>5 DEF ShowsRightly
<1>6. RotatedWhenDone(r)'
  BY <1>2, <1>3, <1>4 DEF LoginHiddenOf, RotatedWhenDone
\* So are the copies that an answer saves and sends.
<1>7. ASSUME Answered(p)
      PROVE  Right(req[p].session)
  <2>1. CASE p # r
    BY <1>1, <1>5, <2>1
  <2>2. CASE p = r
    <3>1. req[r].session.id \in Id
      BY TypesAreSane DEF SessionData
    <3>2. <<r, req[r].session.id>> \notin rotated
      BY <1>4, <1>7, <2>2, <3>1 DEF LoginHiddenOf, RotatedWhenDone
    <3> QED
      BY <1>4, <1>7, <2>2, <3>2
  <2> QED
    BY <2>1, <2>2
<1>8. \A i \in DOMAIN store' : Right(store'[i].session)
  <2>1. CASE SameSessions \/ UNCHANGED store \/ Revoked(p)
    BY <1>1, <1>5, <2>1 DEF SameSessions, Revoked
  <2>2. CASE Answered(p) /\ Saved(p)
    <3> HIDE DEF Right
    <3> QED
      BY <1>1, <1>5, <1>7, <2>2 DEF Saved
  <2> QED
    BY <1>0, <2>1, <2>2 DEF Started, Resumed, Edited, Regenerated, Handled, Answered, Local
<1>9. ASSUME ~StoreMode
      PROVE  \A c \in issued' : Right(c)
  <2>1. UNCHANGED issued \/ (Answered(p) /\ issued' = issued \cup {req[p].session})
    BY <1>0, <1>9
    DEF Started, Resumed, Edited, Regenerated, Handled, Revoked, Answered, Local, Cookie
  <2> HIDE DEF Right
  <2> QED
    BY <1>1, <1>5, <1>7, <1>9, <2>1
<1>10. ASSUME p # r
       PROVE  Right(req'[p].session)
  <2>0. Right(req[p].session)
    BY <1>1, <1>5, <1>10
  <2>1. CASE Started(p)
    BY <2>1 DEF Started
  <2>2. CASE Resumed(p)
    <3>1. PICK c \in issued : Usable(c) /\ req'[p].session = Payload(c)
      BY <2>2 DEF Resumed
    <3>2. ShowsRightly(r, Payload(c))
      BY <1>1, <3>1 DEF Usable, Known, Payload
    <3> HIDE DEF Right
    <3> QED
      BY <1>5, <3>1, <3>2
  <2>3. CASE Edited(p)
    BY <2>0, <2>3, <1>10 DEF Edited
  <2>4. CASE Regenerated(p)
    <3>1. <<r, nextId>> \notin rotated'
      BY <2>4 DEF Regenerated, IdsUsed, TypeOK
    <3> QED
      BY <2>0, <2>4, <3>1 DEF Regenerated
  <2>5. CASE SameRequest(p)
    BY <2>0, <2>5 DEF SameRequest
  <2> QED
    BY <1>0, <2>1, <2>2, <2>3, <2>4, <2>5 DEF Handled, Revoked, Answered
<1>11. \A q \in Req \ {r} : Right(req'[q].session)
  <2> HIDE DEF Right
  <2> QED
    BY <1>0, <1>1, <1>5, <1>10 DEF OthersSame
<1> QED
  BY <1>6, <1>8, <1>9, <1>11
  DEF LoginHiddenOf, HiddenInStore, HiddenInCookies, HiddenInRequests, ShowsRightly

LEMMA HiddenIdle ==
  ASSUME LoginHidden, UNCHANGED <<store, issued, req, rotated>>
  PROVE  LoginHidden'
BY DEF LoginHidden, LoginHiddenOf, HiddenInStore, HiddenInCookies, HiddenInRequests,
       RotatedWhenDone, ShowsRightly

\* Whoever holds a cookie from before a login (a fixed session id, a copied
\* cookie) never finds there what the login wrote, whatever requests overlap it
\* and however late their saves (Session::regenerate_id, SessionLayer::handle).
THEOREM FixationShowsNothing == Spec => []OldIdSeesNoLogin
<1>1. Init => LoginHidden
  BY DEF Init, LoginHidden, LoginHiddenOf, HiddenInStore, HiddenInCookies,
         HiddenInRequests, RotatedWhenDone, ShowsRightly, NoSession
<1>2. TypeOK /\ IdsUsed /\ LoginHidden /\ [Next]_vars => LoginHidden'
  <2>1. ASSUME TypeOK, IdsUsed, LoginHidden, NEW p \in Req, RequestStep(p)
        PROVE  LoginHidden'
    BY <2>1, HiddenStep DEF LoginHidden
  <2> QED
    BY <2>1, HiddenIdle DEF Next, Tick, vars, history
<1>3. TypeOK /\ LoginHidden => OldIdSeesNoLogin
  <2> SUFFICES ASSUME TypeOK, LoginHidden, NEW pair \in rotated
               PROVE  /\ pair[2] \in DOMAIN store =>
                            pair[1] \notin store[pair[2]].session.data
                      /\ \A r \in Req \ {pair[1]} :
                           req[r].session.id = pair[2] => pair[1] \notin req[r].session.data
    BY DEF OldIdSeesNoLogin
  <2>1. pair[1] \in Req /\ pair = <<pair[1], pair[2]>>
    BY DEF TypeOK
  <2>2. /\ \A i \in DOMAIN store : ShowsRightly(pair[1], store[i].session)
        /\ \A q \in Req \ {pair[1]} : ShowsRightly(pair[1], req[q].session)
    BY <2>1 DEF LoginHidden, LoginHiddenOf, HiddenInStore, HiddenInRequests
  <2> QED
    BY <2>1, <2>2 DEF ShowsRightly, TypeOK
<1> QED
  BY <1>1, <1>2, <1>3, TypeCorrect, PTL DEF Spec

-----------------------------------------------------------------------------
(* A session that is gone was ended, or made room. *)

Accounted(i) == i \in DOMAIN store \cup Ended \cup Ending \cup evicted

IsEnding(r) == req[r].pc \in Active \ {"handling"}

LEMMA EndingMembers ==
  /\ \A i : i \in Ending <=> \E r \in Req : IsEnding(r) /\ i \in Ids(r)
  /\ \A i : i \in Ended <=> i \in destroyed \/ \E pair \in rotated : i = pair[2]
BY DEF Ending, IsEnding, Ended

LEMMA AccountedStep ==
  ASSUME StoreMode, TypeOK, IdsUsed, NEW p \in Req, RequestStep(p), NEW i, Accounted(i)
  PROVE  Accounted(i)'
<1> DEFINE Member ==
      \/ i \in DOMAIN store \/ i \in destroyed \/ (\E pair \in rotated : i = pair[2])
      \/ (\E r \in Req : IsEnding(r) /\ i \in Ids(r)) \/ i \in evicted
<1>0. /\ OthersSame(p)
      /\ \/ Started(p) \/ Resumed(p) \/ Edited(p) \/ Regenerated(p)
         \/ Handled(p) \/ Revoked(p) \/ Answered(p)
  BY StepShapes
  DEF Started, Resumed, Edited, Regenerated, Handled, Revoked, Answered, SameRequest, Same
<1>1. Member
  BY EndingMembers DEF Accounted
<1>2. SUFFICES Member'
  <2>1. Member' => i \in DOMAIN store' \cup Ended' \cup Ending' \cup evicted'
    BY DEF Ended, Ending, IsEnding
  <2> QED
    BY <2>1 DEF Accounted
\* A request that ends its ids keeps them in Ending until it has answered.
<1>3. ASSUME ~Answered(p), NEW r \in Req, IsEnding(r), i \in Ids(r)
      PROVE  IsEnding(r)' /\ i \in Ids(r)'
  <2>1. CASE r # p
    BY <1>0, <1>3, <2>1 DEF OthersSame, IsEnding, Ids
  <2>2. CASE r = p
    <3>1. Revoked(p)
      BY <1>0, <1>3, <2>2
      DEF Started, Resumed, Edited, Regenerated, Handled, IsEnding, Active
    <3>2. req'[p].pc \in {"revoke current", "answering"} /\ Ids(p)' = Ids(p)
      BY <3>1 DEF Revoked, SameRequest, NextRevoke, Ids
    <3> QED
      BY <1>3, <2>2, <3>2 DEF IsEnding, Active, Phase
  <2> QED
    BY <2>1, <2>2
<1>4. CASE Revoked(p)
  <2>1. /\ i \in DOMAIN store => i \in DOMAIN store' \/ i \in Ids(p)
        /\ UNCHANGED <<destroyed, rotated, evicted>>
        /\ IsEnding(p) /\ ~Answered(p)
    BY <1>4 DEF Revoked, history, IsEnding, Active, Phase, Answered, NextRevoke
  <2>2. i \in Ids(p) => IsEnding(p)' /\ i \in Ids(p)'
    BY <1>3, <2>1
  <2> QED
    BY <1>1, <1>3, <2>1, <2>2
<1>5. CASE Answered(p)
  <2>1. IsEnding(p) /\ i \in Ids(p) =>
          i \in DOMAIN store' \/ i \in destroyed' \/ \E pair \in rotated' : i = pair[2]
    <3>1. CASE req[p].destroyed
      BY <1>5, <3>1 DEF Answered
    <3>2. CASE ~req[p].destroyed /\ i = req[p].session.id
      BY <1>5, <3>2, StoreMode DEF Answered, Saved
    <3>3. CASE ~req[p].destroyed /\ i = req[p].original /\ i # req[p].session.id
      <4>1. <<p, i>> \in rotated' /\ i = <<p, i>>[2]
        BY <1>5, <3>3 DEF Answered
      <4> QED
        BY <4>1
    <3> QED
      BY <3>1, <3>2, <3>3 DEF Ids
  <2>2. \A r \in Req : r # p /\ IsEnding(r) /\ i \in Ids(r) => IsEnding(r)' /\ i \in Ids(r)'
    BY <1>0 DEF OthersSame, IsEnding, Ids
  <2>3. /\ i \in DOMAIN store \/ i \in evicted => i \in DOMAIN store' \/ i \in evicted'
        /\ destroyed \subseteq destroyed' /\ rotated \subseteq rotated'
    BY <1>5, StoreMode DEF Answered, Saved
  <2> QED
    BY <1>1, <2>1, <2>2, <2>3
<1>6. CASE ~Revoked(p) /\ ~Answered(p)
  <2>1. DOMAIN store' = DOMAIN store /\ UNCHANGED <<destroyed, rotated, evicted>>
    BY <1>0, <1>6
    DEF Started, Resumed, Edited, Regenerated, Handled, Local, history, SameSessions
  <2> QED
    BY <1>1, <1>3, <1>6, <2>1
<1> QED
  BY <1>4, <1>5, <1>6

\* No request makes another client's session vanish: a session whose cookie was
\* set is in the store until a request ends it by name or eviction takes it
\* (SessionLayer::handle, MemorySessionStore::save and revoke).
THEOREM CookiesKeepTheirSessions == Spec => []CookieHasSession
<1> DEFINE AllAccounted == StoreMode => \A c \in issued : Accounted(c.id)
<1>0. AllAccounted <=> CookieHasSession
  BY DEF Accounted, CookieHasSession
<1>1. Init => CookieHasSession
  BY DEF Init, CookieHasSession
<1>2. TypeOK /\ IdsUsed /\ CookieHasSession /\ [Next]_vars => CookieHasSession'
  <2>1. ASSUME TypeOK, IdsUsed, CookieHasSession, NEW p \in Req, RequestStep(p), StoreMode,
               NEW c \in issued'
        PROVE  Accounted(c.id)'
    <3>1. CASE c \in issued
      BY <1>0, <2>1, <3>1, AccountedStep
    <3>2. CASE c \notin issued
      <4>1. Answered(p)
        BY <2>1, <3>2, StepShapes
        DEF Started, Resumed, Edited, Regenerated, Handled, Revoked, Local
      <4>2. c.id \in DOMAIN store'
        BY <2>1, <3>2, <4>1 DEF Answered, Cookie, Saved
      <4> QED
        BY <4>2 DEF Accounted
    <3> QED
      BY <3>1, <3>2
  <2>2. ASSUME CookieHasSession, UNCHANGED <<store, issued, req, destroyed, rotated, evicted>>
        PROVE  CookieHasSession'
    BY <2>2 DEF CookieHasSession, Ended, Ending, Ids
  <2>3. ASSUME TypeOK, IdsUsed, CookieHasSession, NEW p \in Req, RequestStep(p)
        PROVE  CookieHasSession'
    BY <2>1, <2>3 DEF CookieHasSession, Accounted
  <2> QED
    BY <2>2, <2>3 DEF Next, Tick, vars, history
<1> QED
  BY <1>1, <1>2, TypeCorrect, PTL DEF Spec

-----------------------------------------------------------------------------
(* What is over stays over, unless it was shared. *)

\* Who is active after p's step was active before it, with the same ids and in
\* the same place, unless it is p.
LEMMA SerialStep ==
  ASSUME StoreMode, TypeOK, IdsUsed, Serial, NEW p \in Req, RequestStep(p)
  PROVE  Serial'
<1>0. /\ \A q \in Req : q # p => req'[q] = req[q]
      /\ \/ Started(p) \/ Resumed(p) \/ Edited(p) \/ Regenerated(p)
         \/ Handled(p) \/ Revoked(p) \/ Answered(p)
  BY StepShapes
  DEF Started, Resumed, Edited, Regenerated, Handled, Revoked, Answered, SameRequest, Same,
      OthersSame
<1>S. shared \subseteq shared'
  BY StepShapes
  DEF Started, Resumed, Edited, Regenerated, Handled, Revoked, Answered, Local, history
<1>1. /\ \A r \in Req : Alone(r) /\ Unended(r) /\ HasRevoked(r)
      /\ Ended \cap DOMAIN store \subseteq shared
  BY DEF Serial
<1>2. /\ \A q \in Req : req[q].pc \in Active => nextId \notin Ids(q)
      /\ nextId \notin Ended
  <2>1. nextId \in Nat
    BY DEF TypeOK
  <2>2. \A q \in Req : req[q].pc \in Active => req[q].pc # "new"
    BY DEF Active
  <2>3. nextId \notin Ended
    BY <2>1, EndingMembers DEF IdsUsed
  <2> QED
    BY <2>1, <2>2, <2>3 DEF Ids, IdsUsed
\* Whatever p does, it stays alone if its new ids are its own or fresh.
<1>3. ASSUME \A q \in Req \ {p} : req'[p].pc \in Active /\ req[q].pc \in Active
                 => Ids(q) \cap Ids(p)' \subseteq shared'
      PROVE  \A r \in Req : Alone(r)'
  <2>1. \A q \in Req \ {p} : Ids(q)' = Ids(q)
    BY <1>0 DEF Ids
  <2>2. ASSUME NEW r \in Req, NEW q \in Req \ {r}, req'[r].pc \in Active, req'[q].pc \in Active
        PROVE  Ids(q)' \cap Ids(r)' \subseteq shared'
    <3>1. CASE r = p
      BY <1>0, <1>3, <2>1, <2>2, <3>1
    <3>2. CASE q = p
      BY <1>0, <1>3, <2>1, <2>2, <3>2
    <3>3. CASE r # p /\ q # p
      BY <1>S, <1>0, <1>1, <2>1, <2>2, <3>3 DEF Alone
    <3> QED
      BY <3>1, <3>2, <3>3
  <2> QED
    BY <2>2 DEF Alone
<1>4. ASSUME NEW r \in Req, r # p, Ended' = Ended
      PROVE  Unended(r)'
  BY <1>S, <1>0, <1>1, <1>4 DEF Unended, Ids
<1>5. ASSUME NEW r \in Req, r # p, DOMAIN store' \subseteq DOMAIN store
      PROVE  HasRevoked(r)'
  BY <1>S, <1>0, <1>1, <1>5 DEF HasRevoked
<1>6. CASE Started(p)
  <2>1. /\ Ids(p)' = {nextId} /\ Ended' = Ended
        /\ DOMAIN store' = DOMAIN store /\ req'[p].pc = "handling"
    BY <1>6 DEF Started, Ids, Ended, SameSessions
  <2>2. Unended(p)' /\ HasRevoked(p)'
    BY <1>S, <1>2, <2>1 DEF Unended, HasRevoked
  <2>3. \A r \in Req : Alone(r)'
    BY <1>2, <1>3, <2>1
  <2> QED
    BY <1>S, <1>1, <1>4, <1>5, <2>1, <2>2, <2>3 DEF Serial
<1>7. CASE Resumed(p)
  <2>1. PICK c \in issued :
          /\ Usable(c)
          /\ shared' = IF Free(c.id) THEN shared ELSE shared \cup {c.id}
          /\ req'[p].original = c.id /\ req'[p].session = Payload(c)
    BY <1>7 DEF Resumed
  <2>2. c.id \in DOMAIN store /\ Payload(c).id = c.id
    BY <2>1, StoreMode, TypesAreSane DEF Usable, Known
  <2>3. /\ Ids(p)' = {c.id} /\ Ended' = Ended
        /\ DOMAIN store' = DOMAIN store /\ req'[p].pc = "handling"
    BY <1>7, <2>1, <2>2 DEF Resumed, Ids, Ended, SameSessions
  <2>4. Unended(p)' /\ HasRevoked(p)'
    BY <1>S, <1>1, <2>2, <2>3 DEF Unended, HasRevoked
  <2>5. \A r \in Req : Alone(r)'
    BY <1>3, <2>1, <2>3 DEF Free
  <2> QED
    BY <1>S, <1>1, <1>4, <1>5, <2>3, <2>4, <2>5 DEF Serial
<1>8. CASE Edited(p)
  <2>1. /\ Ids(p)' = Ids(p) /\ Ended' = Ended /\ DOMAIN store' = DOMAIN store
        /\ req[p].pc = "handling" /\ req'[p].pc = "handling"
    BY <1>8 DEF Edited, Ids, Ended, Local, history
  <2>2. req[p].pc \in Active
    BY <2>1 DEF Active, Phase
  <2>3. Unended(p)' /\ HasRevoked(p)'
    BY <1>S, <1>1, <2>1, <2>2 DEF Unended, HasRevoked
  <2>4. \A r \in Req : Alone(r)'
    BY <1>S, <1>1, <1>3, <2>1, <2>2 DEF Alone
  <2> QED
    BY <1>S, <1>1, <1>4, <1>5, <2>1, <2>3, <2>4 DEF Serial
<1>9. CASE Regenerated(p)
  <2>1. /\ Ids(p)' \subseteq Ids(p) \cup {nextId} /\ Ended' = Ended
        /\ DOMAIN store' = DOMAIN store
        /\ req[p].pc = "handling" /\ req'[p].pc = "handling"
    BY <1>9 DEF Regenerated, Ids, Ended
  <2>2. req[p].pc \in Active
    BY <2>1 DEF Active, Phase
  <2>3. Unended(p)' /\ HasRevoked(p)'
    BY <1>S, <1>1, <1>2, <2>1, <2>2 DEF Unended, HasRevoked
  <2>4. \A r \in Req : Alone(r)'
    BY <1>S, <1>1, <1>2, <1>3, <2>1, <2>2 DEF Alone
  <2> QED
    BY <1>S, <1>1, <1>4, <1>5, <2>1, <2>3, <2>4 DEF Serial
<1>10. CASE Handled(p)
  <2>1. /\ Ids(p)' = Ids(p) /\ Ended' = Ended /\ DOMAIN store' = DOMAIN store
        /\ req[p].pc = "handling"
    BY <1>10 DEF Handled, SameRequest, Ids, Ended, Local, history
  <2>2. req[p].pc \in Active
    BY <2>1 DEF Active, Phase
  <2>3. Unended(p)'
    BY <1>S, <1>1, <2>1, <2>2 DEF Unended
  <2>4. HasRevoked(p)'
    BY <1>S, <1>10 DEF Handled, SameRequest, HasRevoked
  <2>5. \A r \in Req : Alone(r)'
    BY <1>S, <1>1, <1>3, <2>1, <2>2 DEF Alone
  <2> QED
    BY <1>S, <1>1, <1>4, <1>5, <2>1, <2>3, <2>4, <2>5 DEF Serial
<1>11. CASE Revoked(p)
  <2>1. /\ Ids(p)' = Ids(p) /\ Ended' = Ended /\ DOMAIN store' \subseteq DOMAIN store
        /\ req[p].pc \in {"revoke arriving", "revoke current"}
    BY <1>11 DEF Revoked, SameRequest, Ids, Ended, history
  <2>2. req[p].pc \in Active
    BY <2>1 DEF Active, Phase
  <2>3. Unended(p)'
    BY <1>S, <1>1, <2>1, <2>2 DEF Unended
  <2>4. HasRevoked(p)'
    BY <1>S, <1>1, <1>11 DEF Revoked, SameRequest, HasRevoked, NextRevoke
  <2>5. \A r \in Req : Alone(r)'
    BY <1>S, <1>1, <1>3, <2>1, <2>2 DEF Alone
  <2> QED
    BY <1>S, <1>1, <1>4, <1>5, <2>1, <2>3, <2>4, <2>5 DEF Serial
<1>12. CASE Answered(p)
  <2>1. /\ req[p].pc = "answering" /\ req'[p].pc = "done"
        /\ req[p].pc \in Active /\ req'[p].pc \notin Active
    BY <1>12 DEF Answered, Active, Phase
  <2>2. Unended(p)' /\ HasRevoked(p)' /\ \A r \in Req : Alone(r)'
    BY <1>S, <1>3, <2>1 DEF Unended, HasRevoked
  \* What the answer stores and what it ends are ids of p alone.
  <2>3. /\ DOMAIN store' \subseteq DOMAIN store \cup Ids(p)
        /\ Ended' \subseteq Ended \cup Ids(p)
        /\ Ended' \cap DOMAIN store' \subseteq shared /\ shared' = shared
    <3>1. CASE req[p].destroyed
      <4>1. Ended' = Ended \cup Ids(p) /\ store' = store /\ shared' = shared
        BY <1>12, <3>1 DEF Answered, Ended
      <4>2. Ids(p) \cap DOMAIN store \subseteq shared
        BY <1>S, <1>1, <2>1, <3>1 DEF HasRevoked, Ids
      <4> QED
        BY <1>1, <4>1, <4>2
    <3>2. CASE ~req[p].destroyed
      <4> DEFINE old == req[p].original
                 new == req[p].session.id
      <4>1. /\ DOMAIN store' \subseteq DOMAIN store \cup {new}
            /\ destroyed' = destroyed /\ shared' = shared
            /\ rotated' = IF old = new THEN rotated ELSE rotated \cup {<<p, old>>}
        BY <1>12, <3>2, StoreMode DEF Answered, Saved
      <4>2. \A x \in Ended' : x \in Ended \/ (old # new /\ x = old)
        <5>1. ASSUME NEW pair \in rotated'
              PROVE  pair \in rotated \/ (old # new /\ pair = <<p, old>>)
          BY <4>1
        <5>2. <<p, old>>[2] = old
          OBVIOUS
        <5> HIDE DEF old, new
        <5> QED
          BY <4>1, <5>1, <5>2 DEF Ended
      <4>3. old # new => old \notin DOMAIN store \ shared
        BY <1>S, <1>1, <2>1 DEF HasRevoked
      <4>4. new \notin Ended \ shared
        BY <1>S, <1>1, <2>1 DEF Unended, Ids
      <4>5. old \in Ids(p) /\ new \in Ids(p)
        BY DEF Ids
      <4> HIDE DEF old, new
      <4> QED
        BY <1>1, <4>1, <4>2, <4>3, <4>4, <4>5
    <3> QED
      BY <3>1, <3>2
  <2>4. ASSUME NEW r \in Req, r # p
        PROVE  Unended(r)' /\ HasRevoked(r)'
    <3>1. req[r].pc \in Active => Ids(r) \cap Ids(p) \subseteq shared
      BY <1>S, <1>1, <2>1, <2>4 DEF Alone
    <3>2. Unended(r)'
      BY <1>S, <1>0, <1>1, <2>3, <2>4, <3>1 DEF Unended, Ids
    <3>3. HasRevoked(r)'
      <4>1. req[r].pc \in {"revoke current", "answering"} =>
              /\ req[r].original \notin Ids(p) \ shared
              /\ req[r].session.id \notin Ids(p) \ shared
        BY <3>1 DEF Active, Phase, Ids
      <4> QED
        BY <1>S, <1>0, <1>1, <2>3, <2>4, <4>1 DEF HasRevoked
    <3> QED
      BY <3>2, <3>3
  <2> QED
    BY <2>2, <2>3, <2>4 DEF Serial
<1> QED
  BY <1>0, <1>6, <1>7, <1>8, <1>9, <1>10, <1>11, <1>12

LEMMA SerialAlways ==
  ASSUME StoreMode
  PROVE  Spec => []Serial
<1>1. Init => Serial
  BY DEF Init, Serial, Alone, Unended, HasRevoked, Active, Ended
<1>2. TypeOK /\ IdsUsed /\ Serial /\ [Next]_vars => Serial'
  <2>1. ASSUME Serial, UNCHANGED <<store, req, destroyed, rotated, shared>>
        PROVE  Serial'
    BY <2>1 DEF Serial, Alone, Unended, HasRevoked, Ended, Ids
  <2> QED
    BY <2>1, SerialStep DEF Next, Tick, vars, history
<1> QED
  BY <1>1, <1>2, TypeCorrect, PTL DEF Spec

\* A session that a response ended, by destroy or by rotation, never comes back
\* to the store, unless another request had it in hand at the same time as one
\* before (SessionLayer::handle revokes before it answers).
THEOREM OverIsOver == Spec => []EndedUnlessShared
<1>1. CASE StoreMode
  <2>1. Serial => EndedUnlessShared
    BY DEF Serial, EndedUnlessShared
  <2> QED
    BY <1>1, <2>1, SerialAlways, PTL
<1>2. CASE ~StoreMode
  <2>1. EndedUnlessShared
    BY <1>2 DEF EndedUnlessShared
  <2> QED
    BY <2>1, PTL
<1> QED
  BY <1>1, <1>2

\* Nor is it served: a request with a cookie from before gets a new session
\* (SessionManager::read_session).
THEOREM EndedIdsAreDead == Spec => EndedNotServed
<1> DEFINE NotServed ==
      StoreMode => \A r \in Req :
        req[r].pc = "new" /\ req'[r].pc = "handling"
          => req'[r].original \notin Ended \ shared
<1>1. CASE StoreMode
  <2>1. TypeOK /\ IdsUsed /\ Serial /\ [Next]_vars => [NotServed]_vars
    <3> SUFFICES ASSUME TypeOK, IdsUsed, Serial, [Next]_vars, NEW r \in Req,
                        req[r].pc = "new", req'[r].pc = "handling"
                 PROVE  req'[r].original \notin Ended \ shared
      OBVIOUS
    <3>1. PICK q \in Req : RequestStep(q)
      BY DEF Next, Tick, vars
    <3>2. OthersSame(q)
      BY <3>1, StepShapes
      DEF Started, Resumed, Edited, Regenerated, Handled, Revoked, Answered, SameRequest, Same
    <3>3. q = r
      BY <3>2 DEF OthersSame
    <3>4. Started(r) \/ Resumed(r)
      BY <3>1, <3>3, StepShapes DEF Edited, Regenerated, Handled, Revoked, Answered
    <3>5. CASE Started(r)
      <4>1. nextId \in Nat /\ req'[r].original = nextId
        BY <3>5 DEF Started, TypeOK
      <4> QED
        BY <4>1, EndingMembers DEF IdsUsed
    <3>6. CASE Resumed(r)
      <4>1. req'[r].original \in DOMAIN store
        BY <3>6, <1>1 DEF Resumed, Usable, Known
      <4> QED
        BY <4>1 DEF Serial
    <3> QED
      BY <3>4, <3>5, <3>6
  <2> QED
    BY <1>1, <2>1, SerialAlways, TypeCorrect, PTL DEF Spec, EndedNotServed, NotServed
<1>2. CASE ~StoreMode
  <2>1. NotServed
    BY <1>2
  <2> QED
    BY <2>1, PTL DEF EndedNotServed, NotServed
<1> QED
  BY <1>1, <1>2

=============================================================================
