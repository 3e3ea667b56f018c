------------------------------ MODULE Sessions ------------------------------
(***************************************************************************)
(* Sessions across concurrent requests: SessionLayer (src/middleware/      *)
(* session.rs) around SessionManager, Session and MemorySessionStore       *)
(* (src/session).                                                          *)
(*                                                                         *)
(* Each request is a process.  It reads the session its cookie names, its  *)
(* handler works on a private copy, and the layer then revokes and saves   *)
(* in steps of their own: requests that carry the same cookie interleave   *)
(* between any two of these steps.  A signed cookie can not be forged, and *)
(* never leaves the set of cookies the server issued; a client may send    *)
(* any of them at any time, however old, or none.                          *)
(***************************************************************************)
EXTENDS Naturals, FiniteSets, Sequences, LruMap

CONSTANTS
  Req,            \* requests; also the values their handlers store
  MaxId,          \* bound: ids 1, 2, ... that random generation may use up
  MaxTime,        \* bound on the clock
  MaxSessions,    \* MemorySessionStore::with_capacity
  IdleEviction,   \* IDLE_EVICTION
  MaxAge,         \* SessionConfig::max_age_secs
  StoreMode,      \* was a SessionStore installed?
  Piped           \* the requests whose values hold a '|'

ASSUME ReqAssumption == IsFiniteSet(Req)
ASSUME BoundsAssumption ==
  /\ MaxId \in Nat \ {0}
  /\ MaxTime \in Nat
  /\ MaxSessions \in Nat
  /\ IdleEviction \in Nat
  /\ MaxAge \in Nat
ASSUME ModeAssumption == StoreMode \in BOOLEAN /\ Piped \subseteq Req

VARIABLES
  now,            \* the clock
  nextId,         \* the next id never used before
  store,          \* MemorySessionStore::entries
  issued,         \* every cookie ever set
  req,            \* the requests
  \* history, for the properties only
  destroyed,      \* ids whose destruction was completed by a response
  rotated,        \* <<request, id>>: the request's response moved it off id
  evicted,        \* ids that made room for others
  shared,         \* ids that two requests had in hand at once
  born            \* when the session that now has this id was first created

history == <<destroyed, rotated, evicted, shared, born>>
vars == <<now, nextId, store, issued, req, history>>

Id   == 1..MaxId
Time == 0..MaxTime

SessionData == [id : Id, created : Time, data : SUBSET Req]

\* In store mode the cookie carries the signed id alone, by default all of it.
Cookie(s) == IF StoreMode THEN [id |-> s.id] ELSE s
CookieSet == IF StoreMode THEN [id : Id] ELSE SessionData

\* After the handler, the layer removes the arriving id from the store, then
\* the current one, where it has to; then it saves, or sets a deletion cookie.
Phase == {"new", "handling", "revoke arriving", "revoke current", "answering", "done"}
Active == Phase \ {"new", "done"}

NoSession == [id |-> 1, created |-> 0, data |-> {}]

Request ==
  [pc : Phase, original : Id, session : SessionData,
   modified : BOOLEAN, destroyed : BOOLEAN]

TypeOK ==
  /\ now \in Time
  /\ nextId \in 1..(MaxId + 1)
  /\ DOMAIN store \subseteq Id
  /\ \A i \in DOMAIN store :
       /\ store[i] \in [session : SessionData, touched : Time]
       /\ store[i].session.id = i
  /\ issued \subseteq CookieSet
  /\ req \in [Req -> Request]
  /\ destroyed \subseteq Id
  /\ rotated \subseteq Req \X Id
  /\ evicted \subseteq Id
  /\ shared \subseteq Id
  /\ born \in Seq(Time) /\ Len(born) = nextId - 1

Init ==
  /\ now = 0
  /\ nextId = 1
  /\ store = << >>
  /\ issued = {}
  /\ req = [r \in Req |-> [pc |-> "new", original |-> 1, session |-> NoSession,
                           modified |-> FALSE, destroyed |-> FALSE]]
  /\ destroyed = {}
  /\ rotated = {}
  /\ evicted = {}
  /\ shared = {}
  /\ born = << >>

Tick == now < MaxTime /\ now' = now + 1
        /\ UNCHANGED <<nextId, store, issued, req, history>>

-----------------------------------------------------------------------------
(* SessionManager::read_session and MemorySessionStore::load. *)

Known(c) == ~StoreMode \/ c.id \in DOMAIN store
Payload(c) == IF StoreMode THEN store[c.id].session ELSE c
Expired(s) == now > s.created + MaxAge

\* The payload of a cookie ends at its first '|', whether the server wrote it
\* there or a value did; what follows is held against the signature.
CutBy(c) == IF StoreMode THEN {} ELSE c.data \cap Piped
Verifies(c) == CutBy(c) = {}
Usable(c) == Verifies(c) /\ Known(c) /\ ~Expired(Payload(c))

\* load touches the entry, whatever the manager then makes of its age.
Touch(c) ==
  IF StoreMode THEN [store EXCEPT ![c.id].touched = now] ELSE store

Ids(r) == {req[r].original, req[r].session.id}

\* No request with that session is under way.
Free(i) == \A r \in Req : req[r].pc \in Active => i \notin Ids(r)

Begin(r, s) ==
  req' = [req EXCEPT ![r] =
            [@ EXCEPT !.pc = "handling", !.original = s.id, !.session = s]]

Resume(r, c) ==         \* the cookie's session is there and young enough
  /\ req[r].pc = "new"
  /\ Usable(c)
  /\ store' = Touch(c)
  /\ Begin(r, Payload(c))
  /\ shared' = IF Free(c.id) THEN shared ELSE shared \cup {c.id}
  /\ UNCHANGED <<now, nextId, issued, destroyed, rotated, evicted, born>>

CreateSession(r) ==     \* SessionData::new: a random id, never seen before
  /\ nextId <= MaxId
  /\ nextId' = nextId + 1
  /\ Begin(r, [id |-> nextId, created |-> now, data |-> {}])
  /\ born' = Append(born, now)

StartFresh(r) ==        \* no cookie, or one that does not verify
  /\ req[r].pc = "new"
  /\ CreateSession(r)
  /\ UNCHANGED <<now, store, issued, destroyed, rotated, evicted, shared>>

Replace(r, c) ==        \* revoked, evicted or expired: carry on with a new one
  /\ req[r].pc = "new"
  /\ ~Usable(c)
  /\ store' = IF Known(c) THEN Touch(c) ELSE store
  /\ CreateSession(r)
  /\ UNCHANGED <<now, issued, destroyed, rotated, evicted, shared>>

-----------------------------------------------------------------------------
(* What a handler may do with the session: the methods of Session. *)

Handler(r) == req[r].pc = "handling"

Local == UNCHANGED <<now, nextId, store, issued, history>>

WithData(q, d) == [q EXCEPT !.session.data = d, !.modified = TRUE]

Insert(r) ==
  /\ Handler(r)
  /\ req' = [req EXCEPT ![r] = WithData(@, @.session.data \cup {r})]
  /\ Local

Remove(r, v) ==
  /\ Handler(r)
  /\ v \in req[r].session.data
  /\ req' = [req EXCEPT ![r] = WithData(@, @.session.data \ {v})]
  /\ Local

Clear(r) ==
  /\ Handler(r)
  /\ req[r].session.data # {}
  /\ req' = [req EXCEPT ![r] = WithData(@, {})]
  /\ Local

Destroy(r) ==
  /\ Handler(r)
  /\ req' = [req EXCEPT ![r] = [WithData(@, {}) EXCEPT !.destroyed = TRUE]]
  /\ Local

WithId(q, i, since) ==
  [q EXCEPT !.session.id = i, !.session.created = since, !.modified = TRUE]

GiveId(r, since) ==     \* the session gets a random id, never seen before
  /\ nextId <= MaxId
  /\ nextId' = nextId + 1
  /\ req' = [req EXCEPT ![r] = WithId(@, nextId, since)]
  /\ born' = Append(born, born[req[r].session.id])
  /\ UNCHANGED <<now, store, issued, destroyed, rotated, evicted, shared>>

\* Mutant: a rotation starts the session's life again.
RegenerateAfresh(r) == Handler(r) /\ GiveId(r, now)

RegenerateId(r) == Handler(r) /\ GiveId(r, req[r].session.created)

-----------------------------------------------------------------------------
(* SessionLayer::handle after next.run. *)

Goto(r, pc) == req' = [req EXCEPT ![r].pc = pc]

\* Mutant: only a destroyed session is removed.
FirstRevokeCurrent(q) == IF q.destroyed THEN "revoke current" ELSE "answering"

FirstRevoke(q) ==       \* original_id.filter(|orig| destroyed || *orig != id)
  IF q.destroyed \/ q.original # q.session.id THEN "revoke arriving" ELSE "answering"

NextRevoke(q) == IF q.destroyed THEN "revoke current" ELSE "answering"

Returned(r) ==          \* the response is Ok; take the snapshot
  /\ Handler(r)
  /\ Goto(r, IF req[r].modified THEN FirstRevoke(req[r]) ELSE "done")
  /\ Local

Abandoned(r) ==         \* a middleware Err, a timeout, a client that left
  /\ Handler(r)
  /\ Goto(r, "done")
  /\ Local

RevokeArriving(r) ==
  /\ req[r].pc = "revoke arriving"
  /\ store' = Without(store, {req[r].original})
  /\ Goto(r, NextRevoke(req[r]))
  /\ UNCHANGED <<now, nextId, issued, history>>

RevokeCurrent(r) ==
  /\ req[r].pc = "revoke current"
  /\ store' = Without(store, {req[r].session.id})
  /\ Goto(r, "answering")
  /\ UNCHANGED <<now, nextId, issued, history>>

AnswerDestroyed(r) ==   \* the deletion cookie
  /\ req[r].pc = "answering"
  /\ req[r].destroyed
  /\ Goto(r, "done")
  /\ destroyed' = destroyed \cup Ids(r)
  /\ UNCHANGED <<now, nextId, store, issued, rotated, evicted, shared, born>>

SaveUnder(r, id) ==
  \E kept \in Evicted(store, now, MaxSessions, IdleEviction) :
    /\ store' = Put(kept, id, [session |-> req[r].session, touched |-> now])
    /\ evicted' = (evicted \cup (DOMAIN store \ DOMAIN kept)) \ {id}

\* Mutant: the entry is saved under the id that the request arrived with.
SaveArriving(r) == SaveUnder(r, req[r].original)

\* Mutant: only a session that the store already knows is saved.
SaveKnown(r) ==
  IF req[r].session.id \in DOMAIN store THEN SaveUnder(r, req[r].session.id)
  ELSE UNCHANGED <<store, evicted>>

Save(r) == SaveUnder(r, req[r].session.id)

AnswerPersisted(r) ==   \* persist_session, then the Set-Cookie header
  /\ req[r].pc = "answering"
  /\ ~req[r].destroyed
  /\ IF StoreMode THEN Save(r) ELSE UNCHANGED <<store, evicted>>
  /\ issued' = issued \cup {Cookie(req[r].session)}
  /\ Goto(r, "done")
  /\ rotated' = IF req[r].original = req[r].session.id THEN rotated
                ELSE rotated \cup {<<r, req[r].original>>}
  /\ UNCHANGED <<now, nextId, destroyed, shared, born>>

-----------------------------------------------------------------------------
RequestStep(r) ==
  \/ StartFresh(r)
  \/ \E c \in issued : Resume(r, c) \/ Replace(r, c)
  \/ Insert(r) \/ Clear(r) \/ Destroy(r) \/ RegenerateId(r)
  \/ \E v \in Req : Remove(r, v)
  \/ Returned(r) \/ Abandoned(r)
  \/ RevokeArriving(r) \/ RevokeCurrent(r) \/ AnswerDestroyed(r) \/ AnswerPersisted(r)

Next == Tick \/ \E r \in Req : RequestStep(r)

Spec == Init /\ [][Next]_vars

-----------------------------------------------------------------------------
\* Ids that a completed response put an end to.
Ended == destroyed \cup {pair[2] : pair \in rotated}

\* Ids whose end the layer has begun to carry out.
Ending == UNION {Ids(r) : r \in {q \in Req : req[q].pc \in Active \ {"handling"}}}

\* The store never outgrows its capacity, whatever mix of new sessions,
\* rotations and concurrent saves fills it (evict_if_full before insert).
StoreBounded == Size(store) <= MaxSessions

\* What a request wrote before its id was rotated away from is never found
\* under the id it arrived with: whoever knows the earlier id sees nothing of
\* the login.  It holds with any overlap of requests, old saves included.
OldIdSeesNoLogin ==
  \A pair \in rotated :
    /\ pair[2] \in DOMAIN store => pair[1] \notin store[pair[2]].session.data
    /\ \A r \in Req \ {pair[1]} :
         req[r].session.id = pair[2] => pair[1] \notin req[r].session.data

\* A cookie that the server set names a session that is still stored, unless
\* it was ended, is being ended, or was evicted to make room: no request makes
\* another client's session vanish.
CookieHasSession ==
  StoreMode => \A c \in issued :
                 c.id \in DOMAIN store \cup Ended \cup Ending \cup evicted

\* In store mode, a session that a response declared over, by destroy or by
\* rotation, comes back only if another request had it in hand meanwhile.
EndedUnlessShared == StoreMode => (Ended \ shared) \cap DOMAIN store = {}

\* And no later request is served it: the cookie from before leads to a new
\* session.
EndedNotServed ==
  [][StoreMode => \A r \in Req :
       req[r].pc = "new" /\ req'[r].pc = "handling"
         => req'[r].original \notin Ended \ shared]_vars

\* A session reaches a handler only within max_age of its first creation, in
\* spite of rotations, saves and reloads in between.
NoImmortalSession ==
  [][\A r \in Req :
       req[r].pc = "new" /\ req'[r].pc = "handling"
         => now <= born'[req'[r].original] + MaxAge]_vars

-----------------------------------------------------------------------------
(* What the project's documents say, and the code does not do. *)

\* README, store.rs: destroying or rotating a session removes it, so that
\* stolen cookies die immediately.
EndedStaysEnded == Ended \cap DOMAIN store = {}

\* data.rs: values of any type are stored; manager.rs: a cookie that the server
\* signed is read back, unless it is too old.
WrittenIsReadBack ==
  ~StoreMode => \A c \in issued : Usable(c) \/ Expired(Payload(c))

=============================================================================
