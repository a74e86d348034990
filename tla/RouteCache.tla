----------------------------- MODULE RouteCache -----------------------------
(***************************************************************************)
(* Routes snapped to roads by the Google Routes API and cached in the      *)
(* table route_cache: get_or_compute_trip_route of services/route_cache    *)
(* for a completed trip, snap_path of routers/route for way points, and    *)
(* LockRegistry and call_google_routes_api of services/google_routes.      *)
(* Requests of one process interleave at every await and take an           *)
(* asyncio.Lock per cache key.  route_cache.cache_key is unique, and so is *)
(* the current link of a trip.                                             *)
(***************************************************************************)
EXTENDS Integers, Sequences, FiniteSets

CONSTANTS
  Requests,
  Asks,           \* what a request asks: records [kind, key, trip]
  Trips,          \* completed trips, each always with the same key
  NoTrip,         \* trip of a snap_path request
  MaxAttempts,    \* max_retries
  MaxRestarts     \* bound: restarts of the process

ASSUME RouteConstants ==
  /\ \A a \in Asks : \/ a.kind = "trip" /\ a.trip \in Trips
                     \/ a.kind = "snap" /\ a.trip = NoTrip
  /\ \A a, b \in Asks : a.key = b.key => a.kind = b.kind
  /\ \A a, b \in Asks : a.trip = b.trip /\ a.trip # NoTrip => a.key = b.key
  /\ NoTrip \notin Trips \cup Requests
  /\ MaxAttempts \in Nat \ {0}

VARIABLES
  enabled,        \* GOOGLE_ROUTES_ENABLED and an API key
  row,            \* table route_cache: status by key, "none" without a row
  link,           \* trips with a current row in trip_route_cache_links
  trips,          \* rows of table trips; a rebuild deletes them
  registry,       \* LockRegistry: the request that made the lock of a key
  queue,          \* each lock: its holder and then the waiting requests
  req,            \* each request: its next step and what it asked
  usage,          \* google_route_usage_events of type API_CALL, by request
  restarts

routeVars == <<enabled, row, link, trips, registry, queue, req, usage, restarts>>

Keys == {a.key : a \in Asks}
NoAsk == [kind |-> "none", key |-> "none", trip |-> NoTrip]
NoLock == NoTrip

Waiting == {"looking", "calling", "saving", "auditing", "failing"}

RouteInit ==
  /\ enabled \in BOOLEAN
  /\ row = [k \in Keys |-> "none"]
  /\ link = {}
  /\ trips = Trips
  /\ registry = [k \in Keys |-> NoLock]
  /\ queue = [r \in Requests |-> <<>>]
  /\ req = [r \in Requests |-> [pc |-> "idle", ask |-> NoAsk, lock |-> NoLock,
                                tries |-> 0, got |-> "none"]]
  /\ usage = [r \in Requests |-> 0]
  /\ restarts = 0

-----------------------------------------------------------------------------
Key(r) == req[r].ask.key
OfTrip(r) == req[r].ask.kind = "trip"
At(r, pc) == req[r].pc = pc
Go(r, pc) == req' = [req EXCEPT ![r].pc = pc]
Holds(r) == req[r].lock # NoLock /\ queue[req[r].lock] # <<>>
            /\ Head(queue[req[r].lock]) = r

\* Leaving `async with lock`: the next waiter takes it, first come first
\* served.  The request is answered.  (FaultFinish forgets to leave.)
FaultFinish(r, answer) ==
  /\ UNCHANGED queue
  /\ req' = [req EXCEPT ![r].pc = "done", ![r].got = answer, ![r].lock = NoLock]

Finish(r, answer) ==
  /\ queue' = [queue EXCEPT ![req[r].lock] = Tail(@)]
  /\ req' = [req EXCEPT ![r].pc = "done", ![r].got = answer, ![r].lock = NoLock]

\* remove_lock: forgets the lock of the key unless it is locked.  It is called
\* inside the block that holds the lock.  (FaultRemoveLock omits that check.)
FaultRemoveLock(key) == registry' = [registry EXCEPT ![key] = NoLock]

RemoveLock(key) ==
  registry' = [registry EXCEPT ![key] =
                 IF @ # NoLock /\ queue[@] = <<>> THEN NoLock ELSE @]

\* What the SELECT finds for the key: snap_path wants a successful row.
Cached(r) ==
  IF OfTrip(r) THEN row[Key(r)] # "none" ELSE row[Key(r)] = "success"

\* get_or_compute_trip_route before the lock: the trip, then its current link.
ArriveTrip(r) ==
  /\ At(r, "idle")
  /\ \E a \in Asks :
       /\ a.kind = "trip"
       /\ req' = [req EXCEPT ![r] =
            [@ EXCEPT !.ask = a,
                      !.pc = IF a.trip \in trips /\ a.trip \notin link
                             THEN "locking" ELSE "done",
                      !.got = CASE a.trip \notin trips -> "not found"
                                [] a.trip \in link -> row[a.key]
                                [] OTHER -> "none"]]
  /\ UNCHANGED <<enabled, row, link, trips, registry, queue, usage, restarts>>

\* snap_path before the lock.
ArriveSnap(r) ==
  /\ At(r, "idle")
  /\ \E a \in Asks :
       /\ a.kind = "snap"
       /\ req' = [req EXCEPT ![r] =
            IF row[a.key] = "success"
            THEN [@ EXCEPT !.ask = a, !.pc = "done", !.got = "success"]
            ELSE [@ EXCEPT !.ask = a, !.pc = "locking"]]
  /\ UNCHANGED <<enabled, row, link, trips, registry, queue, usage, restarts>>

\* get_lock, and the wait for it.
GetLock(r) ==
  /\ At(r, "locking")
  /\ LET lock == IF registry[Key(r)] = NoLock THEN r ELSE registry[Key(r)]
     IN  /\ registry' = [registry EXCEPT ![Key(r)] = lock]
         /\ queue' = [queue EXCEPT ![lock] = Append(@, r)]
         /\ req' = [req EXCEPT ![r].pc = "looking", ![r].lock = lock]
  /\ UNCHANGED <<enabled, row, link, trips, usage, restarts>>

\* The row is there now.  A trip gets its link, unless another request linked
\* it meanwhile or a rebuild deleted it: then the commit fails.
HitInLock(r) ==
  /\ At(r, "looking") /\ Holds(r)
  /\ Cached(r)
  /\ \/ /\ OfTrip(r) => req[r].ask.trip \in trips \ link
        /\ link' = IF OfTrip(r) THEN link \cup {req[r].ask.trip} ELSE link
        /\ Finish(r, row[Key(r)])
     \/ /\ OfTrip(r) /\ req[r].ask.trip \notin trips \ link
        /\ Finish(r, "error")
        /\ UNCHANGED link
  /\ UNCHANGED <<enabled, row, trips, registry, usage, restarts>>

Miss(r) ==
  /\ At(r, "looking") /\ Holds(r)
  /\ ~Cached(r)
  /\ IF enabled THEN Go(r, "calling") /\ UNCHANGED queue
                ELSE Finish(r, "disabled")
  /\ UNCHANGED <<enabled, row, link, trips, registry, usage, restarts>>

\* Whether another attempt is left.  (FaultMayRetry counts one too many.)
FaultMayRetry(r) == req[r].tries < MaxAttempts

MayRetry(r) == req[r].tries + 1 < MaxAttempts

\* One attempt of call_google_routes_api: an answer with or without a route, a
\* permanent error, or a timeout or 5xx that is retried a bounded number of
\* times.
Attempt(r) ==
  /\ At(r, "calling")
  /\ \/ \E status \in {"success", "failed"} :
          req' = [req EXCEPT ![r].pc = "saving", ![r].got = status]
     \/ Go(r, "failing")
     \/ IF MayRetry(r)
        THEN req' = [req EXCEPT ![r].tries = @ + 1]
        ELSE Go(r, "failing")
  /\ UNCHANGED <<enabled, row, link, trips, registry, queue, usage, restarts>>

\* The row and, for a trip, its link are committed, or the commit fails: the
\* key has a row already, the trip is gone, or the database refuses.
Save(r) ==
  /\ At(r, "saving")
  /\ row[Key(r)] = "none"
  /\ OfTrip(r) => req[r].ask.trip \in trips \ link
  /\ row' = [row EXCEPT ![Key(r)] = req[r].got]
  /\ link' = IF OfTrip(r) THEN link \cup {req[r].ask.trip} ELSE link
  /\ Go(r, "auditing")
  /\ UNCHANGED <<enabled, trips, registry, queue, usage, restarts>>

\* A trip request does not roll back: log_usage_event then fails as well, and
\* swallows its failure, so the call leaves no usage event.
SaveFails(r) ==
  /\ At(r, "saving")
  /\ IF OfTrip(r)
     THEN RemoveLock(Key(r)) /\ Finish(r, "error")
     ELSE Go(r, "failing") /\ UNCHANGED <<registry, queue>>
  /\ UNCHANGED <<enabled, row, link, trips, usage, restarts>>

\* The usage event of a saved call; snap_path raises for a call without a route
\* and so logs it once more.
Audit(r) ==
  /\ At(r, "auditing")
  /\ usage' = [usage EXCEPT ![r] = @ + 1]
  /\ IF ~OfTrip(r) /\ req[r].got = "failed"
     THEN Go(r, "failing") /\ UNCHANGED <<registry, queue>>
     ELSE /\ Finish(r, req[r].got)
          /\ IF OfTrip(r) THEN RemoveLock(Key(r)) ELSE UNCHANGED registry
  /\ UNCHANGED <<enabled, row, link, trips, restarts>>

\* The except block: it logs the failed call and raises.
CallFails(r) ==
  /\ At(r, "failing")
  /\ usage' = [usage EXCEPT ![r] = @ + 1]
  /\ Finish(r, "error")
  /\ IF OfTrip(r) THEN RemoveLock(Key(r)) ELSE UNCHANGED registry
  /\ UNCHANGED <<enabled, row, link, trips, restarts>>

\* rebuild_vehicle_trips deletes the trips of the vehicle; their links go too.
DeleteTrip(t) ==
  /\ t \in trips
  /\ trips' = trips \ {t}
  /\ link' = link \ {t}
  /\ UNCHANGED <<enabled, row, registry, queue, req, usage, restarts>>

\* The process ends: requests in flight, locks and registry are gone.
Restart ==
  /\ restarts < MaxRestarts
  /\ restarts' = restarts + 1
  /\ registry' = [k \in Keys |-> NoLock]
  /\ queue' = [r \in Requests |-> <<>>]
  /\ req' = [r \in Requests |->
               IF req[r].pc \in {"idle", "done"} THEN req[r]
               ELSE [req[r] EXCEPT !.pc = "done", !.got = "lost", !.lock = NoLock]]
  /\ UNCHANGED <<enabled, row, link, trips, usage>>

Serve(r) ==
  \/ GetLock(r) \/ HitInLock(r) \/ Miss(r) \/ Attempt(r)
  \/ Save(r) \/ SaveFails(r) \/ Audit(r) \/ CallFails(r)

RouteNext ==
  \/ \E r \in Requests : ArriveTrip(r) \/ ArriveSnap(r) \/ Serve(r)
  \/ \E t \in Trips : DeleteTrip(t)
  \/ Restart

RouteSpec == RouteInit /\ [][RouteNext]_routeVars

-----------------------------------------------------------------------------
RouteTypeOK ==
  /\ enabled \in BOOLEAN
  /\ row \in [Keys -> {"none", "success", "failed"}]
  /\ link \subseteq trips /\ trips \subseteq Trips
  /\ registry \in [Keys -> Requests \cup {NoLock}]
  /\ queue \in [Requests -> Seq(Requests)]
  /\ usage \in [Requests -> 0 .. 2]
  /\ \A r \in Requests :
       /\ req[r].pc \in Waiting \cup {"idle", "locking", "done"}
       /\ req[r].tries < MaxAttempts

\* A route is asked of Google by one request at a time, never once a route is
\* stored under its key, and never again for a trip whose answer was stored.
\* It rests on the second look inside the lock, and on the registry keeping a
\* lock that requests still hold or wait for.
OneCallPerKey ==
  \A r \in Requests :
    At(r, "calling") \/ At(r, "saving")
      => /\ row[Key(r)] # "success"
         /\ OfTrip(r) => row[Key(r)] = "none"
         /\ \A q \in Requests \ {r} :
              Key(q) = Key(r) => ~At(q, "calling") /\ ~At(q, "saving")

\* A lock is never left behind: the head of every queue is a request that is
\* working under that lock, the others wait for it, and no request waits for
\* a lock that the registry has replaced by another one.
LocksPassedOn ==
  /\ \A q \in Requests : \A i \in DOMAIN queue[q] :
       /\ req[queue[q][i]].lock = q
       /\ i > 1 => At(queue[q][i], "looking")
  /\ \A r \in Requests :
       req[r].pc \in Waiting => /\ \E i \in DOMAIN queue[req[r].lock] :
                                    queue[req[r].lock][i] = r
                               /\ registry[Key(r)] = req[r].lock

\* The promise of the lock registry.
NoStampede == OneCallPerKey /\ LocksPassedOn
=============================================================================
