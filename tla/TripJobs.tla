------------------------------ MODULE TripJobs ------------------------------
(***************************************************************************)
(* The telemetry jobs of one vehicle as the transactions they are, and a   *)
(* rebuild of its trips among them.  Every job (background_jobs.py) and    *)
(* the rebuild request has a session of its own at READ COMMITTED: its     *)
(* queries see what is committed and what it flushed itself, its objects   *)
(* keep the columns they were loaded with, a flush writes the columns that *)
(* differ from those and waits for rows that another session has written   *)
(* or deleted.  TripEngine takes one job at a time; here they overlap.     *)
(*                                                                         *)
(* The order of two flushes that both update the row of the vehicle is     *)
(* left open: this is every order its lock allows, and more.               *)
(***************************************************************************)
EXTENDS TripRules, FiniteSets

CONSTANTS
  Jobs,           \* job sessions that can overlap
  Arrivals,       \* the coordinates packets carry
  MaxPackets      \* bound on the number of packets

ASSUME JobConstants ==
  /\ Arrivals \subseteq Coordinate
  /\ MaxPackets \in Nat
  /\ "rebuild" \notin Jobs

VARIABLES
  rows,           \* committed table trips of the vehicle: id -> Trip
  located,        \* committed table locations, in the order of the commits
  lastId,         \* last value of the sequence of the trip ids
  arrived,        \* number of packets whose job has begun
  session,        \* the session of every job and of the rebuild
  serial          \* no two jobs have overlapped, and no rebuild was begun

jobVars == <<rows, located, lastId, arrived, session, serial>>

Rebuild  == "rebuild"
Sessions == Jobs \cup {Rebuild}

Empty == <<>>

\* The entries of f, and those of g that f does not have.
Over(f, g) == [i \in DOMAIN f \cup DOMAIN g |-> IF i \in DOMAIN f THEN f[i] ELSE g[i]]

(***************************************************************************)
(* loaded and now are the columns of a session's Trip objects, as they     *)
(* were loaded or flushed last and as they are; mine is what the session   *)
(* wrote and gone what it deleted, both locked until it ends.  selected    *)
(* is the trip that the last select returned, todo the locations a rebuild *)
(* has yet to evaluate.                                                    *)
(***************************************************************************)
Closed == [at |-> "closed", packet |-> Empty, selected |-> {}, loaded |-> Empty,
           now |-> Empty, mine |-> Empty, gone |-> {}, todo |-> {}]

JobsInit ==
  /\ rows = Empty
  /\ located = <<>>
  /\ lastId = 0
  /\ arrived = 0
  /\ session = [x \in Sessions |-> Closed]
  /\ serial = TRUE

-----------------------------------------------------------------------------
Seen(s) == Over(s.mine, [i \in DOMAIN rows \ s.gone |-> rows[i]])

\* select(Trip) where is_active, limit 1, without an order: any active row.
Selections(s) ==
  LET active == ActiveIn(Seen(s))
  IN  IF active = {} THEN {{}} ELSE {{i} : i \in active}

\* The identity map: an object that is already there keeps its columns.
Load(s, ids) ==
  LET fresh == [i \in ids |-> Seen(s)[i]]
  IN  [s EXCEPT !.selected = ids, !.loaded = Over(@, fresh), !.now = Over(@, fresh)]

FaultWrite(row, loaded, now) == now

\* UPDATE of the columns that changed since they were loaded.
Write(row, loaded, now) ==
  [c \in DOMAIN row |-> IF now[c] = loaded[c] THEN row[c] ELSE now[c]]

Dirty(s) == {i \in DOMAIN s.now : s.now[i] # s.loaded[i]}

LockedBy(x) == DOMAIN session[x].mine \cup session[x].gone

\* A rebuild is requested once; the sessions of the jobs are used again.
Ended(x) == IF x = Rebuild THEN [Closed EXCEPT !.at = "done"] ELSE Closed

(***************************************************************************)
(* The flush of session x with the objects s.  It waits for the rows that  *)
(* others hold; an update that then matches no row is a StaleDataError,    *)
(* which nobody survives: see Fail.                                        *)
(***************************************************************************)
CanFlush(x, s) ==
  /\ Dirty(s) \subseteq DOMAIN Seen(s)
  /\ \A y \in Sessions \ {x} : Dirty(s) \cap LockedBy(y) = {}

Flushed(s) ==
  [s EXCEPT !.loaded = s.now,
            !.mine   = Over([i \in Dirty(s) |->
                               Write(Seen(s)[i], s.loaded[i], s.now[i])], @)]

(***************************************************************************)
(* evaluate_coordinate_for_trip in session x, whose select has returned    *)
(* s.selected.  A new trip is inserted and flushed at once.                *)
(***************************************************************************)
EvaluateIn(x, s, p, moving) ==
  LET old  == IF s.selected = {} THEN <<>>
              ELSE <<s.now[CHOOSE i \in s.selected : TRUE]>>
      new  == Evaluated(old, DOMAIN old, p, moving)
      kept == [s EXCEPT !.now = Over([i \in s.selected |-> new[1]], @)]
      made == [i \in {lastId + 1} |-> new[Len(new)]]
  IN  IF Len(new) = Len(old)
      THEN session' = [session EXCEPT ![x] = kept] /\ UNCHANGED lastId
      ELSE /\ CanFlush(x, kept)
           /\ lastId' = lastId + 1
           /\ session' = [session EXCEPT ![x] =
                [Flushed(kept) EXCEPT !.mine = Over(made, @), !.loaded = Over(made, @),
                                      !.now  = Over(made, @)]]

\* The objects of session x are flushed, and its transaction is committed.
CommitOf(x, s) ==
  /\ CanFlush(x, s)
  /\ rows' = Over(Flushed(s).mine, [i \in DOMAIN rows \ s.gone |-> rows[i]])
  /\ session' = [session EXCEPT ![x] = Ended(x)]

-----------------------------------------------------------------------------
\* A job begins and selects the active trip of its vehicle.
BeginJob(j, p) ==
  /\ session[j].at = "closed"
  /\ arrived < MaxPackets
  /\ arrived' = arrived + 1
  /\ serial' = (serial /\ \A k \in Jobs : session[k].at = "closed")
  /\ \E ids \in Selections(Closed) :
       session' = [session EXCEPT ![j] =
                     [Load(Closed, ids) EXCEPT !.at = "selected", !.packet = p]]
  /\ UNCHANGED <<rows, located, lastId>>

\* Its own location is visible if an event of the packet has flushed it.
EvaluateJob(j) ==
  /\ session[j].at = "selected"
  /\ LET p == session[j].packet
     IN  \E flushed \in BOOLEAN :
           EvaluateIn(j, [session[j] EXCEPT !.at = "evaluated"], p,
                      Moving(IF flushed THEN Append(located, p) ELSE located))
  /\ UNCHANGED <<rows, located, arrived, serial>>

\* The packet reports the end of the route: the active trip is selected again.
CompleteRoute(j) ==
  /\ session[j].at = "evaluated"
  /\ \E ids \in Selections(session[j]) :
       LET s == Load(session[j], ids)
       IN  session' = [session EXCEPT ![j] =
             [s EXCEPT !.at  = "completed",
                       !.now = Over([i \in ids |-> RouteClose(s.now[i], s.packet, TRUE)], @)]]
  /\ UNCHANGED <<rows, located, lastId, arrived, serial>>

CommitJob(j) ==
  /\ session[j].at \in {"evaluated", "completed"}
  /\ CommitOf(j, session[j])
  /\ located' = Append(located, session[j].packet)
  /\ UNCHANGED <<lastId, arrived, serial>>

(***************************************************************************)
(* A rollback: a row that was deleted, a deadlock that the database breaks *)
(* or any other error of a statement.  The location is lost with the rest. *)
(***************************************************************************)
FailJob(j) ==
  /\ session[j].at # "closed"
  /\ session' = [session EXCEPT ![j] = Closed]
  /\ UNCHANGED <<rows, located, lastId, arrived, serial>>

-----------------------------------------------------------------------------
\* The DELETE waits for rows that a job has flushed, and does not see its inserts.
BeginRebuild ==
  /\ session[Rebuild].at = "closed"
  /\ serial' = FALSE
  /\ \A j \in Jobs : DOMAIN rows \cap LockedBy(j) = {}
  /\ session' = [session EXCEPT ![Rebuild] =
                   [Closed EXCEPT !.at = "deleted", !.gone = DOMAIN rows]]
  /\ UNCHANGED <<rows, located, lastId, arrived>>

SelectLocations ==
  /\ session[Rebuild].at = "deleted"
  /\ session' = [session EXCEPT ![Rebuild].at = "loop",
                                ![Rebuild].todo = DOMAIN located]
  /\ UNCHANGED <<rows, located, lastId, arrived, serial>>

\* One iteration of the loop, in the order of the timestamps.
RebuildNext ==
  /\ session[Rebuild].at = "loop"
  /\ \E n \in session[Rebuild].todo :
       /\ \A m \in session[Rebuild].todo : located[n].ts <= located[m].ts
       /\ \E ids \in Selections(session[Rebuild]) :
            EvaluateIn(Rebuild, [Load(session[Rebuild], ids) EXCEPT !.todo = @ \ {n}],
                       located[n], Moving(located))
  /\ UNCHANGED <<rows, located, arrived, serial>>

\* The trip that is still active is closed, whoever has started it.
CommitRebuild ==
  /\ session[Rebuild].at = "loop"
  /\ session[Rebuild].todo = {}
  /\ \E ids \in Selections(session[Rebuild]) :
       LET s == Load(session[Rebuild], ids)
       IN  CommitOf(Rebuild, [s EXCEPT !.now =
                                Over([i \in ids |-> Close(s.now[i], "COMPLETED")], @)])
  /\ UNCHANGED <<located, lastId, arrived, serial>>

FailRebuild ==
  /\ session[Rebuild].at \in {"deleted", "loop"}
  /\ session' = [session EXCEPT ![Rebuild] = Ended(Rebuild)]
  /\ UNCHANGED <<rows, located, lastId, arrived, serial>>

JobsNext ==
  \/ \E j \in Jobs :
       \/ \E p \in Arrivals : BeginJob(j, p)
       \/ EvaluateJob(j)
       \/ CompleteRoute(j)
       \/ CommitJob(j)
       \/ FailJob(j)
  \/ BeginRebuild
  \/ SelectLocations
  \/ RebuildNext
  \/ CommitRebuild
  \/ FailRebuild

JobsSpec == JobsInit /\ [][JobsNext]_jobVars

-----------------------------------------------------------------------------
JobsTypeOK ==
  /\ \A i \in DOMAIN rows : i \in 1 .. lastId /\ rows[i] \in Trip
  /\ located \in Seq(Arrivals)
  /\ Len(located) <= arrived
  /\ \A x \in Sessions : /\ DOMAIN session[x].now = DOMAIN session[x].loaded
                         /\ session[x].selected \subseteq DOMAIN session[x].now
                         /\ session[x].todo \subseteq DOMAIN located
  /\ serial \in BOOLEAN

(***************************************************************************)
(* However sessions overlap and fail, a trip and the locations it was made *)
(* of are committed together: it starts and ends at a stored location, and *)
(* its status and its flag tell the same.                                  *)
(***************************************************************************)
TripsRestOnLocations ==
  /\ JobsTypeOK
  /\ \A i \in DOMAIN rows :
       /\ {rows[i].start_time, rows[i].end_time} \subseteq
            {located[n].ts : n \in DOMAIN located}
       /\ rows[i].is_active <=> rows[i].status = "ACTIVE"

\* What TripEngine sees of the tables: the trips in the order of their ids, each
\* at the place of the number of ids up to its own.
Committed ==
  LET place(i) == Cardinality({k \in DOMAIN rows : k <= i})
  IN  [n \in 1 .. Cardinality(DOMAIN rows) |->
         rows[CHOOSE i \in DOMAIN rows : place(i) = n]]

Newest == IF located = <<>> THEN -1
          ELSE CHOOSE t \in Times :
                 /\ \E n \in DOMAIN located : located[n].ts = t
                 /\ \A n \in DOMAIN located : located[n].ts <= t

Engine == INSTANCE TripEngine WITH
  RouteReports <- BOOLEAN,
  MaxLocations <- MaxPackets,
  trips        <- Committed,
  moving       <- Moving(located),
  newest       <- Newest,
  inOrder      <- \A n \in 2 .. Len(located) :
                    \A m \in 1 .. n - 1 : located[m].ts <= located[n].ts,
  stored       <- Len(located)

(***************************************************************************)
(* Jobs that do not overlap, failed ones among them, do to the tables what *)
(* TripEngine says.  Overlapping ones lose updates and may leave several   *)
(* trips active, but none, nor a rebuild, opens a closed trip again.       *)
(***************************************************************************)
JobsRespectTheEngine ==
  [][/\ serial' /\ located' # located => Engine!Next
     /\ serial' /\ located' = located => rows' = rows
     /\ \A i \in DOMAIN rows \cap DOMAIN rows' :
          rows'[i].is_active => rows[i].is_active
     /\ TripsRestOnLocations']_jobVars
=============================================================================
