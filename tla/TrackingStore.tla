--------------------------- MODULE TrackingStore ---------------------------
(***************************************************************************)
(* The tracker history and its files (tracking/, persistence/snapshots.py  *)
(* and the constructors and flush_tracking of both services).  Request     *)
(* threads count in memory, one tracker after another, each under its own  *)
(* lock and under the day it reads there.  flush_tracking saves the        *)
(* trackers one after another: it exports a tracker under that tracker's   *)
(* lock, then takes the backend's lock, writes a temporary file and moves  *)
(* it over the old one.  The process may crash between any two steps; the  *)
(* constructors load the files again.                                      *)
(*                                                                         *)
(* The services of one process share a data directory.  A figure stands    *)
(* for everything one lock section of a tracker counts; models and keys    *)
(* are not told apart.  Lifetime totals, rolling windows and the request   *)
(* tracker are never saved and are left out.                               *)
(***************************************************************************)
EXTENDS Integers, Sequences

CONSTANTS
  Services,   (* "groq", "gemini": those the process has constructed       *)
  Recorders,  (* threads that send requests, by any service                *)
  Flushers,   (* threads that call flush_tracking, of any service          *)
  NoThread,   (* the holder of a free lock                                 *)
  Days,       (* calendar days, 1..Days                                    *)
  MaxCount    (* bound on the requests ever counted                        *)

ASSUME StoreAssumption ==
  /\ Services \subseteq {"groq", "gemini"}
  /\ NoThread \notin Flushers
  /\ Days \in Nat \ {0}
  /\ MaxCount \in Nat

VARIABLES
  up,        (* the process runs                                           *)
  today,     (* today_str()                                                *)
  mem,       (* day buckets of the trackers of each service                *)
  todo,      (* figures a request thread has still to count, and where     *)
  flush,     (* where each call of flush_tracking is                       *)
  buffer,    (* what export_days returned to it                            *)
  began,     (* the day buckets when it was called; history                *)
  lock,      (* the lock of each backend: its holder                       *)
  disk,      (* the file of each backend                                   *)
  promised,  (* what completed flushes have promised to keep; history      *)
  requests   (* requests ever counted: only bounds the model               *)

memvars == <<mem, todo>>

flushvars == <<flush, buffer, began, lock>>

vars == <<up, today, memvars, flushvars, disk, promised, requests>>

Trackers == <<"usage", "tokens", "account">>

(* The figures and the tracker of each; tokens_in and tokens_out have a    *)
(* lock section each.                                                      *)
TrackerOf ==
  [requests |-> "usage", tokens_in |-> "tokens", tokens_out |-> "tokens",
   uses |-> "account"]

Cells == (DOMAIN TrackerOf) \X (1..Days)

CellsOf ==
  [t \in {"usage", "tokens", "account"} |-> {c \in Cells : TrackerOf[c[1]] = t}]

Nothing == [c \in Cells |-> 0]

(* Mutant of FileOf: the namespace of PathConfig is ignored.               *)
FileOfAll(s, t) == <<"", t>>

(* GeminiConfig puts its namespace in front of the file names.             *)
FileOf(s, t) == IF s = "gemini" THEN <<"gemini_", t>> ELSE <<"", t>>

Files == {FileOf(s, Trackers[i]) : s \in Services, i \in DOMAIN Trackers}

(* What load_days puts into the trackers of a service.                     *)
Loaded(s) == [c \in Cells |-> disk[FileOf(s, TrackerOf[c[1]])][c]]

Phase == {"idle", "export", "acquire", "write", "replace"}

Idle == [phase |-> "idle", service |-> "", turn |-> 1]

NoWork == [service |-> "", figures |-> <<>>]

Init ==
  /\ up = TRUE
  /\ today = 1
  /\ mem = [s \in Services |-> Nothing]
  /\ todo = [r \in Recorders |-> NoWork]
  /\ flush = [f \in Flushers |-> Idle]
  /\ buffer = [f \in Flushers |-> Nothing]
  /\ began = [f \in Flushers |-> Nothing]
  /\ lock = [p \in Files |-> NoThread]
  /\ disk = [p \in Files |-> Nothing]
  /\ promised = [s \in Services |-> Nothing]
  /\ requests = 0

-----------------------------------------------------------------------------

(* What TrackingManager counts after the usage tracker: nothing more for a *)
(* failure, no tokens where the response reports none.                     *)
Rest ==
  {<<>>, <<"uses">>, <<"tokens_in", "uses">>, <<"tokens_out", "uses">>,
   <<"tokens_in", "tokens_out", "uses">>}

Work(s, figures) ==
  IF figures = <<>> THEN NoWork ELSE [service |-> s, figures |-> figures]

CountIn(s, g) == mem' = [mem EXCEPT ![s][<<g, today>>] = @ + 1]

RecordUsage(r, s) ==
  /\ up
  /\ todo[r] = NoWork
  /\ requests < MaxCount
  /\ requests' = requests + 1
  /\ CountIn(s, "requests")
  /\ \E rest \in Rest : todo' = [todo EXCEPT ![r] = Work(s, rest)]
  /\ UNCHANGED <<up, today, flushvars, disk, promised>>

(* Each tracker reads the day again: a request may straddle midnight.      *)
RecordNext(r) ==
  LET w == todo[r] IN
  /\ w # NoWork
  /\ CountIn(w.service, Head(w.figures))
  /\ todo' = [todo EXCEPT ![r] = Work(w.service, Tail(w.figures))]
  /\ UNCHANGED <<up, today, flushvars, disk, promised, requests>>

-----------------------------------------------------------------------------

TrackerAt(f) == Trackers[flush[f].turn]

BackendOf(f) == FileOf(flush[f].service, TrackerAt(f))

Enter(f, p) == flush' = [flush EXCEPT ![f].phase = p]

BeginFlush(f, s) ==
  /\ up
  /\ flush[f] = Idle
  /\ flush' = [flush EXCEPT ![f] = [phase |-> "export", service |-> s, turn |-> 1]]
  /\ began' = [began EXCEPT ![f] = mem[s]]
  /\ UNCHANGED <<up, today, memvars, buffer, lock, disk, promised, requests>>

(* export_days is evaluated before save_all takes the backend's lock.      *)
Export(f) ==
  /\ flush[f].phase = "export"
  /\ buffer' = [buffer EXCEPT ![f] =
       [c \in Cells |-> IF c \in CellsOf[TrackerAt(f)]
                          THEN mem[flush[f].service][c] ELSE 0]]
  /\ Enter(f, "acquire")
  /\ UNCHANGED <<up, today, memvars, began, lock, disk, promised, requests>>

AcquireBackend(f) ==
  /\ flush[f].phase = "acquire"
  /\ lock[BackendOf(f)] = NoThread
  /\ lock' = [lock EXCEPT ![BackendOf(f)] = f]
  /\ Enter(f, "write")
  /\ UNCHANGED <<up, today, memvars, buffer, began, disk, promised, requests>>

(* Mutant of WriteTemp: the file itself is opened for writing, which       *)
(* empties it.                                                             *)
WriteInPlace(f) ==
  /\ flush[f].phase = "write"
  /\ Enter(f, "replace")
  /\ disk' = [disk EXCEPT ![BackendOf(f)] = Nothing]
  /\ UNCHANGED <<up, today, memvars, buffer, began, lock, promised, requests>>

(* mkstemp and json.dump leave the file alone.                             *)
WriteTemp(f) ==
  /\ flush[f].phase = "write"
  /\ Enter(f, "replace")
  /\ UNCHANGED <<up, today, memvars, buffer, began, lock, disk, promised, requests>>

(* flush_tracking returns or raises: its locals are gone.                  *)
Leave(f) ==
  /\ flush' = [flush EXCEPT ![f] = Idle]
  /\ buffer' = [buffer EXCEPT ![f] = Nothing]
  /\ began' = [began EXCEPT ![f] = Nothing]

(* Mutant of WriteFails: the backend's lock is not released.               *)
WriteFailsLocked(f) ==
  /\ flush[f].phase \in {"write", "replace"}
  /\ Leave(f)
  /\ UNCHANGED <<up, today, memvars, lock, disk, promised, requests>>

(* An OSError becomes a PersistenceError: the temporary file is removed,   *)
(* and the trackers that come later are not saved.                         *)
WriteFails(f) ==
  /\ flush[f].phase \in {"write", "replace"}
  /\ lock' = [lock EXCEPT ![BackendOf(f)] = NoThread]
  /\ Leave(f)
  /\ UNCHANGED <<up, today, memvars, disk, promised, requests>>

Larger(a, b) == [c \in Cells |-> IF a[c] > b[c] THEN a[c] ELSE b[c]]

(* Mutant of LastTracker: it looks for one more.                           *)
LastTrackerMissed(f) == flush[f].turn > Len(Trackers)

LastTracker(f) == flush[f].turn = Len(Trackers)

(* os.replace is atomic.  After the last tracker flush_tracking returns.   *)
Replace(f) ==
  LET s == flush[f].service IN
  /\ flush[f].phase = "replace"
  /\ disk' = [disk EXCEPT ![BackendOf(f)] = buffer[f]]
  /\ lock' = [lock EXCEPT ![BackendOf(f)] = NoThread]
  /\ IF LastTracker(f)
       THEN /\ Leave(f)
            /\ promised' = [promised EXCEPT ![s] = Larger(@, began[f])]
       ELSE /\ flush' = [flush EXCEPT ![f].turn = @ + 1, ![f].phase = "export"]
            /\ buffer' = [buffer EXCEPT ![f] = Nothing]
            /\ UNCHANGED <<began, promised>>
  /\ UNCHANGED <<up, today, memvars, requests>>

-----------------------------------------------------------------------------

(* Memory and locks are gone; a temporary file may be left behind.         *)
Crash ==
  /\ up
  /\ up' = FALSE
  /\ mem' = [s \in Services |-> Nothing]
  /\ todo' = [r \in Recorders |-> NoWork]
  /\ flush' = [f \in Flushers |-> Idle]
  /\ buffer' = [f \in Flushers |-> Nothing]
  /\ began' = [f \in Flushers |-> Nothing]
  /\ lock' = [p \in Files |-> NoThread]
  /\ UNCHANGED <<today, disk, promised, requests>>

(* Mutant of Restart: the history is not loaded.                           *)
RestartEmpty ==
  /\ ~up
  /\ up' = TRUE
  /\ UNCHANGED <<today, memvars, flushvars, disk, promised, requests>>

(* The constructors run before any thread can use the services.            *)
Restart ==
  /\ ~up
  /\ up' = TRUE
  /\ mem' = [s \in Services |-> Loaded(s)]
  /\ UNCHANGED <<today, todo, flushvars, disk, promised, requests>>

Midnight ==
  /\ today < Days
  /\ today' = today + 1
  /\ UNCHANGED <<up, memvars, flushvars, disk, promised, requests>>

-----------------------------------------------------------------------------

FlushStep(f) ==
  Export(f) \/ AcquireBackend(f) \/ WriteTemp(f) \/ WriteFails(f) \/ Replace(f)

Next ==
  \/ \E r \in Recorders : RecordNext(r) \/ \E s \in Services : RecordUsage(r, s)
  \/ \E f \in Flushers : FlushStep(f) \/ \E s \in Services : BeginFlush(f, s)
  \/ Crash \/ Restart \/ Midnight

Spec == Init /\ [][Next]_vars

(* A thread that flushes is scheduled, and the file system answers it.     *)
FairSpec == Spec /\ \A f \in Flushers : WF_vars(FlushStep(f))

-----------------------------------------------------------------------------

Ledger == [Cells -> Nat]

(* Type invariant.                                                         *)
StoreTypeOK ==
  /\ up \in BOOLEAN
  /\ today \in 1..Days
  /\ mem \in [Services -> Ledger]
  /\ todo \in [Recorders -> [service : Services \cup {""}, figures : Rest]]
  /\ flush \in [Flushers -> [phase : Phase, service : Services \cup {""},
                             turn : DOMAIN Trackers]]
  /\ buffer \in [Flushers -> Ledger]
  /\ began \in [Flushers -> Ledger]
  /\ lock \in [Files -> Flushers \cup {NoThread}]
  /\ disk \in [Files -> Ledger]
  /\ promised \in [Services -> Ledger]
  /\ requests \in 0..MaxCount

(* What a service has counted; after a crash, what its files hold.         *)
Live(s) == IF up THEN mem[s] ELSE Loaded(s)

Counts == INSTANCE DurableCounts WITH
  Counters <- Services \X Cells,
  Groups <- {{s} \X CellsOf[Trackers[i]] : s \in Services, i \in DOMAIN Trackers},
  live <- [x \in Services \X Cells |-> Live(x[1])[x[2]]],
  saved <- [x \in Services \X Cells |-> Loaded(x[1])[x[2]]]

(* With one thread that flushes, the files of every service are durable    *)
(* counters (flush_tracker, load_tracker): no save takes a count back or   *)
(* invents one, and a restart finds what was saved, though the trackers    *)
(* are saved one by one, requests are counted meanwhile, a write may fail  *)
(* and the process may crash at any step.                                  *)
ImplementsDurableCounts == Counts!Spec

(* flush_tracking: "Call this periodically or before process shutdown to   *)
(* avoid losing in-memory data."  Once a flush has returned, whatever had  *)
(* been counted when it was called is in the files, and stays there.       *)
FlushedIsDurable ==
  \A s \in Services, c \in Cells : Loaded(s)[c] >= promised[s][c]

(* A flush ends, whatever fails in it or in an earlier one: JSONPersistence*)
(* releases its lock on every way out.                                     *)
FlushEnds ==
  \A f \in Flushers : (flush[f].phase # "idle") ~> (flush[f].phase = "idle")

=============================================================================
