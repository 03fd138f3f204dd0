------------------------ MODULE TrackingStoreProofs ------------------------
(***************************************************************************)
(* Theorems about TrackingStore, for any services, threads, days and       *)
(* number of requests: the types for any number of flushing threads, and   *)
(* durability for one, since two may overwrite each other's files.         *)
(***************************************************************************)
EXTENDS TrackingStore, TLAPS

OneFlusher == \A f, g \in Flushers : f = g

Names == {"usage", "tokens", "account"}

LEMMA TrackersOfFigures ==
  /\ DOMAIN TrackerOf = {"requests", "tokens_in", "tokens_out", "uses"}
  /\ \A g \in DOMAIN TrackerOf : TrackerOf[g] \in Names
  BY DEF TrackerOf, Names

LEMMA TrackersInOrder ==
  /\ Len(Trackers) = 3
  /\ DOMAIN Trackers = 1..3
  /\ Trackers[1] = "usage" /\ Trackers[2] = "tokens" /\ Trackers[3] = "account"
  BY DEF Trackers

LEMMA CellsAreTracked ==
  /\ \A c \in Cells : TrackerOf[c[1]] \in Names
  /\ \A t \in Names, c \in Cells : c \in CellsOf[t] <=> TrackerOf[c[1]] = t
  /\ \A t \in Names : CellsOf[t] \subseteq Cells
<1>1. \A c \in Cells : c[1] \in DOMAIN TrackerOf
  BY DEF Cells
<1> QED
  BY <1>1, TrackersOfFigures DEF CellsOf, Names

(* A service has a file for each tracker, and shares none.                 *)
LEMMA FilesApart ==
  ASSUME NEW s \in Services, NEW r \in Services, NEW t, NEW u,
         FileOf(s, t) = FileOf(r, u)
  PROVE  s = r /\ t = u
  BY StoreAssumption DEF FileOf

LEMMA FilesOfTrackers ==
  \A s \in Services, t \in Names : FileOf(s, t) \in Files
  BY TrackersInOrder DEF Files, Names

LEMMA RestShrinks ==
  /\ <<>> \in Rest
  /\ \A figures \in Rest \ {<<>>} :
       Head(figures) \in DOMAIN TrackerOf /\ Tail(figures) \in Rest
<1>1. ASSUME NEW figures \in Rest \ {<<>>}
      PROVE  Head(figures) \in DOMAIN TrackerOf /\ Tail(figures) \in Rest
  <2>1. CASE figures = <<"uses">>
    BY <2>1, TrackersOfFigures DEF Rest
  <2>2. CASE figures = <<"tokens_in", "uses">>
    BY <2>2, TrackersOfFigures DEF Rest
  <2>3. CASE figures = <<"tokens_out", "uses">>
    BY <2>3, TrackersOfFigures DEF Rest
  <2>4. CASE figures = <<"tokens_in", "tokens_out", "uses">>
    BY <2>4, TrackersOfFigures DEF Rest
  <2> QED
    BY <1>1, <2>1, <2>2, <2>3, <2>4 DEF Rest
<1> QED
  BY <1>1 DEF Rest

-----------------------------------------------------------------------------

(* Types, and who is at work for which service.                            *)
Working ==
  \A r \in Recorders :
    todo[r] # NoWork => todo[r].service \in Services /\ todo[r].figures # <<>>

Flushing ==
  \A f \in Flushers :
    IF flush[f].phase = "idle" THEN flush[f] = Idle ELSE flush[f].service \in Services

TInv == StoreTypeOK /\ Working /\ Flushing

LEMMA Bounds == Days \in Nat /\ 1 <= Days /\ MaxCount \in Nat
  BY StoreAssumption

LEMMA Numbers == TInv => today \in 1..Days /\ requests \in 0..MaxCount
  BY DEF TInv, StoreTypeOK

LEMMA IdleTypes ==
  /\ Idle \in [phase : Phase, service : Services \cup {""}, turn : DOMAIN Trackers]
  /\ Idle.phase = "idle"
  BY TrackersInOrder DEF Idle, Phase

LEMMA NoWorkTypes == NoWork \in [service : Services \cup {""}, figures : Rest]
  BY RestShrinks DEF NoWork

LEMMA NothingIsLedger == Nothing \in Ledger
  BY DEF Nothing, Ledger

LEMMA InitTInv == Init => TInv
<1> SUFFICES ASSUME Init PROVE TInv
  OBVIOUS
<1>1. today \in 1..Days /\ requests \in 0..MaxCount
  BY Bounds DEF Init
<1>2. StoreTypeOK
  BY <1>1, NothingIsLedger, IdleTypes, NoWorkTypes DEF Init, StoreTypeOK
<1>3. Working /\ Flushing
  BY IdleTypes DEF Init, Working, Flushing
<1> QED
  BY <1>2, <1>3 DEF TInv

(* What the work of a request thread is after it has counted.              *)
LEMMA WorkLeft ==
  ASSUME NEW s \in Services, NEW figures \in Rest
  PROVE  /\ Work(s, figures) \in [service : Services \cup {""}, figures : Rest]
         /\ Work(s, figures) # NoWork
              => Work(s, figures).service \in Services /\ Work(s, figures).figures # <<>>
  BY RestShrinks DEF Work, NoWork

LEMMA CountedIn ==
  ASSUME TInv, NEW s \in Services, NEW g \in DOMAIN TrackerOf, CountIn(s, g)
  PROVE  /\ mem' \in [Services -> Ledger]
         /\ <<g, today>> \in Cells
         /\ \A r \in Services, c \in Cells :
              mem'[r][c] = IF r = s /\ c = <<g, today>> THEN mem[r][c] + 1 ELSE mem[r][c]
<1> DEFINE x == <<g, today>>
<1>1. x \in Cells
  BY Numbers DEF Cells
<1>2. mem \in [Services -> Ledger] /\ mem[s] \in Ledger
  BY DEF TInv, StoreTypeOK
<1>3. mem' = [mem EXCEPT ![s] = [mem[s] EXCEPT ![x] = mem[s][x] + 1]]
  BY DEF CountIn
<1> HIDE DEF x
<1>4. [mem[s] EXCEPT ![x] = mem[s][x] + 1] \in Ledger
  BY <1>1, <1>2 DEF Ledger
<1>5. /\ mem' \in [Services -> Ledger]
      /\ \A r \in Services, c \in Cells :
           mem'[r][c] = IF r = s /\ c = x THEN mem[r][c] + 1 ELSE mem[r][c]
  BY <1>1, <1>2, <1>3, <1>4 DEF Ledger
<1> QED
  BY <1>1, <1>5 DEF x

LEMMA RecordUsageTypes ==
  ASSUME TInv, NEW r \in Recorders, NEW s \in Services, RecordUsage(r, s)
  PROVE  TInv'
<1>1. mem' \in [Services -> Ledger]
  BY CountedIn, TrackersOfFigures DEF RecordUsage
<1>2. requests' \in 0..MaxCount
  BY Bounds, Numbers DEF RecordUsage
<1>3. PICK rest \in Rest : todo' = [todo EXCEPT ![r] = Work(s, rest)]
  BY DEF RecordUsage
<1>4. /\ todo' \in [Recorders -> [service : Services \cup {""}, figures : Rest]]
      /\ Working'
  BY <1>3, WorkLeft DEF TInv, StoreTypeOK, Working
<1>5. UNCHANGED <<up, today, flushvars, disk, promised>>
  BY DEF RecordUsage
<1> QED
  BY <1>1, <1>2, <1>4, <1>5 DEF TInv, StoreTypeOK, Flushing, flushvars

LEMMA WorkAtHand ==
  ASSUME TInv, NEW r \in Recorders, todo[r] # NoWork
  PROVE  /\ todo[r].service \in Services
         /\ todo[r].figures \in Rest \ {<<>>}
         /\ Head(todo[r].figures) \in DOMAIN TrackerOf
         /\ Tail(todo[r].figures) \in Rest
  BY RestShrinks DEF TInv, StoreTypeOK, Working

LEMMA RecordNextTypes ==
  ASSUME TInv, NEW r \in Recorders, RecordNext(r)
  PROVE  TInv'
<1> DEFINE w == todo[r]
<1>1. w.service \in Services /\ Head(w.figures) \in DOMAIN TrackerOf /\ Tail(w.figures) \in Rest
  BY WorkAtHand DEF RecordNext
<1>2. mem' \in [Services -> Ledger]
  BY <1>1, CountedIn DEF RecordNext
<1>3. todo' = [todo EXCEPT ![r] = Work(w.service, Tail(w.figures))]
  BY DEF RecordNext
<1>4. /\ todo' \in [Recorders -> [service : Services \cup {""}, figures : Rest]]
      /\ Working'
  BY <1>1, <1>3, WorkLeft DEF TInv, StoreTypeOK, Working
<1>5. UNCHANGED <<up, today, flushvars, disk, promised, requests>>
  BY DEF RecordNext
<1> QED
  BY <1>2, <1>4, <1>5 DEF TInv, StoreTypeOK, Flushing, flushvars

LEMMA Turns ==
  ASSUME TInv, NEW f \in Flushers
  PROVE  flush[f].turn \in 1..3
<1>1. flush[f].turn \in DOMAIN Trackers
  BY DEF TInv, StoreTypeOK
<1> QED
  BY <1>1, TrackersInOrder

LEMMA AtTracker ==
  ASSUME TInv, NEW f \in Flushers
  PROVE  /\ TrackerAt(f) \in Names
         /\ flush[f].phase # "idle" =>
              flush[f].service \in Services /\ BackendOf(f) \in Files
<1>1. flush[f].turn \in {1, 2, 3}
  BY Turns
<1>2. TrackerAt(f) \in Names
  BY <1>1, TrackersInOrder DEF TrackerAt, Names
<1>3. flush[f].phase # "idle" => flush[f].service \in Services
  BY DEF TInv, Flushing
<1> QED
  BY <1>2, <1>3, FilesOfTrackers DEF BackendOf

LEMMA LeaveTypes ==
  ASSUME TInv, NEW f \in Flushers, Leave(f)
  PROVE  /\ flush' \in [Flushers -> [phase : Phase, service : Services \cup {""},
                                      turn : DOMAIN Trackers]]
         /\ buffer' \in [Flushers -> Ledger]
         /\ began' \in [Flushers -> Ledger]
         /\ Flushing'
  BY IdleTypes, NothingIsLedger DEF Leave, TInv, StoreTypeOK, Flushing

LEMMA LargerIsLedger ==
  ASSUME NEW a \in Ledger, NEW b \in Ledger
  PROVE  /\ Larger(a, b) \in Ledger
         /\ \A c \in Cells : Larger(a, b)[c] \in {a[c], b[c]}
  BY DEF Larger, Ledger

LEMMA FlushTypes ==
  ASSUME TInv, NEW f \in Flushers, FlushStep(f) \/ \E s \in Services : BeginFlush(f, s)
  PROVE  TInv'
<1> USE DEF TInv
<1>1. ASSUME NEW s \in Services, BeginFlush(f, s)
      PROVE  TInv'
  <2>1. began' \in [Flushers -> Ledger]
    BY <1>1 DEF BeginFlush, StoreTypeOK
  <2>2. [phase |-> "export", service |-> s, turn |-> 1] \in
          [phase : Phase, service : Services \cup {""}, turn : DOMAIN Trackers]
    <3>1. 1 \in DOMAIN Trackers
      BY TrackersInOrder
    <3> QED
      BY <3>1 DEF Phase
  <2>3. /\ flush' \in [Flushers -> [phase : Phase, service : Services \cup {""},
                                     turn : DOMAIN Trackers]]
        /\ Flushing'
    BY <1>1, <2>2 DEF BeginFlush, StoreTypeOK, Flushing
  <2> QED
    BY <1>1, <2>1, <2>3 DEF BeginFlush, StoreTypeOK, Working, memvars
<1>2. CASE Export(f)
  <2>1. mem[flush[f].service] \in Ledger
    BY <1>2, AtTracker DEF Export, StoreTypeOK
  <2>2. [c \in Cells |-> IF c \in CellsOf[TrackerAt(f)]
                          THEN mem[flush[f].service][c] ELSE 0] \in Ledger
    BY <2>1 DEF Ledger
  <2>3. buffer' \in [Flushers -> Ledger]
    BY <1>2, <2>2 DEF Export, StoreTypeOK
  <2> QED
    BY <1>2, <2>3 DEF Export, Enter, StoreTypeOK, Working, Flushing, memvars, Phase
<1>3. CASE AcquireBackend(f)
  BY <1>3 DEF AcquireBackend, Enter, StoreTypeOK, Working, Flushing, memvars, Phase
<1>4. CASE WriteTemp(f)
  BY <1>4 DEF WriteTemp, Enter, StoreTypeOK, Working, Flushing, memvars, Phase
<1>5. CASE WriteFails(f)
  <2>1. lock' \in [Files -> Flushers \cup {NoThread}]
    BY <1>5 DEF WriteFails, StoreTypeOK
  <2>2. Leave(f) /\ UNCHANGED <<up, today, memvars, disk, promised, requests>>
    BY <1>5 DEF WriteFails
  <2> QED
    BY <2>1, <2>2, LeaveTypes DEF StoreTypeOK, Working, memvars
<1>6. CASE Replace(f)
  <2> DEFINE s == flush[f].service
  <2>1. s \in Services /\ BackendOf(f) \in Files
    BY <1>6, AtTracker DEF Replace
  <2>2. disk' \in [Files -> Ledger] /\ lock' \in [Files -> Flushers \cup {NoThread}]
    BY <1>6, <2>1 DEF Replace, StoreTypeOK
  <2>3. UNCHANGED <<up, today, memvars, requests>>
    BY <1>6 DEF Replace
  <2>4. CASE LastTracker(f)
    <3>1. Leave(f) /\ promised' = [promised EXCEPT ![s] = Larger(@, began[f])]
      BY <1>6, <2>4 DEF Replace
    <3>2. promised' \in [Services -> Ledger]
      BY <2>1, <3>1, LargerIsLedger DEF StoreTypeOK
    <3> QED
      BY <2>2, <2>3, <3>1, <3>2, LeaveTypes DEF StoreTypeOK, Working, memvars
  <2>5. CASE ~LastTracker(f)
    <3>1. /\ flush' = [flush EXCEPT ![f].turn = @ + 1, ![f].phase = "export"]
          /\ buffer' = [buffer EXCEPT ![f] = Nothing]
          /\ UNCHANGED <<began, promised>>
      BY <1>6, <2>5 DEF Replace
    <3>2. flush[f].turn + 1 \in DOMAIN Trackers
      <4>1. flush[f].turn \in 1..3
        BY TrackersInOrder DEF StoreTypeOK
      <4> QED
        BY <2>5, <4>1, TrackersInOrder DEF LastTracker
    <3>3. buffer' \in [Flushers -> Ledger]
      BY <3>1, NothingIsLedger DEF StoreTypeOK
    <3>4. /\ flush' \in [Flushers -> [phase : Phase, service : Services \cup {""},
                                       turn : DOMAIN Trackers]]
          /\ Flushing'
      <4> DEFINE n == flush[f].turn + 1
      <4>1. flush' = [flush EXCEPT ![f] = [@ EXCEPT !.turn = n, !.phase = "export"]]
        BY <3>1
      <4> HIDE DEF n
      <4>2. n \in DOMAIN Trackers
        BY <3>2 DEF n
      <4>3. flush' \in [Flushers -> [phase : Phase, service : Services \cup {""},
                                      turn : DOMAIN Trackers]]
        <5>1. flush \in [Flushers -> [phase : Phase, service : Services \cup {""},
                                      turn : DOMAIN Trackers]]
          BY DEF StoreTypeOK
        <5>2. "export" \in Phase
          BY DEF Phase
        <5> QED
          BY <4>1, <4>2, <5>1, <5>2
      <4>4. flush'[f].phase = "export" /\ flush'[f].service = s
        BY <4>1 DEF StoreTypeOK
      <4>5. \A g \in Flushers \ {f} : flush'[g] = flush[g]
        BY <4>1 DEF StoreTypeOK
      <4>6. Flushing'
        BY <2>1, <4>4, <4>5 DEF Flushing
      <4> QED
        BY <4>3, <4>6
    <3> QED
      BY <2>2, <2>3, <3>1, <3>3, <3>4 DEF StoreTypeOK, Working, memvars
  <2> QED
    BY <2>4, <2>5
<1> QED
  BY <1>1, <1>2, <1>3, <1>4, <1>5, <1>6 DEF FlushStep

LEMMA LoadedIsLedger ==
  ASSUME TInv, NEW s \in Services
  PROVE  Loaded(s) \in Ledger
<1>1. ASSUME NEW c \in Cells
      PROVE  disk[FileOf(s, TrackerOf[c[1]])][c] \in Nat
  <2>1. disk[FileOf(s, TrackerOf[c[1]])] \in Ledger
    BY CellsAreTracked, FilesOfTrackers DEF TInv, StoreTypeOK
  <2> QED
    BY <2>1 DEF Ledger
<1> QED
  BY <1>1 DEF Loaded, Ledger

LEMMA OtherTypes ==
  ASSUME TInv, Crash \/ Restart \/ Midnight
  PROVE  TInv'
<1>1. CASE Crash
  <2> USE <1>1, NothingIsLedger DEF Crash
  <2>1. StoreTypeOK'
    BY IdleTypes, NoWorkTypes DEF TInv, StoreTypeOK
  <2>2. Working' /\ Flushing'
    BY IdleTypes DEF Working, Flushing
  <2> QED
    BY <2>1, <2>2 DEF TInv
<1>2. CASE Restart
  BY <1>2, LoadedIsLedger DEF Restart, TInv, StoreTypeOK, Working, Flushing, flushvars
<1>3. CASE Midnight
  <2>1. today' \in 1..Days
    BY <1>3, Bounds, Numbers DEF Midnight
  <2> QED
    BY <1>3, <2>1
       DEF Midnight, TInv, StoreTypeOK, Working, Flushing, memvars, flushvars
<1> QED
  BY <1>1, <1>2, <1>3

LEMMA TInvStep == TInv /\ [Next]_vars => TInv'
<1> SUFFICES ASSUME TInv, [Next]_vars PROVE TInv'
  OBVIOUS
<1>1. CASE UNCHANGED vars
  BY <1>1 DEF vars, memvars, flushvars, TInv, StoreTypeOK, Working, Flushing
<1>2. CASE Next
  BY <1>2, RecordUsageTypes, RecordNextTypes, FlushTypes, OtherTypes DEF Next
<1> QED
  BY <1>1, <1>2

LEMMA AlwaysTInv == Spec => []TInv
  BY InitTInv, TInvStep, PTL DEF Spec

(* Every reachable state of the store has the declared types, whatever     *)
(* number of threads flush.                                                *)
THEOREM StoreTypeCorrect == Spec => []StoreTypeOK
<1>1. TInv => StoreTypeOK
  BY DEF TInv
<1> QED
  BY <1>1, AlwaysTInv, PTL

-----------------------------------------------------------------------------

(* With one flushing thread, the files are never ahead of the memory, what *)
(* was promised is in the files, and a flush carries each tracker forward: *)
(* what it has exported lies between the file it will replace and the      *)
(* memory, and covers what had been counted when the flush began.          *)
Down ==
  ~up => /\ \A r \in Recorders : todo[r] = NoWork
         /\ \A f \in Flushers : flush[f] = Idle

DiskBehind == up => \A s \in Services, c \in Cells : Loaded(s)[c] <= mem[s][c]

Behind(f, c) == began[f][c] <= mem[flush[f].service][c]

SavedBefore(f, c) ==
  (\E i \in 1..3 : i < flush[f].turn /\ TrackerOf[c[1]] = Trackers[i])
    => began[f][c] <= Loaded(flush[f].service)[c]

Exported(f, c) ==
  flush[f].phase # "export" /\ TrackerOf[c[1]] = TrackerAt(f)
    => /\ Loaded(flush[f].service)[c] <= buffer[f][c]
       /\ buffer[f][c] <= mem[flush[f].service][c]
       /\ began[f][c] <= buffer[f][c]

FlushSound(f) ==
  flush[f].phase # "idle" =>
    \A c \in Cells : Behind(f, c) /\ SavedBefore(f, c) /\ Exported(f, c)

DInv ==
  /\ Down
  /\ DiskBehind
  /\ FlushedIsDurable
  /\ \A f \in Flushers : FlushSound(f)

LEMMA Naturals ==
  ASSUME TInv, NEW c \in Cells
  PROVE  /\ \A s \in Services :
              mem[s][c] \in Nat /\ Loaded(s)[c] \in Nat /\ promised[s][c] \in Nat
         /\ \A f \in Flushers : began[f][c] \in Nat /\ buffer[f][c] \in Nat
<1>1. /\ mem \in [Services -> Ledger] /\ promised \in [Services -> Ledger]
      /\ began \in [Flushers -> Ledger] /\ buffer \in [Flushers -> Ledger]
  BY DEF TInv, StoreTypeOK
<1>2. \A a \in Ledger : a[c] \in Nat
  BY DEF Ledger
<1> QED
  BY <1>1, <1>2, LoadedIsLedger

LEMMA PromisesAreNaturals ==
  TInv' => \A s \in Services, c \in Cells : promised'[s][c] \in Nat
<1> SUFFICES ASSUME TInv' PROVE \A s \in Services, c \in Cells : promised'[s][c] \in Nat
  OBVIOUS
<1>1. promised' \in [Services -> Ledger]
  BY DEF TInv, StoreTypeOK
<1>2. \A a \in Ledger, c \in Cells : a[c] \in Nat
  BY DEF Ledger
<1> QED
  BY <1>1, <1>2

LEMMA SameFiles == UNCHANGED disk => \A s \in Services : Loaded(s)' = Loaded(s)
  BY DEF Loaded

LEMMA InitDInv == Init => DInv
<1> SUFFICES ASSUME Init PROVE DInv
  OBVIOUS
<1>1. \A s \in Services, c \in Cells :
        Loaded(s)[c] = 0 /\ mem[s][c] = 0 /\ promised[s][c] = 0
  BY CellsAreTracked, FilesOfTrackers DEF Init, Loaded, Nothing
<1>2. \A f \in Flushers : flush[f].phase = "idle"
  BY IdleTypes DEF Init
<1> QED
  BY <1>1, <1>2 DEF Init, DInv, Down, DiskBehind, FlushedIsDurable, FlushSound

(* Counting moves the memory away from files and flushes.                  *)
LEMMA CountingKeeps ==
  ASSUME TInv, TInv', DInv, up, up',
         UNCHANGED <<flushvars, disk, promised>>,
         \A s \in Services, c \in Cells : mem[s][c] <= mem'[s][c]
  PROVE  DInv'
<1>1. \A s \in Services : Loaded(s)' = Loaded(s)
  BY SameFiles
<1> \A s \in Services, c \in Cells : mem'[s][c] \in Nat
  <2>1. mem' \in [Services -> Ledger]
    BY DEF TInv, StoreTypeOK
  <2>2. \A a \in Ledger, c \in Cells : a[c] \in Nat
    BY DEF Ledger
  <2> QED
    BY <2>1, <2>2
<1>2. Down'
  BY DEF Down
<1>3. DiskBehind'
  <2> SUFFICES ASSUME NEW s \in Services, NEW c \in Cells
               PROVE  Loaded(s)'[c] <= mem'[s][c]
    BY DEF DiskBehind
  <2>1. Loaded(s)[c] <= mem[s][c]
    BY DEF DInv, DiskBehind
  <2> QED
    BY <1>1, <2>1, Naturals
<1>4. FlushedIsDurable'
  BY <1>1 DEF DInv, FlushedIsDurable
<1>5. ASSUME NEW f \in Flushers
      PROVE  FlushSound(f)'
  <2> SUFFICES ASSUME flush'[f].phase # "idle", NEW c \in Cells
               PROVE  (Behind(f, c) /\ SavedBefore(f, c) /\ Exported(f, c))'
    BY DEF FlushSound
  <2>1. flush'[f] = flush[f] /\ began'[f] = began[f] /\ buffer'[f] = buffer[f]
    BY DEF flushvars
  <2>2. flush[f].service \in Services
    BY <2>1, AtTracker
  <2>3. Behind(f, c) /\ SavedBefore(f, c) /\ Exported(f, c)
    BY <2>1 DEF DInv, FlushSound
  <2>4. mem[flush[f].service][c] <= mem'[flush[f].service][c]
    BY <2>2
  <2>5. Behind(f, c)'
    BY <2>1, <2>2, <2>3, <2>4, Naturals DEF Behind
  <2>6. SavedBefore(f, c)'
    BY <1>1, <2>1, <2>2, <2>3 DEF SavedBefore
  <2>7. Exported(f, c)'
    BY <1>1, <2>1, <2>2, <2>3, <2>4, Naturals DEF Exported, TrackerAt
  <2> QED
    BY <2>5, <2>6, <2>7
<1> QED
  BY <1>2, <1>3, <1>4, <1>5 DEF DInv

(* A step of a request thread counts one figure.                           *)
LEMMA RecordingCounts ==
  ASSUME TInv, DInv, NEW r \in Recorders,
         RecordNext(r) \/ \E s \in Services : RecordUsage(r, s)
  PROVE  /\ up /\ up'
         /\ UNCHANGED <<flushvars, disk, promised>>
         /\ \E s \in Services, g \in DOMAIN TrackerOf : CountIn(s, g)
<1>1. CASE RecordNext(r)
  BY <1>1, WorkAtHand DEF RecordNext, DInv, Down
<1>2. CASE \E s \in Services : RecordUsage(r, s)
  BY <1>2, TrackersOfFigures DEF RecordUsage
<1> QED
  BY <1>1, <1>2

LEMMA RecordingStep ==
  ASSUME TInv, TInv', DInv, NEW r \in Recorders,
         RecordNext(r) \/ \E s \in Services : RecordUsage(r, s)
  PROVE  DInv'
<1>1. PICK s \in Services, g \in DOMAIN TrackerOf : CountIn(s, g)
  BY RecordingCounts
<1>2. \A t \in Services, c \in Cells : mem[t][c] <= mem'[t][c]
  <2> SUFFICES ASSUME NEW t \in Services, NEW c \in Cells
               PROVE  mem[t][c] <= mem'[t][c]
    OBVIOUS
  <2>1. mem[t][c] \in Nat
    BY Naturals
  <2>2. mem'[t][c] = mem[t][c] \/ mem'[t][c] = mem[t][c] + 1
    BY <1>1, CountedIn
  <2> QED
    BY <2>1, <2>2
<1> QED
  BY <1>2, RecordingCounts, CountingKeeps

(* What is left of the invariant when neither memory nor files change: the *)
(* flush that makes the step.                                              *)
LEMMA QuietFlush ==
  ASSUME TInv, TInv', DInv, OneFlusher, NEW f \in Flushers,
         up, up', UNCHANGED <<mem, disk, promised>>, FlushSound(f)'
  PROVE  DInv'
<1>1. \A s \in Services : Loaded(s)' = Loaded(s)
  BY SameFiles
<1>2. Down' /\ DiskBehind' /\ FlushedIsDurable'
  BY <1>1 DEF DInv, Down, DiskBehind, FlushedIsDurable
<1>3. \A g \in Flushers : FlushSound(g)'
  BY DEF OneFlusher
<1> QED
  BY <1>2, <1>3 DEF DInv

LEMMA FlushRunsUp ==
  ASSUME DInv, NEW f \in Flushers, flush[f].phase # "idle"
  PROVE  up
  BY IdleTypes DEF DInv, Down

LEMMA IdleIsSound ==
  ASSUME NEW f \in Flushers, flush[f].phase = "idle"
  PROVE  FlushSound(f)
  BY DEF FlushSound

LEMMA BeginStep ==
  ASSUME TInv, TInv', DInv, OneFlusher, NEW f \in Flushers, NEW s \in Services,
         BeginFlush(f, s)
  PROVE  DInv'
<1>1. /\ flush'[f] = [phase |-> "export", service |-> s, turn |-> 1]
      /\ began'[f] = mem[s]
      /\ up /\ up' /\ UNCHANGED <<mem, disk, promised>>
  BY DEF BeginFlush, memvars, TInv, StoreTypeOK
<1>2. ASSUME NEW c \in Cells
      PROVE  (Behind(f, c) /\ SavedBefore(f, c) /\ Exported(f, c))'
  BY <1>1, Naturals DEF Behind, SavedBefore, Exported
<1>3. FlushSound(f)'
  BY <1>2 DEF FlushSound
<1> QED
  BY <1>1, <1>3, QuietFlush

LEMMA ExportStep ==
  ASSUME TInv, TInv', DInv, OneFlusher, NEW f \in Flushers, Export(f)
  PROVE  DInv'
<1> DEFINE s == flush[f].service
<1>1. flush[f].phase # "idle" /\ s \in Services /\ TrackerAt(f) \in Names
  BY AtTracker DEF Export
<1>2. up
  BY <1>1, FlushRunsUp
<1>3. /\ flush'[f].phase = "acquire"
      /\ flush'[f].service = s
      /\ flush'[f].turn = flush[f].turn
      /\ up' /\ UNCHANGED <<mem, began, disk, promised>>
  BY <1>2 DEF Export, Enter, memvars, TInv, StoreTypeOK
<1>4. \A c \in Cells :
        buffer'[f][c] = IF c \in CellsOf[TrackerAt(f)] THEN mem[s][c] ELSE 0
  BY DEF Export, TInv, StoreTypeOK
<1>5. ASSUME NEW c \in Cells
      PROVE  (Behind(f, c) /\ SavedBefore(f, c) /\ Exported(f, c))'
  <2>1. Behind(f, c) /\ SavedBefore(f, c)
    BY <1>1 DEF DInv, FlushSound
  <2>2. Loaded(s)' = Loaded(s)
    BY <1>1, <1>3, SameFiles
  <2>3. Loaded(s)[c] <= mem[s][c]
    BY <1>1, <1>2 DEF DInv, DiskBehind
  <2>4. Behind(f, c)' /\ SavedBefore(f, c)'
    BY <1>3, <2>1, <2>2 DEF Behind, SavedBefore
  <2>5. TrackerAt(f)' = TrackerAt(f)
    BY <1>3 DEF TrackerAt
  <2>6. ASSUME TrackerOf[c[1]] = TrackerAt(f)
        PROVE  /\ Loaded(s)[c] <= buffer'[f][c]
               /\ buffer'[f][c] <= mem[s][c]
               /\ began[f][c] <= buffer'[f][c]
    <3>1. buffer'[f][c] = mem[s][c]
      BY <1>1, <1>4, <2>6, CellsAreTracked
    <3> QED
      BY <1>1, <2>1, <2>3, <3>1, Naturals DEF Behind
  <2>7. Exported(f, c)'
    BY <1>3, <2>2, <2>5, <2>6 DEF Exported
  <2> QED
    BY <2>4, <2>7
<1>6. FlushSound(f)'
  BY <1>5 DEF FlushSound
<1> QED
  BY <1>2, <1>3, <1>6, QuietFlush

LEMMA AcquireOrWriteStep ==
  ASSUME TInv, TInv', DInv, OneFlusher, NEW f \in Flushers,
         AcquireBackend(f) \/ WriteTemp(f)
  PROVE  DInv'
<1> DEFINE s == flush[f].service
<1>1. flush[f].phase \notin {"idle", "export"}
  BY DEF AcquireBackend, WriteTemp
<1>2. up /\ s \in Services
  BY <1>1, FlushRunsUp, AtTracker
<1>3. /\ flush'[f].phase \in {"write", "replace"}
      /\ flush'[f].service = s
      /\ flush'[f].turn = flush[f].turn
      /\ up' /\ UNCHANGED <<mem, buffer, began, disk, promised>>
  <2> USE <1>2 DEF Enter, memvars, TInv, StoreTypeOK
  <2>1. CASE AcquireBackend(f)
    BY <2>1 DEF AcquireBackend
  <2>2. CASE WriteTemp(f)
    BY <2>2 DEF WriteTemp
  <2> QED
    BY <2>1, <2>2
<1>4. ASSUME NEW c \in Cells
      PROVE  (Behind(f, c) /\ SavedBefore(f, c) /\ Exported(f, c))'
  <2>1. Behind(f, c) /\ SavedBefore(f, c) /\ Exported(f, c)
    BY <1>1 DEF DInv, FlushSound
  <2>2. Loaded(s)' = Loaded(s) /\ TrackerAt(f)' = TrackerAt(f)
    BY <1>2, <1>3, SameFiles DEF TrackerAt
  <2> QED
    BY <1>1, <1>3, <2>1, <2>2 DEF Behind, SavedBefore, Exported
<1>5. FlushSound(f)'
  BY <1>4 DEF FlushSound
<1> QED
  BY <1>2, <1>3, <1>5, QuietFlush

LEMMA FailStep ==
  ASSUME TInv, TInv', DInv, OneFlusher, NEW f \in Flushers, WriteFails(f)
  PROVE  DInv'
<1>1. up /\ up' /\ UNCHANGED <<mem, disk, promised>>
  BY FlushRunsUp DEF WriteFails, memvars
<1>2. flush'[f].phase = "idle"
  BY IdleTypes DEF WriteFails, Leave, TInv, StoreTypeOK
<1>3. FlushSound(f)'
  BY <1>2 DEF FlushSound
<1> QED
  BY <1>1, <1>3, QuietFlush

(* What the files hold after one of them was replaced.                     *)
LEMMA ReplacedFile ==
  ASSUME TInv, NEW f \in Flushers, Replace(f)
  PROVE  \A s \in Services, c \in Cells :
           Loaded(s)'[c] = IF s = flush[f].service /\ TrackerOf[c[1]] = TrackerAt(f)
                             THEN buffer[f][c] ELSE Loaded(s)[c]
<1> SUFFICES ASSUME NEW s \in Services, NEW c \in Cells
             PROVE  Loaded(s)'[c] =
                      IF s = flush[f].service /\ TrackerOf[c[1]] = TrackerAt(f)
                        THEN buffer[f][c] ELSE Loaded(s)[c]
  OBVIOUS
<1> DEFINE p == FileOf(s, TrackerOf[c[1]])
<1>1. flush[f].service \in Services /\ BackendOf(f) \in Files
  BY AtTracker DEF Replace
<1>2. p \in Files
  BY CellsAreTracked, FilesOfTrackers
<1>3. disk' = [disk EXCEPT ![BackendOf(f)] = buffer[f]] /\ disk \in [Files -> Ledger]
  BY DEF Replace, TInv, StoreTypeOK
<1>4. Loaded(s)[c] = disk[p][c] /\ Loaded(s)'[c] = disk'[p][c]
  BY DEF Loaded
<1>5. p = BackendOf(f) <=> s = flush[f].service /\ TrackerOf[c[1]] = TrackerAt(f)
  BY <1>1, FilesApart DEF BackendOf
<1> QED
  BY <1>2, <1>3, <1>4, <1>5

(* The file that is replaced moves forward, and stays behind the memory.   *)
LEMMA ReplaceAdvances ==
  ASSUME TInv, DInv, NEW f \in Flushers, Replace(f)
  PROVE  \A s \in Services, c \in Cells :
           /\ Loaded(s)[c] <= Loaded(s)'[c]
           /\ Loaded(s)'[c] <= mem[s][c]
           /\ Loaded(s)'[c] \in Nat
<1> SUFFICES ASSUME NEW s \in Services, NEW c \in Cells
             PROVE  /\ Loaded(s)[c] <= Loaded(s)'[c]
                    /\ Loaded(s)'[c] <= mem[s][c]
                    /\ Loaded(s)'[c] \in Nat
  OBVIOUS
<1>1. flush[f].phase = "replace"
  BY DEF Replace
<1>2. up
  BY <1>1, FlushRunsUp
<1>3. Loaded(s)[c] \in Nat /\ mem[s][c] \in Nat /\ buffer[f][c] \in Nat
  BY Naturals
<1>4. CASE s = flush[f].service /\ TrackerOf[c[1]] = TrackerAt(f)
  <2>1. Exported(f, c)
    BY <1>1 DEF DInv, FlushSound
  <2>2. Loaded(s)[c] <= buffer[f][c] /\ buffer[f][c] <= mem[s][c]
    BY <1>1, <1>4, <2>1 DEF Exported
  <2>3. Loaded(s)'[c] = buffer[f][c]
    BY <1>4, ReplacedFile
  <2> QED
    BY <1>3, <2>2, <2>3
<1>5. CASE ~(s = flush[f].service /\ TrackerOf[c[1]] = TrackerAt(f))
  <2>1. Loaded(s)'[c] = Loaded(s)[c]
    BY <1>5, ReplacedFile
  <2>2. Loaded(s)[c] <= mem[s][c]
    BY <1>2 DEF DInv, DiskBehind
  <2> QED
    BY <1>3, <2>1, <2>2
<1> QED
  BY <1>4, <1>5

(* Once a tracker is replaced, the files cover what the flush began with,  *)
(* as far as the trackers up to this one go.                               *)
LEMMA ReplaceCovers ==
  ASSUME TInv, DInv, NEW f \in Flushers, Replace(f), NEW c \in Cells,
         NEW s \in Services, s = flush[f].service,
         NEW i \in 1..3, i <= flush[f].turn, TrackerOf[c[1]] = Trackers[i]
  PROVE  began[f][c] <= Loaded(s)'[c]
<1>1. flush[f].phase = "replace"
  BY DEF Replace
<1>2. SavedBefore(f, c) /\ Exported(f, c)
  BY <1>1 DEF DInv, FlushSound
<1>3. /\ began[f][c] \in Nat /\ Loaded(s)[c] \in Nat
      /\ Loaded(s)[c] <= Loaded(s)'[c] /\ Loaded(s)'[c] \in Nat
  BY Naturals, ReplaceAdvances
<1>4. CASE i = flush[f].turn
  <2>1. TrackerOf[c[1]] = TrackerAt(f)
    BY <1>4 DEF TrackerAt
  <2>2. Loaded(s)'[c] = buffer[f][c]
    BY <2>1, ReplacedFile
  <2> QED
    BY <1>1, <1>2, <2>1, <2>2 DEF Exported
<1>5. CASE i # flush[f].turn
  <2>1. flush[f].turn \in Nat
    BY Turns
  <2>2. i < flush[f].turn
    BY <1>5, <2>1
  <2>3. began[f][c] <= Loaded(s)[c]
    BY <1>2, <2>2 DEF SavedBefore
  <2> QED
    BY <1>3, <2>3
<1> QED
  BY <1>4, <1>5

LEMMA ReplaceStep ==
  ASSUME TInv, TInv', DInv, OneFlusher, NEW f \in Flushers, Replace(f)
  PROVE  DInv'
<1> DEFINE n == flush[f].turn
<1>1. flush[f].phase = "replace"
  BY DEF Replace
<1> PICK s \in Services : s = flush[f].service
  BY <1>1, AtTracker
<1>2. up /\ up' /\ mem' = mem
  BY <1>1, FlushRunsUp DEF Replace, memvars
<1>3. Down' /\ DiskBehind'
  BY <1>2, ReplaceAdvances DEF Down, DiskBehind
<1>4. \A r \in Services, c \in Cells : promised[r][c] <= Loaded(r)'[c]
  <2> SUFFICES ASSUME NEW r \in Services, NEW c \in Cells
               PROVE  promised[r][c] <= Loaded(r)'[c]
    OBVIOUS
  <2>1. promised[r][c] <= Loaded(r)[c]
    BY DEF DInv, FlushedIsDurable
  <2>2. promised[r][c] \in Nat /\ Loaded(r)[c] \in Nat
    BY Naturals
  <2>3. Loaded(r)[c] <= Loaded(r)'[c] /\ Loaded(r)'[c] \in Nat
    BY ReplaceAdvances
  <2> QED
    BY <2>1, <2>2, <2>3
<1>5. CASE LastTracker(f)
  <2>1. /\ flush' = [flush EXCEPT ![f] = Idle]
        /\ promised' = [promised EXCEPT ![s] = Larger(promised[s], began[f])]
    BY <1>5 DEF Replace, Leave
  <2>2. \A c \in Cells : began[f][c] <= Loaded(s)'[c]
    <3> SUFFICES ASSUME NEW c \in Cells
                 PROVE  began[f][c] <= Loaded(s)'[c]
      OBVIOUS
    <3>1. PICK i \in 1..3 : TrackerOf[c[1]] = Trackers[i]
      BY CellsAreTracked, TrackersInOrder DEF Names
    <3>2. i <= n
      BY <1>5, TrackersInOrder DEF LastTracker
    <3> QED
      BY <3>1, <3>2, ReplaceCovers
  <2>3. FlushedIsDurable'
    <3> SUFFICES ASSUME NEW r \in Services, NEW c \in Cells
                 PROVE  promised'[r][c] <= Loaded(r)'[c]
      <4>1. \A r \in Services, c \in Cells :
              /\ Loaded(r)'[c] \in Nat /\ promised'[r][c] \in Nat
        BY ReplaceAdvances, PromisesAreNaturals
      <4> QED
        BY <4>1 DEF FlushedIsDurable
    <3>1. promised[s] \in Ledger /\ began[f] \in Ledger
      BY DEF TInv, StoreTypeOK
    <3>2. CASE r = s
      <4>1. promised'[r] = Larger(promised[s], began[f])
        BY <2>1, <3>2 DEF TInv, StoreTypeOK
      <4>2. promised'[r][c] = promised[s][c] \/ promised'[r][c] = began[f][c]
        BY <3>1, <4>1, LargerIsLedger
      <4> QED
        BY <1>4, <2>2, <3>2, <4>2
    <3>3. CASE r # s
      BY <1>4, <2>1, <3>3 DEF TInv, StoreTypeOK
    <3> QED
      BY <3>2, <3>3
  <2>4. flush'[f].phase = "idle"
    BY <2>1, IdleTypes DEF TInv, StoreTypeOK
  <2>5. \A g \in Flushers : FlushSound(g)'
    BY <2>4 DEF FlushSound, OneFlusher
  <2> QED
    BY <1>3, <2>3, <2>5 DEF DInv
<1>6. CASE ~LastTracker(f)
  <2>1. /\ flush' = [flush EXCEPT ![f].turn = n + 1, ![f].phase = "export"]
        /\ UNCHANGED <<began, promised>>
    BY <1>6 DEF Replace
  <2>2. FlushedIsDurable'
    BY <1>4, <2>1 DEF FlushedIsDurable
  <2>3. /\ flush'[f].phase = "export" /\ flush'[f].service = s
        /\ flush'[f].turn = n + 1
    <3> HIDE DEF n
    <3>1. flush \in [Flushers -> [phase : Phase, service : Services \cup {""},
                                  turn : DOMAIN Trackers]]
      BY DEF TInv, StoreTypeOK
    <3> QED
      BY <2>1, <3>1
  <2>4. n \in Nat
    BY Turns
  <2>5. ASSUME NEW c \in Cells
        PROVE  (Behind(f, c) /\ SavedBefore(f, c) /\ Exported(f, c))'
    <3>1. Behind(f, c)
      BY <1>1 DEF DInv, FlushSound
    <3>2. Behind(f, c)'
      BY <1>2, <2>1, <2>3, <3>1 DEF Behind
    <3>3. \A i \in 1..3 : i < n + 1 => i <= n
      BY <2>4
    <3>4. SavedBefore(f, c)'
      BY <2>1, <2>3, <3>3, ReplaceCovers DEF SavedBefore
    <3>5. Exported(f, c)'
      BY <2>3 DEF Exported
    <3> QED
      BY <3>2, <3>4, <3>5
  <2>6. \A g \in Flushers : FlushSound(g)'
    BY <2>5 DEF FlushSound, OneFlusher
  <2> QED
    BY <1>3, <2>2, <2>6 DEF DInv
<1> QED
  BY <1>5, <1>6

LEMMA CrashStep ==
  ASSUME TInv, DInv, Crash
  PROVE  DInv'
<1>1. \A s \in Services : Loaded(s)' = Loaded(s)
  BY SameFiles DEF Crash
<1>2. \A f \in Flushers : flush'[f] = Idle
  BY DEF Crash
<1>3. \A r \in Recorders : todo'[r] = NoWork
  BY DEF Crash
<1>4. Down' /\ DiskBehind'
  BY <1>2, <1>3 DEF Crash, Down, DiskBehind
<1>5. FlushedIsDurable'
  BY <1>1 DEF Crash, DInv, FlushedIsDurable
<1>6. \A f \in Flushers : FlushSound(f)'
  BY <1>2, IdleTypes DEF FlushSound
<1> QED
  BY <1>4, <1>5, <1>6 DEF DInv

LEMMA RestartStep ==
  ASSUME TInv, DInv, Restart
  PROVE  DInv'
<1>1. \A s \in Services : Loaded(s)' = Loaded(s) /\ mem'[s] = Loaded(s)
  BY SameFiles DEF Restart
<1>2. \A f \in Flushers : flush'[f] = Idle
  BY DEF Restart, DInv, Down, flushvars
<1>3. Down' /\ DiskBehind'
  <2>1. \A s \in Services, c \in Cells : Loaded(s)[c] <= Loaded(s)[c]
    BY Naturals
  <2> QED
    BY <1>1, <2>1 DEF Restart, Down, DiskBehind
<1>4. FlushedIsDurable'
  BY <1>1 DEF Restart, DInv, FlushedIsDurable
<1>5. \A f \in Flushers : FlushSound(f)'
  BY <1>2, IdleTypes DEF FlushSound
<1> QED
  BY <1>3, <1>4, <1>5 DEF DInv

LEMMA QuietStep ==
  ASSUME TInv, DInv, UNCHANGED <<up, memvars, flushvars, disk, promised>>
  PROVE  DInv'
<1>1. \A s \in Services : Loaded(s)' = Loaded(s)
  BY SameFiles
<1>2. Down' /\ DiskBehind' /\ FlushedIsDurable'
  BY <1>1 DEF DInv, Down, DiskBehind, FlushedIsDurable, memvars, flushvars
<1>3. ASSUME NEW f \in Flushers
      PROVE  FlushSound(f)'
  <2> SUFFICES ASSUME flush[f].phase # "idle", NEW c \in Cells
               PROVE  (Behind(f, c) /\ SavedBefore(f, c) /\ Exported(f, c))'
    BY DEF FlushSound, flushvars
  <2>1. flush[f].service \in Services
    BY AtTracker
  <2>2. Behind(f, c) /\ SavedBefore(f, c) /\ Exported(f, c)
    BY DEF DInv, FlushSound
  <2>3. Loaded(flush[f].service)' = Loaded(flush[f].service)
    BY <1>1, <2>1 DEF flushvars
  <2> QED
    BY <2>2, <2>3
       DEF Behind, SavedBefore, Exported, TrackerAt, memvars, flushvars
<1> QED
  BY <1>2, <1>3 DEF DInv

LEMMA DInvStep ==
  ASSUME OneFlusher, TInv, TInv', DInv, [Next]_vars
  PROVE  DInv'
<1>1. CASE UNCHANGED vars \/ Midnight
  BY <1>1, QuietStep DEF vars, Midnight
<1>2. CASE \E r \in Recorders : RecordNext(r) \/ \E s \in Services : RecordUsage(r, s)
  BY <1>2, RecordingStep
<1>3. CASE \E f \in Flushers : FlushStep(f) \/ \E s \in Services : BeginFlush(f, s)
  BY <1>3, BeginStep, ExportStep, AcquireOrWriteStep, FailStep, ReplaceStep DEF FlushStep
<1>4. CASE Crash \/ Restart
  BY <1>4, CrashStep, RestartStep
<1> QED
  BY <1>1, <1>2, <1>3, <1>4 DEF Next

LEMMA AlwaysDInv ==
  ASSUME OneFlusher
  PROVE  Spec => []DInv
<1>1. Init => DInv
  BY InitDInv
<1>2. TInv /\ TInv' /\ DInv /\ [Next]_vars => DInv'
  BY DInvStep
<1> QED
  BY <1>1, <1>2, AlwaysTInv, PTL DEF Spec

(* As long as one thread flushes, what a completed flush has promised is   *)
(* in the files for good, however the process crashes, whatever writes     *)
(* fail, and for any number of services, days and requests.                *)
THEOREM FlushedCountsAreDurable ==
  ASSUME OneFlusher
  PROVE  Spec => []FlushedIsDurable
<1>1. DInv => FlushedIsDurable
  BY DEF DInv
<1> QED
  BY <1>1, AlwaysDInv, PTL

-----------------------------------------------------------------------------

(* The refinement of DurableCounts.  A counter is a cell of a service.     *)
Counted == Services \X Cells

LEMMA CountersAreCells ==
  \A x \in Counted : x[1] \in Services /\ x[2] \in Cells /\ x = <<x[1], x[2]>>
  BY DEF Counted

LEMMA InitRefines == Init => Counts!Init
<1> SUFFICES ASSUME Init PROVE Counts!Init
  OBVIOUS
<1>1. \A s \in Services, c \in Cells : Loaded(s)[c] = 0 /\ Live(s)[c] = 0
  BY CellsAreTracked, FilesOfTrackers DEF Init, Loaded, Nothing, Live
<1> QED
  BY <1>1, CountersAreCells DEF Counts!Init, Counted

(* A step that leaves the live values and the files alone is a stutter.    *)
LEMMA Stutters ==
  ASSUME UNCHANGED disk, \A s \in Services : Live(s)' = Live(s)
  PROVE  UNCHANGED Counts!vars
<1>1. \A s \in Services : Loaded(s)' = Loaded(s)
  BY SameFiles
<1> QED
  BY <1>1, CountersAreCells DEF Counts!vars, Counted

LEMMA RecordingRefines ==
  ASSUME TInv, DInv, NEW r \in Recorders,
         RecordNext(r) \/ \E s \in Services : RecordUsage(r, s)
  PROVE  Counts!Next
<1>1. PICK s \in Services, g \in DOMAIN TrackerOf : CountIn(s, g)
  BY RecordingCounts
<1>2. up /\ up' /\ UNCHANGED disk
  BY RecordingCounts
<1>3. PICK d \in Cells : d = <<g, today>>
  BY <1>1, CountedIn
<1>4. PICK y \in Counted : y = <<s, d>>
  BY DEF Counted
<1>5. \A x \in Counted :
        /\ Live(x[1])'[x[2]] = IF x = y THEN Live(y[1])[y[2]] + 1 ELSE Live(x[1])[x[2]]
        /\ Loaded(x[1])' = Loaded(x[1])
  <2> SUFFICES ASSUME NEW x \in Counted
               PROVE  /\ Live(x[1])'[x[2]] = IF x = y THEN Live(y[1])[y[2]] + 1
                                                      ELSE Live(x[1])[x[2]]
                      /\ Loaded(x[1])' = Loaded(x[1])
    OBVIOUS
  <2>1. x[1] \in Services /\ x[2] \in Cells /\ x = <<x[1], x[2]>>
    BY CountersAreCells
  <2>2. \A t \in Services : Live(t) = mem[t] /\ Live(t)' = mem'[t]
    BY <1>2 DEF Live
  <2>3. mem'[x[1]][x[2]] =
          IF x[1] = s /\ x[2] = d THEN mem[x[1]][x[2]] + 1 ELSE mem[x[1]][x[2]]
    BY <1>1, <1>3, <2>1, CountedIn
  <2>4. x = y <=> x[1] = s /\ x[2] = d
    BY <1>4, <2>1
  <2> QED
    BY <1>2, <1>4, <2>1, <2>2, <2>3, <2>4, SameFiles
<1>6. Counts!Count(y)
  BY <1>4, <1>5 DEF Counts!Count, Counted
<1> QED
  BY <1>6 DEF Counts!Next, Counted

LEMMA ReplaceRefines ==
  ASSUME TInv, DInv, NEW f \in Flushers, Replace(f)
  PROVE  Counts!Next
<1>1. up /\ up' /\ mem' = mem
  BY FlushRunsUp DEF Replace, memvars
<1>2. PICK s \in Services : s = flush[f].service
  BY AtTracker DEF Replace
<1>3. PICK i \in DOMAIN Trackers : TrackerAt(f) = Trackers[i]
  BY Turns, TrackersInOrder DEF TrackerAt
<1> DEFINE G == {s} \X CellsOf[Trackers[i]]
<1>4. \A x \in Counted :
        /\ Live(x[1])'[x[2]] = Live(x[1])[x[2]]
        /\ x \notin G => Loaded(x[1])'[x[2]] = Loaded(x[1])[x[2]]
        /\ Loaded(x[1])'[x[2]] \in Loaded(x[1])[x[2]] .. Live(x[1])[x[2]]
  <2> SUFFICES ASSUME NEW x \in Counted
               PROVE  /\ Live(x[1])'[x[2]] = Live(x[1])[x[2]]
                      /\ x \notin G => Loaded(x[1])'[x[2]] = Loaded(x[1])[x[2]]
                      /\ Loaded(x[1])'[x[2]] \in Loaded(x[1])[x[2]] .. Live(x[1])[x[2]]
    OBVIOUS
  <2>1. x[1] \in Services /\ x[2] \in Cells /\ x = <<x[1], x[2]>>
    BY CountersAreCells
  <2>2. Live(x[1]) = mem[x[1]] /\ Live(x[1])' = mem[x[1]]
    BY <1>1 DEF Live
  <2>3. x \notin G => ~(x[1] = s /\ TrackerOf[x[2][1]] = TrackerAt(f))
    BY <1>3, <2>1, CellsAreTracked, AtTracker
  <2>4. x \notin G => Loaded(x[1])'[x[2]] = Loaded(x[1])[x[2]]
    BY <1>2, <2>1, <2>3, ReplacedFile
  <2>5. Loaded(x[1])'[x[2]] \in Loaded(x[1])[x[2]] .. mem[x[1]][x[2]]
    <3>1. /\ Loaded(x[1])[x[2]] \in Nat /\ mem[x[1]][x[2]] \in Nat
          /\ Loaded(x[1])'[x[2]] \in Nat
          /\ Loaded(x[1])[x[2]] <= Loaded(x[1])'[x[2]]
          /\ Loaded(x[1])'[x[2]] <= mem[x[1]][x[2]]
      BY <2>1, Naturals, ReplaceAdvances
    <3> QED
      BY <3>1
  <2> QED
    BY <2>2, <2>4, <2>5
<1>5. G \subseteq Counted
  BY <1>3, AtTracker, CellsAreTracked DEF Counted
<1>6. Counts!Save(G)
  BY <1>4, <1>5 DEF Counts!Save, Counted
<1> QED
  BY <1>6 DEF Counts!Next

LEMMA CrashRefines ==
  ASSUME Crash
  PROVE  Counts!Next
<1>1. \A s \in Services : Live(s)' = Loaded(s) /\ Loaded(s)' = Loaded(s)
  BY SameFiles DEF Crash, Live
<1>2. Counts!Crash
  BY <1>1, CountersAreCells DEF Counts!Crash, Counted
<1> QED
  BY <1>2 DEF Counts!Next

LEMMA RestartRefines ==
  ASSUME Restart
  PROVE  UNCHANGED Counts!vars
<1>1. \A s \in Services : Live(s)' = Live(s)
  BY SameFiles DEF Restart, Live
<1> QED
  BY <1>1, Stutters DEF Restart

LEMMA OthersStutter ==
  ASSUME UNCHANGED <<up, mem, disk>>
  PROVE  UNCHANGED Counts!vars
<1>1. \A s \in Services : Live(s)' = Live(s)
  BY SameFiles DEF Live
<1> QED
  BY <1>1, Stutters

LEMMA StepRefines ==
  ASSUME TInv, DInv, [Next]_vars
  PROVE  [Counts!Next]_(Counts!vars)
<1>1. CASE UNCHANGED vars \/ Midnight
  BY <1>1, OthersStutter DEF vars, memvars, Midnight
<1>2. CASE \E r \in Recorders : RecordNext(r) \/ \E s \in Services : RecordUsage(r, s)
  BY <1>2, RecordingRefines
<1>3. ASSUME NEW f \in Flushers, FlushStep(f) \/ \E s \in Services : BeginFlush(f, s)
      PROVE  [Counts!Next]_(Counts!vars)
  <2>1. CASE Replace(f)
    BY <2>1, ReplaceRefines
  <2>2. CASE ~Replace(f)
    <3>1. UNCHANGED <<up, mem, disk>>
      BY <1>3, <2>2
         DEF FlushStep, BeginFlush, Export, AcquireBackend, WriteTemp, WriteFails, memvars
    <3> QED
      BY <3>1, OthersStutter
  <2> QED
    BY <2>1, <2>2
<1>4. CASE Crash \/ Restart
  BY <1>4, CrashRefines, RestartRefines
<1> QED
  BY <1>1, <1>2, <1>3, <1>4 DEF Next

(* With one flushing thread, the tracking files implement the durable      *)
(* counters of DurableCounts, for any services, days and requests: each    *)
(* lock section of a tracker counts, a replaced file is a save, and        *)
(* everything else is a stutter.                                           *)
THEOREM StoreImplementsDurableCounts ==
  ASSUME OneFlusher
  PROVE  Spec => ImplementsDurableCounts
<1>1. Init => Counts!Init
  BY InitRefines
<1>2. TInv /\ DInv /\ [Next]_vars => [Counts!Next]_(Counts!vars)
  BY StepRefines
<1> QED
  BY <1>1, <1>2, AlwaysTInv, AlwaysDInv, PTL DEF Spec, ImplementsDurableCounts, Counts!Spec

=============================================================================
