---------------------------- MODULE CaptureTape ----------------------------
(***************************************************************************)
(* The public tape recorder of liquidation_absorption_capture.py: recorder *)
(* processes that take a heartbeat lease in a SQLite ledger, append a hash *)
(* chain of events to the gzip file of one OPEN segment, and seal segments.*)
(*                                                                         *)
(* A chain SHA-256 is modelled by what it identifies, the sequence of the  *)
(* events hashed so far; the sequence number of an event is its place in   *)
(* that sequence.  An event is named by the segment that holds it and the  *)
(* connection that delivered it (NoConn for a BARRIER).  Each SQLite       *)
(* transaction, each file write and each in-memory append is one step.     *)
(***************************************************************************)
EXTENDS Integers, Sequences, SequencesExt

CONSTANTS
    Recorders,        \* processes that may run a capture on this directory
    Nobody,           \* the empty active_lease_id
    SegmentMaxEvents, \* segment_max_events
    CheckpointEvents, \* checkpoint_events
    StaleAfter,       \* LEASE_STALE_AFTER_NS, in ticks
    MaxLag,           \* bound: ticks between open() reading the clock and its lease step
    MaxQuiet,         \* ticks a running lease holder may let pass without a flush
    MaxEvents,        \* bound: length of a chain a recorder may still extend
    MaxSegments,      \* bound: rows of the segments table at which open() is disabled
    MaxConns,         \* bound: WebSocket connections over the whole behaviour
    MaxCrashes        \* bound: process crashes over the whole behaviour

ASSUME TapeBounds ==
    /\ SegmentMaxEvents \in Nat \ {0}
    /\ CheckpointEvents \in 1..SegmentMaxEvents
    /\ StaleAfter \in Nat \ {0}
    /\ MaxLag \in Nat
    /\ MaxQuiet \in Nat
    /\ Nobody \notin Recorders

VARIABLES
    segments,   \* the segments table; row i also holds the bytes of segment file i
    sealed,     \* metadata last_sealed_chain_sha256 (with last_sealed_sequence)
    lease,      \* metadata active_lease_id
    age,        \* wall clock minus active_lease_heartbeat_ns, saturating
    rec,        \* in-memory state of each recorder process
    conns,      \* connections made so far
    crashes     \* crashes so far

vars == <<segments, sealed, lease, age, rec, conns, crashes>>

NoConn == 0
AgeCap == StaleAfter + MaxLag
Event == [seg : Nat, conn : Nat]
States == {"OPEN", "SEALED", "QUARANTINED"}
PCs == {"idle", "opening", "leased", "found", "begin", "numbered",
        "live", "flush", "seal", "final", "closing"}

(* chain: _previous_chain and _next_sequence; first: _segment_initial_*;   *)
(* buf: Len(_segment_buffer); pend: events a running call has yet to       *)
(* append; lag: ticks since open() read the clock; stop: close(clean=True).*)
Idle == [pc |-> "idle", seg |-> 0, chain |-> <<>>, first |-> <<>>, buf |-> 0,
         conn |-> NoConn, pend |-> <<>>, lag |-> 0, stop |-> FALSE]

Row == [state : States, first : Seq(Event), last : Seq(Event), file : Seq(Event)]
Memory == [pc : PCs, seg : Nat, chain : Seq(Event), first : Seq(Event), buf : Nat,
           conn : Nat, pend : Seq(Nat), lag : 0..MaxLag, stop : BOOLEAN]

TypeOK ==
    /\ segments \in Seq(Row)
    /\ sealed \in Seq(Event)
    /\ lease \in Recorders \cup {Nobody}
    /\ age \in 0..AgeCap
    /\ rec \in [Recorders -> Memory]
    /\ conns \in Nat
    /\ crashes \in Nat

----------------------------------------------------------------------------
Barrier == NoConn
BufferOf(r) == SubSeq(r.chain, Len(r.chain) - r.buf + 1, Len(r.chain))
SegmentEvents(r) == Len(r.chain) - Len(r.first)
IsOpenRow(row) == row.state = "OPEN"
OpenRows == {i \in DOMAIN segments : IsOpenRow(segments[i])}

Init ==
    /\ segments = <<>>
    /\ sealed = <<>>
    /\ lease = Nobody
    /\ age = AgeCap
    /\ rec = [p \in Recorders |-> Idle]
    /\ conns = 0
    /\ crashes = 0

\* _verify_segment: sequence numbers, predecessors and hashes of a file, replayed
\* from a chain value, end in another.
Replays(from, file, to) == from \o file = to

\* Mutant: a restart that begins a chain of its own.
OpenFromGenesis(p) ==
    /\ rec[p].pc = "idle"
    /\ Len(segments) < MaxSegments
    /\ rec' = [rec EXCEPT ![p] = [Idle EXCEPT !.pc = "opening"]]
    /\ UNCHANGED <<segments, sealed, lease, age, conns, crashes>>

\* open() up to _initialize: the clock is read, then the sealed head.
OpenTape(p) ==
    /\ rec[p].pc = "idle"
    /\ Len(segments) < MaxSegments
    /\ rec' = [rec EXCEPT ![p] = [Idle EXCEPT !.pc = "opening", !.chain = sealed]]
    /\ UNCHANGED <<segments, sealed, lease, age, conns, crashes>>

\* Mutants: a lease that never expires; the two clock readings added.
LeaseIsReleased(p) == lease = Nobody
LeaseAgeAdded(p) == lease = Nobody \/ age + rec[p].lag >= StaleAfter

LeaseIsStale(p) == lease = Nobody \/ age - rec[p].lag >= StaleAfter

\* BEGIN IMMEDIATE ... commit: the heartbeat becomes the clock open() read.
AcquireLease(p) ==
    /\ rec[p].pc = "opening"
    /\ LeaseIsStale(p)
    /\ lease' = p
    /\ age' = rec[p].lag
    /\ rec' = [rec EXCEPT ![p].pc = "leased"]
    /\ UNCHANGED <<segments, sealed, conns, crashes>>

\* Mutant: a refused open() cleans up the lease it did not get.
RefusalReleases(p) ==
    /\ rec[p].pc = "opening"
    /\ ~ LeaseIsStale(p)
    /\ lease' = Nobody
    /\ age' = AgeCap
    /\ rec' = [rec EXCEPT ![p] = Idle]
    /\ UNCHANGED <<segments, sealed, conns, crashes>>

\* CaptureLeaseActiveError: open() closes its connection and gives up.
LeaseRefused(p) ==
    /\ rec[p].pc = "opening"
    /\ ~ LeaseIsStale(p)
    /\ rec' = [rec EXCEPT ![p] = Idle]
    /\ UNCHANGED <<segments, sealed, lease, age, conns, crashes>>

\* Mutants: no recovery; recovery of the newest row, whatever its state.
RecoverNothing(p) ==
    /\ rec[p].pc = "leased"
    /\ rec' = [rec EXCEPT ![p].pc = "begin", ![p].pend = <<Barrier>>]
    /\ UNCHANGED <<segments, sealed, lease, age, conns, crashes>>
RecoverNewest(p) ==
    /\ rec[p].pc = "leased"
    /\ rec' = IF segments = <<>> THEN [rec EXCEPT ![p].pc = "begin", ![p].pend = <<Barrier>>]
              ELSE [rec EXCEPT ![p].pc = "found", ![p].seg = Len(segments)]
    /\ UNCHANGED <<segments, sealed, lease, age, conns, crashes>>

\* _recover_open_segment, its SELECT: nothing to recover, or one OPEN row.
RecoverSelect(p) ==
    /\ rec[p].pc = "leased"
    /\ \/ /\ OpenRows = {}
          /\ rec' = [rec EXCEPT ![p].pc = "begin", ![p].pend = <<Barrier>>]
       \/ \E i \in OpenRows :
             /\ OpenRows = {i}
             /\ rec' = [rec EXCEPT ![p].pc = "found", ![p].seg = i]
    /\ UNCHANGED <<segments, sealed, lease, age, conns, crashes>>

\* ... and its UPDATE, which names the row by index only.
RecoverQuarantine(p) ==
    /\ rec[p].pc = "found"
    /\ segments' = [segments EXCEPT ![rec[p].seg].state = "QUARANTINED"]
    /\ rec' = [rec EXCEPT ![p].pc = "begin",
                          ![p].chain = segments[rec[p].seg].first,
                          ![p].pend = <<Barrier>>]
    /\ UNCHANGED <<sealed, lease, age, conns, crashes>>

\* "multiple active capture segments": open() raises and releases its lease.
RecoverRefused(p) ==
    /\ rec[p].pc = "leased"
    /\ \E i, j \in OpenRows : i # j
    /\ rec' = [rec EXCEPT ![p].pc = "closing"]
    /\ UNCHANGED <<segments, sealed, lease, age, conns, crashes>>

\* _begin_segment, SELECT MAX(segment_index) + 1 and the in-memory reset.
BeginSelect(p) ==
    /\ rec[p].pc = "begin"
    /\ rec' = [rec EXCEPT ![p].pc = "numbered", ![p].seg = Len(segments) + 1,
                          ![p].first = rec[p].chain, ![p].buf = 0]
    /\ UNCHANGED <<segments, sealed, lease, age, conns, crashes>>

\* ... and the INSERT of the OPEN row.
BeginInsert(p) ==
    /\ rec[p].pc = "numbered"
    /\ rec[p].seg = Len(segments) + 1
    /\ segments' = Append(segments, [state |-> "OPEN", first |-> rec[p].first,
                                     last |-> <<>>, file |-> <<>>])
    /\ rec' = [rec EXCEPT ![p].pc = "live"]
    /\ UNCHANGED <<sealed, lease, age, conns, crashes>>

\* The primary key is taken: IntegrityError, nothing is buffered, unclean close.
BeginConflict(p) ==
    /\ rec[p].pc = "numbered"
    /\ rec[p].seg <= Len(segments)
    /\ rec' = [rec EXCEPT ![p].pc = "closing"]
    /\ UNCHANGED <<segments, sealed, lease, age, conns, crashes>>

\* _append: one event joins the chain and the buffer; the thresholds follow.
AppendEvent(p) ==
    LET r == rec[p]
        e == [seg |-> r.seg, conn |-> Head(r.pend)]
    IN  /\ r.pc = "live"
        /\ r.pend # <<>>
        /\ rec' = [rec EXCEPT ![p].chain = Append(r.chain, e),
                              ![p].pend = Tail(r.pend),
                              ![p].buf = r.buf + 1,
                              ![p].pc = IF r.buf + 1 >= CheckpointEvents THEN "flush"
                                        ELSE IF SegmentEvents(r) + 1 >= SegmentMaxEvents
                                        THEN "seal" ELSE "live"]
        /\ UNCHANGED <<segments, sealed, lease, age, conns, crashes>>

\* _touch_lease, at the end of every flush: only the lease holder's counts.
TouchLease(p) == age' = IF lease = p THEN 0 ELSE age

WriteBuffer(p) ==
    segments' = [segments EXCEPT ![rec[p].seg].file = @ \o BufferOf(rec[p])]

\* _flush_open_member on a non-empty buffer, called by _append or by a seal.
FlushOpenMember(p) ==
    LET r == rec[p]
    IN  /\ r.pc \in {"flush", "seal", "final"}
        /\ r.buf > 0
        /\ WriteBuffer(p)
        /\ TouchLease(p)
        /\ rec' = [rec EXCEPT ![p].buf = 0,
                              ![p].pc = IF r.pc # "flush" THEN r.pc
                                        ELSE IF SegmentEvents(r) >= SegmentMaxEvents
                                        THEN "seal" ELSE "live"]
        /\ UNCHANGED <<sealed, lease, conns, crashes>>

\* _seal_open_segment: the file replays to the in-memory chain; one transaction
\* seals the row if it is still OPEN and moves the sealed head regardless.
\* _append then begins the next segment; close(clean=True) goes on to release.
SealOpenSegment(p) ==
    LET r == rec[p]
    IN  /\ r.pc \in {"seal", "final"}
        /\ r.buf = 0
        /\ segments[r.seg].file # <<>>
        /\ Replays(r.first, segments[r.seg].file, r.chain)
        /\ segments' = IF IsOpenRow(segments[r.seg])
                       THEN [segments EXCEPT ![r.seg].state = "SEALED",
                                             ![r.seg].last = r.chain]
                       ELSE segments
        /\ sealed' = r.chain
        /\ rec' = [rec EXCEPT ![p].pc = IF r.pc = "seal" THEN "begin" ELSE "closing",
                              ![p].stop = r.pc = "seal" /\ r.stop]
        /\ UNCHANGED <<lease, age, conns, crashes>>

\* Mutant: the failed seal is swallowed and the close is tried again.
SealRetried(p) ==
    /\ rec[p].pc = "final"
    /\ rec[p].buf = 0
    /\ segments[rec[p].seg].file = <<>>
    /\ rec' = [rec EXCEPT ![p].pc = "live"]
    /\ UNCHANGED <<segments, sealed, lease, age, conns, crashes>>

\* "cannot seal an empty capture segment": close(clean=True) raises.
SealEmpty(p) ==
    /\ rec[p].pc = "final"
    /\ rec[p].buf = 0
    /\ segments[rec[p].seg].file = <<>>
    /\ rec' = [rec EXCEPT ![p].pc = "closing"]
    /\ UNCHANGED <<segments, sealed, lease, age, conns, crashes>>

----------------------------------------------------------------------------
(* run_for: what the WebSocket loop asks of an open tape.  A call is made  *)
(* only between appends, when the previous one has returned.               *)

Listening(p) == rec[p].pc = "live" /\ rec[p].pend = <<>> /\ ~ rec[p].stop

Connect(p) ==
    /\ Listening(p)
    /\ rec[p].conn = NoConn
    /\ conns < MaxConns
    /\ conns' = conns + 1
    /\ rec' = [rec EXCEPT ![p].conn = conns + 1]
    /\ UNCHANGED <<segments, sealed, lease, age, crashes>>

\* record_text of a frame with no barrier_reason.
RecordText(p) ==
    /\ Listening(p)
    /\ rec[p].conn # NoConn
    /\ Len(rec[p].chain) < MaxEvents
    /\ rec' = [rec EXCEPT ![p].pend = <<rec[p].conn>>]
    /\ UNCHANGED <<segments, sealed, lease, age, conns, crashes>>

\* What the connection still appends before it is given up: nothing (closed,
\* error, timeout), a barrier (non-text message), or a frame and its barrier.
LastWords(conn) == {<<>>} \cup (IF conn = NoConn THEN {}
                                ELSE {<<Barrier>>, <<conn, Barrier>>})

\* Mutant: the loop reconnects without its WEBSOCKET_RECONNECT barrier.
ReconnectSilently(p) ==
    /\ Listening(p)
    /\ Len(rec[p].chain) < MaxEvents
    /\ \E said \in LastWords(rec[p].conn) :
          rec' = [rec EXCEPT ![p].pend = said, ![p].conn = NoConn]
    /\ UNCHANGED <<segments, sealed, lease, age, conns, crashes>>

\* The connection ends or cannot be made: WEBSOCKET_RECONNECT, or, when the
\* deadline has passed meanwhile, the CAPTURE_STOPPED of close(clean=True).
Disconnect(p) ==
    /\ Listening(p)
    /\ Len(rec[p].chain) < MaxEvents
    /\ \E said \in LastWords(rec[p].conn), late \in BOOLEAN :
          rec' = [rec EXCEPT ![p].pend = said \o <<Barrier>>, ![p].conn = NoConn,
                             ![p].stop = late]
    /\ UNCHANGED <<segments, sealed, lease, age, conns, crashes>>

\* The deadline passes: close(clean=True) records CAPTURE_STOPPED ...
StopCapture(p) ==
    /\ Listening(p)
    /\ rec' = [rec EXCEPT ![p].pend = <<Barrier>>, ![p].conn = NoConn, ![p].stop = TRUE]
    /\ UNCHANGED <<segments, sealed, lease, age, conns, crashes>>

\* ... and, once that call has returned, seals the open segment.
CloseClean(p) ==
    /\ rec[p].pc = "live"
    /\ rec[p].pend = <<>>
    /\ rec[p].stop
    /\ rec' = [rec EXCEPT ![p].pc = "final"]
    /\ UNCHANGED <<segments, sealed, lease, age, conns, crashes>>

\* An exception or a cancellation at an await: close(clean=False) flushes.
CloseUnclean(p) ==
    /\ Listening(p)
    /\ IF rec[p].buf > 0 THEN WriteBuffer(p) /\ TouchLease(p)
                         ELSE UNCHANGED <<segments, age>>
    /\ rec' = [rec EXCEPT ![p].pc = "closing", ![p].buf = 0]
    /\ UNCHANGED <<sealed, lease, conns, crashes>>

\* _release_lease, and the SQLite connection is closed.
ReleaseLease(p) ==
    /\ rec[p].pc = "closing"
    /\ lease' = IF lease = p THEN Nobody ELSE lease
    /\ age' = IF lease = p THEN AgeCap ELSE age
    /\ rec' = [rec EXCEPT ![p] = Idle]
    /\ UNCHANGED <<segments, sealed, conns, crashes>>

\* The process is killed: its memory is lost, its lease stays in the ledger.
Crash(p) ==
    /\ rec[p].pc # "idle"
    /\ crashes < MaxCrashes
    /\ crashes' = crashes + 1
    /\ rec' = [rec EXCEPT ![p] = Idle]
    /\ UNCHANGED <<segments, sealed, lease, age, conns>>

Running(p) == rec[p].pc \notin {"idle", "opening"}

\* The wall clock.
Tick ==
    /\ \A p \in Recorders : rec[p].pc = "opening" => rec[p].lag < MaxLag
    /\ \A p \in Recorders : Running(p) /\ lease = p => age < MaxQuiet
    /\ age' = IF age < AgeCap THEN age + 1 ELSE age
    /\ rec' = [p \in Recorders |-> IF rec[p].pc = "opening"
                                   THEN [rec[p] EXCEPT !.lag = @ + 1] ELSE rec[p]]
    /\ UNCHANGED <<segments, sealed, lease, conns, crashes>>

Open(p) ==
    \/ OpenTape(p) \/ AcquireLease(p) \/ LeaseRefused(p)
    \/ RecoverSelect(p) \/ RecoverQuarantine(p) \/ RecoverRefused(p)

Write(p) ==
    \/ BeginSelect(p) \/ BeginInsert(p) \/ BeginConflict(p)
    \/ AppendEvent(p) \/ FlushOpenMember(p) \/ SealOpenSegment(p) \/ SealEmpty(p)
    \/ CloseClean(p) \/ ReleaseLease(p)

Feed(p) ==
    \/ Connect(p) \/ RecordText(p) \/ Disconnect(p) \/ StopCapture(p) \/ CloseUnclean(p)

Next ==
    \/ \E p \in Recorders : Open(p) \/ Write(p) \/ Feed(p) \/ Crash(p)
    \/ Tick

Spec == Init /\ [][Next]_vars

\* A started call runs on, the clock advances, and a stopped capture is
\* started again; nothing is assumed of the exchange or of crashes.
FairSpec == /\ Spec
            /\ \A p \in Recorders : WF_vars(Open(p)) /\ WF_vars(Write(p))
            /\ WF_vars(Tick)

----------------------------------------------------------------------------
(* verify(): the replay of every row that is not QUARANTINED.              *)

Kept == {i \in DOMAIN segments : segments[i].state # "QUARANTINED"}

\* previous_chain as the loop of verify() reaches row i.
ChainBefore(i) ==
    LET before == {j \in Kept : j < i}
    IN  IF before = {} THEN <<>> ELSE segments[Max(before)].last

VerifyAccepts ==
    /\ \A i \in Kept : /\ segments[i].state = "SEALED"
                       /\ segments[i].first = ChainBefore(i)
                       /\ Replays(segments[i].first, segments[i].file, segments[i].last)
    /\ sealed = ChainBefore(Len(segments) + 1)

----------------------------------------------------------------------------
(* Properties.                                                             *)

\* verify() accepts every tape that has no active segment, whatever crashes,
\* restarts, rotations and disconnects led to it (verify, lines 367-415).
VerifyAcceptsQuiescentTape == OpenRows = {} => VerifyAccepts

\* Whoever runs on its lease has flushed within the stale limit.
HeartbeatsInTime == \A p \in Recorders : Running(p) /\ lease = p => age < StaleAfter

\* While heartbeats are in time, whoever is past _acquire_lease holds the lease:
\* two recorders never work on one directory (_acquire_lease, _touch_lease and
\* _release_lease together).  The code does not see to the premise.
Exclusive == \A p \in Recorders : Running(p) => lease = p
RunningHoldsLease == []HeartbeatsInTime => []Exclusive

\* Nor are two segments ever active at once: _recover_open_segment calls it
\* impossible (lines 525-526) and refuses to open such a tape ever again.
OneActive == \A i, j \in OpenRows : i = j
AtMostOneOpenSegment == []HeartbeatsInTime => []OneActive

\* A lease ends by its holder's release or by age, even when recorders overrun
\* it: one that was taken over neither drops nor shortens its successor's
\* (WHERE key = 'active_lease_id' AND value = ?, _touch_lease, _release_lease).
LeaseEndsByHolderOrAge ==
    [][\A p \in Recorders :
          lease = p /\ lease' # p => rec[p].pc = "closing" \/ age >= StaleAfter]_vars

\* The chain a recorder extends never presents a gap as continuous evidence:
\* neighbouring frames come from one connection and one process life, and the
\* first event is a barrier (module docstring, lines 8-11; run_for; open).
GapsAreBarriered ==
    \A p \in Recorders :
        LET c == rec[p].chain
        IN  /\ c # <<>> => c[1].conn = Barrier
            /\ \A k \in 1..(Len(c) - 1) :
                  c[k].conn # Barrier /\ c[k + 1].conn # Barrier => c[k].conn = c[k + 1].conn

\* A sealed segment is immutable and sealed evidence is never taken back: its
\* row and file never change and the sealed head only grows (lines 164, 640).
SealedEvidenceIsFinal ==
    [][/\ \A i \in DOMAIN segments :
             segments[i].state = "SEALED" => segments'[i] = segments[i]
       /\ IsPrefix(sealed, sealed')]_vars

\* close(clean=True) never fails: run_for asserts that a clean capture close
\* returns a status (lines 823-825), so its final seal is never of nothing.
CleanCloseReturnsStatus ==
    \A p \in Recorders : rec[p].pc = "final" => rec[p].buf > 0 \/ segments[rec[p].seg].file # <<>>

\* A lease left behind by a dead recorder stops no one for ever: a later open()
\* takes it over once it is stale (_acquire_lease, lines 466-469).
LeaseNeverLost == \A p \in Recorders : rec[p].pc = "opening" ~> Running(p)

\* A capture that reached its deadline ends: barriers, rotation, final seal and
\* release all complete unless the process is killed (run_for, close).
StopCompletes == \A p \in Recorders : rec[p].stop ~> rec[p].pc = "idle"
============================================================================
