------------------------ MODULE CaptureTape_proofs -------------------------
(* Proofs about CaptureTape for any number of recorders and any bounds.    *)
EXTENDS CaptureTape, SequenceTheorems, TLAPS

(* What TypeOK rests on: the buffer is a suffix of the chain, and a        *)
(* recorder that writes to a segment has its row.                          *)
BufferIsSuffix ==
    \A p \in Recorders :
        /\ rec[p].buf <= Len(rec[p].chain)
        /\ rec[p].pc \in {"idle", "opening", "leased", "found"} => rec[p].buf = 0

OwnRowExists ==
    \A p \in Recorders :
        rec[p].pc \in {"found", "live", "flush", "seal", "final"}
            => rec[p].seg \in DOMAIN segments

TypeInv == TypeOK /\ BufferIsSuffix /\ OwnRowExists

\* The bytes a flush writes are events.
LEMMA BufferType ==
    ASSUME NEW r \in Memory, r.buf <= Len(r.chain)
    PROVE  BufferOf(r) \in Seq(Event)
  BY DEF BufferOf, Memory

\* The state a process starts from, and any change of one field, is a Memory.
LEMMA IdleType == Idle \in Memory
  BY TapeBounds DEF Idle, Memory, PCs, NoConn

LEMMA ChainLength == \A m \in Memory : Len(m.chain) \in Nat /\ m.buf \in Nat
  BY DEF Memory

\* The chain with one event more.
LEMMA Chained ==
    ASSUME NEW c \in Seq(Event), NEW e \in Event
    PROVE  Append(c, e) \in Seq(Event) /\ Len(Append(c, e)) = Len(c) + 1
  OBVIOUS

\* What a call has yet to append, and the rest of it.
LEMMA Pended ==
    ASSUME NEW s \in Seq(Nat), s # <<>>
    PROVE  Head(s) \in Nat /\ Tail(s) \in Seq(Nat)
  OBVIOUS

LEMMA BarrierType == <<Barrier>> \in Seq(Nat)
  BY DEF Barrier, NoConn

LEMMA InitType == Init => TypeInv
  BY TapeBounds, IdleType
  DEF Init, TypeInv, TypeOK, BufferIsSuffix, OwnRowExists, Idle, AgeCap

\* A step of open() keeps the types.
LEMMA OpenType ==
    ASSUME TypeInv, NEW p \in Recorders, Open(p)
    PROVE  TypeInv'
<1>. USE DEF TypeInv
<1>0. rec[p] \in Memory /\ segments \in Seq(Row) /\ sealed \in Seq(Event)
  BY DEF TypeOK
<1>1. CASE OpenTape(p)
  <2>1. [Idle EXCEPT !.pc = "opening", !.chain = sealed] \in Memory
    BY <1>0, IdleType DEF Memory, PCs
  <2>2. TypeOK'
    BY <1>1, <2>1 DEF OpenTape, TypeOK
  <2>3. BufferIsSuffix'
    BY <1>1, <1>0 DEF OpenTape, TypeOK, BufferIsSuffix, Idle
  <2>4. OwnRowExists'
    BY <1>1 DEF OpenTape, TypeOK, OwnRowExists, Idle
  <2>. QED BY <2>2, <2>3, <2>4
<1>2. CASE AcquireLease(p)
  <2>1. [rec[p] EXCEPT !.pc = "leased"] \in Memory
    BY <1>0 DEF Memory, PCs
  <2>2. rec[p].lag \in 0..AgeCap
    BY <1>0, TapeBounds DEF Memory, AgeCap
  <2>3. TypeOK'
    BY <1>2, <2>1, <2>2 DEF AcquireLease, TypeOK
  <2>4. BufferIsSuffix' /\ OwnRowExists'
    BY <1>2, <1>0 DEF AcquireLease, TypeOK, BufferIsSuffix, OwnRowExists, Memory
  <2>. QED BY <2>3, <2>4
<1>3. CASE LeaseRefused(p)
  <2>1. TypeOK'
    BY <1>3, IdleType DEF LeaseRefused, TypeOK
  <2>2. BufferIsSuffix' /\ OwnRowExists'
    BY <1>3 DEF LeaseRefused, TypeOK, BufferIsSuffix, OwnRowExists, Idle
  <2>. QED BY <2>1, <2>2
<1>4. CASE RecoverSelect(p)
  <2>1. ASSUME rec' = [rec EXCEPT ![p].pc = "begin", ![p].pend = <<Barrier>>]
        PROVE  TypeInv'
    <3>1. [rec[p] EXCEPT !.pc = "begin", !.pend = <<Barrier>>] \in Memory
      BY <1>0, BarrierType DEF Memory, PCs
    <3>2. TypeOK'
      BY <1>4, <2>1, <3>1 DEF RecoverSelect, TypeOK
    <3>3. BufferIsSuffix' /\ OwnRowExists'
      BY <1>4, <2>1, <1>0 DEF RecoverSelect, TypeOK, BufferIsSuffix, OwnRowExists, Memory
    <3>. QED BY <3>2, <3>3
  <2>2. ASSUME NEW i \in OpenRows, rec' = [rec EXCEPT ![p].pc = "found", ![p].seg = i]
        PROVE  TypeInv'
    <3>1. i \in DOMAIN segments /\ i \in Nat
      BY <1>0, <2>2 DEF OpenRows
    <3>2. [rec[p] EXCEPT !.pc = "found", !.seg = i] \in Memory
      BY <1>0, <3>1 DEF Memory, PCs
    <3>3. TypeOK'
      BY <1>4, <2>2, <3>2 DEF RecoverSelect, TypeOK
    <3>4. BufferIsSuffix' /\ OwnRowExists'
      BY <1>4, <2>2, <3>1, <1>0
      DEF RecoverSelect, TypeOK, BufferIsSuffix, OwnRowExists, Memory
    <3>. QED BY <3>3, <3>4
  <2>. QED BY <1>4, <2>1, <2>2 DEF RecoverSelect
<1>5. CASE RecoverQuarantine(p)
  <2>1. rec[p].seg \in DOMAIN segments /\ rec[p].buf = 0
    BY <1>5 DEF RecoverQuarantine, OwnRowExists, BufferIsSuffix
  <2>2. segments[rec[p].seg] \in Row
    BY <1>0, <2>1
  <2>3. segments[rec[p].seg].first \in Seq(Event)
    BY <2>2 DEF Row
  <2>4. [rec[p] EXCEPT !.pc = "begin", !.chain = segments[rec[p].seg].first,
                       !.pend = <<Barrier>>] \in Memory
    BY <1>0, <2>3, BarrierType DEF Memory, PCs
  <2>5. [segments[rec[p].seg] EXCEPT !.state = "QUARANTINED"] \in Row
    BY <2>2 DEF Row, States
  <2>6. segments' \in Seq(Row) /\ DOMAIN segments' = DOMAIN segments
    BY <1>0, <1>5, <2>1, <2>5 DEF RecoverQuarantine
  <2>7. TypeOK'
    BY <1>5, <2>4, <2>6 DEF RecoverQuarantine, TypeOK
  <2>8. rec'[p].buf = 0 /\ rec'[p].pc = "begin" /\ Len(rec'[p].chain) \in Nat
    BY <1>5, <1>0, <2>1, <2>3 DEF RecoverQuarantine, TypeOK, Memory
  <2>9. \A q \in Recorders \ {p} : rec'[q] = rec[q]
    BY <1>5 DEF RecoverQuarantine, TypeOK
  <2>10. BufferIsSuffix' /\ OwnRowExists'
    BY <2>6, <2>8, <2>9 DEF BufferIsSuffix, OwnRowExists
  <2>. QED BY <2>7, <2>10
<1>6. CASE RecoverRefused(p)
  <2>1. [rec[p] EXCEPT !.pc = "closing"] \in Memory
    BY <1>0 DEF Memory, PCs
  <2>2. TypeOK'
    BY <1>6, <2>1 DEF RecoverRefused, TypeOK
  <2>3. BufferIsSuffix' /\ OwnRowExists'
    BY <1>6, <1>0 DEF RecoverRefused, TypeOK, BufferIsSuffix, OwnRowExists, Memory
  <2>. QED BY <2>2, <2>3
<1>. QED BY <1>1, <1>2, <1>3, <1>4, <1>5, <1>6 DEF Open

\* Writing the buffer keeps the table and its domain.
LEMMA WriteBufferType ==
    ASSUME TypeInv, NEW p \in Recorders, rec[p].seg \in DOMAIN segments, WriteBuffer(p)
    PROVE  segments' \in Seq(Row) /\ DOMAIN segments' = DOMAIN segments
<1>1. rec[p] \in Memory /\ segments \in Seq(Row) /\ rec[p].buf <= Len(rec[p].chain)
  BY DEF TypeInv, TypeOK, BufferIsSuffix
<1>2. segments[rec[p].seg] \in Row
  BY <1>1
<1>3. segments[rec[p].seg].file \o BufferOf(rec[p]) \in Seq(Event)
  BY <1>1, <1>2, BufferType DEF Row
<1>4. [segments[rec[p].seg] EXCEPT !.file = @ \o BufferOf(rec[p])] \in Row
  BY <1>2, <1>3 DEF Row
<1>. QED BY <1>1, <1>4 DEF WriteBuffer

LEMMA TouchLeaseType ==
    ASSUME TypeInv, NEW p \in Recorders, TouchLease(p)
    PROVE  age' \in 0..AgeCap
  BY TapeBounds DEF TypeInv, TypeOK, TouchLease, AgeCap

\* A step that changes the memory of one process and keeps the table's domain.
LEMMA OneMemory ==
    ASSUME TypeInv, NEW p \in Recorders, NEW m \in Memory, rec' = [rec EXCEPT ![p] = m],
           segments' \in Seq(Row), DOMAIN segments \subseteq DOMAIN segments',
           sealed' \in Seq(Event), lease' \in Recorders \cup {Nobody},
           age' \in 0..AgeCap, conns' \in Nat, crashes' \in Nat,
           m.buf <= Len(m.chain),
           m.pc \in {"idle", "opening", "leased", "found"} => m.buf = 0,
           m.pc \in {"found", "live", "flush", "seal", "final"} => m.seg \in DOMAIN segments'
    PROVE  TypeInv'
  BY DEF TypeInv, TypeOK, BufferIsSuffix, OwnRowExists

\* A step of the writing methods keeps the types.
LEMMA WriteType ==
    ASSUME TypeInv, NEW p \in Recorders, Write(p)
    PROVE  TypeInv'
<1>0. /\ rec[p] \in Memory /\ segments \in Seq(Row) /\ sealed \in Seq(Event)
      /\ lease \in Recorders \cup {Nobody} /\ age \in 0..AgeCap
      /\ conns \in Nat /\ crashes \in Nat
      /\ rec[p].buf <= Len(rec[p].chain)
      /\ rec[p].pc \in {"found", "live", "flush", "seal", "final"}
            => rec[p].seg \in DOMAIN segments
  BY DEF TypeInv, TypeOK, BufferIsSuffix, OwnRowExists
<1>m. rec[p] \in Memory
  BY <1>0
<1>1. CASE BeginSelect(p)
  <2>. DEFINE m == [rec[p] EXCEPT !.pc = "numbered", !.seg = Len(segments) + 1,
                                  !.first = rec[p].chain, !.buf = 0]
  <2>1. Len(segments) + 1 \in Nat
    BY <1>0
  <2>2. m \in Memory
    BY <2>1, <1>m DEF Memory, PCs
  <2>4. m.buf = 0 /\ m.pc = "numbered"
    BY <1>m DEF Memory
  <2>3. rec' = [rec EXCEPT ![p] = m]
    BY <1>1 DEF BeginSelect
  <2>. HIDE DEF m
  <2>5. m.buf <= Len(m.chain)
    BY <2>2, <2>4, ChainLength
  <2>. QED BY <2>2, <2>3, <2>4, <2>5, <1>0, <1>1, OneMemory DEF BeginSelect
<1>2. CASE BeginInsert(p)
  <2>. DEFINE row == [state |-> "OPEN", first |-> rec[p].first, last |-> <<>>, file |-> <<>>]
              m == [rec[p] EXCEPT !.pc = "live"]
  <2>1. row \in Row
    BY <1>0 DEF Memory, Row, States
  <2>2. segments' \in Seq(Row) /\ DOMAIN segments' = DOMAIN segments \cup {Len(segments) + 1}
    BY <2>1, <1>0, <1>2 DEF BeginInsert
  <2>3. /\ m \in Memory /\ rec' = [rec EXCEPT ![p] = m] /\ m.pc = "live"
        /\ m.seg = Len(segments) + 1 /\ m.buf = rec[p].buf /\ m.chain = rec[p].chain
    BY <1>0, <1>2 DEF BeginInsert, Memory, PCs
  <2>. QED BY <2>2, <2>3, <1>0, <1>2, OneMemory DEF BeginInsert
<1>3. CASE BeginConflict(p)
  <2>. DEFINE m == [rec[p] EXCEPT !.pc = "closing"]
  <2>1. /\ m \in Memory /\ rec' = [rec EXCEPT ![p] = m] /\ m.pc = "closing"
        /\ m.buf = rec[p].buf /\ m.chain = rec[p].chain
    BY <1>0, <1>3 DEF BeginConflict, Memory, PCs
  <2>. QED BY <2>1, <1>0, <1>3, OneMemory DEF BeginConflict
<1>4. CASE AppendEvent(p)
  <2>. DEFINE e == [seg |-> rec[p].seg, conn |-> Head(rec[p].pend)]
              pc1 == IF rec[p].buf + 1 >= CheckpointEvents THEN "flush"
                     ELSE IF SegmentEvents(rec[p]) + 1 >= SegmentMaxEvents
                     THEN "seal" ELSE "live"
              m == [rec[p] EXCEPT !.chain = Append(rec[p].chain, e),
                                  !.pend = Tail(rec[p].pend),
                                  !.buf = rec[p].buf + 1, !.pc = pc1]
  <2>1. rec[p].pc = "live" /\ rec[p].pend # <<>> /\ rec' = [rec EXCEPT ![p] = m]
    BY <1>4 DEF AppendEvent
  <2>2. Head(rec[p].pend) \in Nat /\ Tail(rec[p].pend) \in Seq(Nat) /\ rec[p].seg \in Nat
    <3>1. rec[p].pend \in Seq(Nat) /\ rec[p].pend # <<>> /\ rec[p].seg \in Nat
      BY <2>1, <1>m DEF Memory
    <3>. QED BY <3>1, Pended
  <2>3. e \in Event
    BY <2>2 DEF Event
  <2>4. Append(rec[p].chain, e) \in Seq(Event)
        /\ Len(Append(rec[p].chain, e)) = Len(rec[p].chain) + 1
    <3>1. rec[p].chain \in Seq(Event)
      BY <1>m DEF Memory
    <3>. HIDE DEF e
    <3>. QED BY <2>3, <3>1, Chained
  <2>5. pc1 \in {"live", "flush", "seal"}
    OBVIOUS
  <2>. HIDE DEF e, pc1
  <2>6. /\ m.pc = pc1 /\ m.seg = rec[p].seg
        /\ m.buf = rec[p].buf + 1 /\ m.chain = Append(rec[p].chain, e)
    BY <1>m DEF Memory
  <2>7. rec[p].buf \in Nat /\ Len(rec[p].chain) \in Nat
    BY <1>m, ChainLength
  <2>10. m \in Memory
    <3>1. ASSUME NEW c \in Seq(Event), NEW d \in Seq(Nat), NEW b \in Nat, NEW k \in PCs
          PROVE  [rec[p] EXCEPT !.chain = c, !.pend = d, !.buf = b, !.pc = k] \in Memory
      BY <1>m DEF Memory
    <3>2. pc1 \in PCs /\ rec[p].buf + 1 \in Nat
      BY <2>5, <2>7 DEF PCs
    <3>. QED BY <3>1, <3>2, <2>2, <2>4
  <2>. HIDE DEF m
  <2>8. m.buf <= Len(m.chain) /\ m.seg \in DOMAIN segments
        /\ m.pc \notin {"idle", "opening", "leased", "found"}
    <3>1. rec[p].buf + 1 <= Len(rec[p].chain) + 1
      BY <2>7, <1>0
    <3>2. m.seg \in DOMAIN segments
      BY <2>1, <2>6, <1>0
    <3>3. m.buf <= Len(m.chain)
      BY <3>1, <2>4, <2>6
    <3>. QED BY <3>2, <3>3, <2>5, <2>6
  <2>9. UNCHANGED <<segments, sealed, lease, age, conns, crashes>>
    BY <1>4 DEF AppendEvent
  <2>. QED BY <2>1, <2>6, <2>8, <2>9, <2>10, <1>0, OneMemory
<1>5. CASE FlushOpenMember(p)
  <2>. DEFINE pc1 == IF rec[p].pc # "flush" THEN rec[p].pc
                     ELSE IF SegmentEvents(rec[p]) >= SegmentMaxEvents
                     THEN "seal" ELSE "live"
              m == [rec[p] EXCEPT !.buf = 0, !.pc = pc1]
  <2>1. rec[p].pc \in {"flush", "seal", "final"} /\ rec' = [rec EXCEPT ![p] = m]
    BY <1>5 DEF FlushOpenMember
  <2>2. pc1 \in {"live", "seal", "final"}
    BY <2>1
  <2>. HIDE DEF pc1
  <2>3. m \in Memory
    BY <2>2, <1>m DEF Memory, PCs
  <2>8. m.pc = pc1 /\ m.seg = rec[p].seg /\ m.buf = 0
    BY <1>m DEF Memory
  <2>9. m.buf <= Len(m.chain)
    BY <2>3, <2>8, ChainLength
  <2>4. segments' \in Seq(Row) /\ DOMAIN segments' = DOMAIN segments
    BY <1>5, <1>0, <2>1, WriteBufferType DEF FlushOpenMember
  <2>5. age' \in 0..AgeCap
    BY <1>5, TouchLeaseType DEF FlushOpenMember
  <2>6. m.seg \in DOMAIN segments'
    BY <2>1, <2>8, <2>4, <1>0
  <2>7. UNCHANGED <<sealed, lease, conns, crashes>>
    BY <1>5 DEF FlushOpenMember
  <2>. HIDE DEF m
  <2>. QED BY <2>1, <2>2, <2>3, <2>4, <2>5, <2>6, <2>7, <2>8, <2>9, <1>0, OneMemory
<1>6. CASE SealOpenSegment(p)
  <2>. DEFINE m == [rec[p] EXCEPT !.pc = IF rec[p].pc = "seal" THEN "begin" ELSE "closing",
                                  !.stop = rec[p].pc = "seal" /\ rec[p].stop]
  <2>1. rec[p].seg \in DOMAIN segments /\ segments[rec[p].seg] \in Row
    BY <1>6, <1>0 DEF SealOpenSegment
  <2>2. [segments[rec[p].seg] EXCEPT !.state = "SEALED", !.last = rec[p].chain] \in Row
    BY <2>1, <1>0 DEF Row, States, Memory
  <2>3. segments' \in Seq(Row) /\ DOMAIN segments' = DOMAIN segments
    <3>1. segments' = IF IsOpenRow(segments[rec[p].seg])
                      THEN [segments EXCEPT ![rec[p].seg] =
                              [segments[rec[p].seg] EXCEPT !.state = "SEALED",
                                                           !.last = rec[p].chain]]
                      ELSE segments
      BY <1>6, <1>0, <2>1 DEF SealOpenSegment, Row
    <3>. QED BY <3>1, <2>1, <2>2, <1>0
  <2>4. sealed' \in Seq(Event)
    BY <1>6, <1>0 DEF SealOpenSegment, Memory
  <2>5. rec[p].buf = 0 /\ rec' = [rec EXCEPT ![p] = m]
    BY <1>6 DEF SealOpenSegment
  <2>6. m \in Memory
    BY <1>m DEF Memory, PCs
  <2>8. m.pc \in {"begin", "closing"} /\ m.buf = 0
    BY <1>m, <2>5 DEF Memory
  <2>9. m.buf <= Len(m.chain)
    BY <2>6, <2>8, ChainLength
  <2>7. UNCHANGED <<lease, age, conns, crashes>>
    BY <1>6 DEF SealOpenSegment
  <2>. HIDE DEF m
  <2>. QED BY <2>3, <2>4, <2>5, <2>6, <2>7, <2>8, <2>9, <1>0, OneMemory
<1>7. CASE SealEmpty(p)
  <2>. DEFINE m == [rec[p] EXCEPT !.pc = "closing"]
  <2>1. /\ m \in Memory /\ rec' = [rec EXCEPT ![p] = m] /\ m.pc = "closing"
        /\ m.buf = rec[p].buf /\ m.chain = rec[p].chain
    BY <1>0, <1>7 DEF SealEmpty, Memory, PCs
  <2>. QED BY <2>1, <1>0, <1>7, OneMemory DEF SealEmpty
<1>8. CASE CloseClean(p)
  <2>. DEFINE m == [rec[p] EXCEPT !.pc = "final"]
  <2>1. /\ m \in Memory /\ rec' = [rec EXCEPT ![p] = m] /\ m.pc = "final"
        /\ m.buf = rec[p].buf /\ m.chain = rec[p].chain /\ m.seg = rec[p].seg
    BY <1>0, <1>8 DEF CloseClean, Memory, PCs
  <2>. QED BY <2>1, <1>0, <1>8, OneMemory DEF CloseClean
<1>9. CASE ReleaseLease(p)
  <2>1. Idle.pc = "idle" /\ Idle.buf = 0 /\ Idle.buf <= Len(Idle.chain)
    BY DEF Idle
  <2>2. lease' \in Recorders \cup {Nobody} /\ age' \in 0..AgeCap
    BY <1>9, <1>0, TapeBounds DEF ReleaseLease, AgeCap
  <2>3. /\ rec' = [rec EXCEPT ![p] = Idle]
        /\ UNCHANGED <<segments, sealed, conns, crashes>>
    BY <1>9 DEF ReleaseLease
  <2>. QED BY <2>1, <2>2, <2>3, <1>0, IdleType, OneMemory
<1>. QED BY <1>1, <1>2, <1>3, <1>4, <1>5, <1>6, <1>7, <1>8, <1>9 DEF Write

\* A call of the WebSocket loop keeps the types.
LEMMA FeedType ==
    ASSUME TypeInv, NEW p \in Recorders, Feed(p)
    PROVE  TypeInv'
<1>0. /\ rec[p] \in Memory /\ segments \in Seq(Row) /\ sealed \in Seq(Event)
      /\ lease \in Recorders \cup {Nobody} /\ age \in 0..AgeCap
      /\ conns \in Nat /\ crashes \in Nat
      /\ rec[p].buf <= Len(rec[p].chain)
      /\ rec[p].pc = "live" => rec[p].seg \in DOMAIN segments
  BY DEF TypeInv, TypeOK, BufferIsSuffix, OwnRowExists
<1>m. rec[p] \in Memory
  BY <1>0
<1>1. CASE Connect(p)
  <2>. DEFINE m == [rec[p] EXCEPT !.conn = conns + 1]
  <2>0. conns + 1 \in Nat
    BY <1>0
  <2>1. m \in Memory
    BY <2>0, <1>m DEF Memory
  <2>2. /\ m.pc = rec[p].pc /\ m.seg = rec[p].seg
        /\ m.buf = rec[p].buf /\ m.chain = rec[p].chain
    BY <1>m DEF Memory
  <2>3. rec' = [rec EXCEPT ![p] = m] /\ rec[p].pc = "live" /\ conns' \in Nat
    BY <1>1, <1>0 DEF Connect, Listening
  <2>. HIDE DEF m
  <2>. QED BY <2>1, <2>2, <2>3, <1>0, <1>1, OneMemory DEF Connect
<1>2. ASSUME NEW s \in Seq(Nat), NEW c \in Nat, NEW b \in BOOLEAN,
             Listening(p), UNCHANGED <<segments, sealed, lease, age, conns, crashes>>,
             rec' = [rec EXCEPT ![p] = [rec[p] EXCEPT !.pend = s, !.conn = c, !.stop = b]]
      PROVE  TypeInv'
  <2>. DEFINE m == [rec[p] EXCEPT !.pend = s, !.conn = c, !.stop = b]
  <2>1. m \in Memory
    BY <1>m DEF Memory
  <2>2. /\ m.pc = rec[p].pc /\ m.seg = rec[p].seg
        /\ m.buf = rec[p].buf /\ m.chain = rec[p].chain
    BY <1>m DEF Memory
  <2>3. rec' = [rec EXCEPT ![p] = m] /\ rec[p].pc = "live"
    BY <1>2 DEF Listening
  <2>. HIDE DEF m
  <2>. QED BY <2>1, <2>2, <2>3, <1>0, <1>2, OneMemory
<1>c. rec[p].conn \in Nat /\ rec[p].stop \in BOOLEAN /\ NoConn \in Nat
  BY <1>m DEF Memory, NoConn
<1>3. CASE RecordText(p)
  <2>1. <<rec[p].conn>> \in Seq(Nat)
    BY <1>c
  <2>2. rec' = [rec EXCEPT ![p] = [rec[p] EXCEPT !.pend = <<rec[p].conn>>,
                                                 !.conn = rec[p].conn, !.stop = rec[p].stop]]
    BY <1>3, <1>m DEF RecordText, Memory
  <2>. QED BY <2>1, <2>2, <1>c, <1>2, <1>3 DEF RecordText
<1>4. CASE Disconnect(p)
  <2>1. PICK said \in LastWords(rec[p].conn), late \in BOOLEAN :
          rec' = [rec EXCEPT ![p].pend = said \o <<Barrier>>, ![p].conn = NoConn,
                             ![p].stop = late]
    BY <1>4 DEF Disconnect
  <2>2. said \in Seq(Nat)
    <3>1. said \in {<<>>, <<Barrier>>, <<rec[p].conn, Barrier>>}
      BY <2>1 DEF LastWords
    <3>2. <<>> \in Seq(Nat) /\ <<rec[p].conn, Barrier>> \in Seq(Nat)
      BY <1>c DEF Barrier
    <3>. QED BY <3>1, <3>2, BarrierType
  <2>3. said \o <<Barrier>> \in Seq(Nat)
    BY <2>2, BarrierType
  <2>4. rec' = [rec EXCEPT ![p] = [rec[p] EXCEPT !.pend = said \o <<Barrier>>,
                                                 !.conn = NoConn, !.stop = late]]
    BY <2>1
  <2>. QED BY <2>3, <2>4, <1>c, <1>2, <1>4 DEF Disconnect
<1>5. CASE StopCapture(p)
  <2>1. rec' = [rec EXCEPT ![p] = [rec[p] EXCEPT !.pend = <<Barrier>>,
                                                 !.conn = NoConn, !.stop = TRUE]]
    BY <1>5 DEF StopCapture
  <2>. QED BY <2>1, BarrierType, <1>c, <1>2, <1>5 DEF StopCapture
<1>6. CASE CloseUnclean(p)
  <2>. DEFINE m == [rec[p] EXCEPT !.pc = "closing", !.buf = 0]
  <2>1. m \in Memory
    BY <1>m DEF Memory, PCs
  <2>2. m.pc = "closing" /\ m.buf = 0
    BY <1>m DEF Memory
  <2>3. m.buf <= Len(m.chain)
    BY <2>1, <2>2, ChainLength
  <2>4. rec' = [rec EXCEPT ![p] = m] /\ rec[p].pc = "live"
        /\ UNCHANGED <<sealed, lease, conns, crashes>>
    BY <1>6 DEF CloseUnclean, Listening
  <2>5. segments' \in Seq(Row) /\ DOMAIN segments' = DOMAIN segments /\ age' \in 0..AgeCap
    BY <1>6, <1>0, <2>4, WriteBufferType, TouchLeaseType DEF CloseUnclean
  <2>. HIDE DEF m
  <2>. QED BY <2>1, <2>2, <2>3, <2>4, <2>5, <1>0, OneMemory
<1>. QED BY <1>1, <1>3, <1>4, <1>5, <1>6 DEF Feed

LEMMA CrashType ==
    ASSUME TypeInv, NEW p \in Recorders, Crash(p)
    PROVE  TypeInv'
<1>1. Idle.pc = "idle" /\ Idle.buf = 0 /\ Idle.buf <= Len(Idle.chain)
  BY DEF Idle
<1>2. crashes' \in Nat /\ rec' = [rec EXCEPT ![p] = Idle]
      /\ UNCHANGED <<segments, sealed, lease, age, conns>>
  BY DEF Crash, TypeInv, TypeOK
<1>. QED BY <1>1, <1>2, IdleType, OneMemory DEF TypeInv, TypeOK

LEMMA TickType ==
    ASSUME TypeInv, Tick
    PROVE  TypeInv'
<1>1. age' \in 0..AgeCap
  BY TapeBounds DEF Tick, TypeInv, TypeOK, AgeCap
<1>2. ASSUME NEW q \in Recorders
      PROVE  /\ rec'[q] \in Memory
             /\ rec'[q].pc = rec[q].pc /\ rec'[q].seg = rec[q].seg
             /\ rec'[q].buf = rec[q].buf /\ rec'[q].chain = rec[q].chain
  <2>1. rec[q] \in Memory
    BY DEF TypeInv, TypeOK
  <2>2. CASE rec[q].pc = "opening"
    <3>1. rec'[q] = [rec[q] EXCEPT !.lag = @ + 1] /\ rec[q].lag < MaxLag
      BY <2>2 DEF Tick
    <3>2. rec[q].lag + 1 \in 0..MaxLag
      BY <2>1, <3>1, TapeBounds DEF Memory
    <3>. QED BY <2>1, <3>1, <3>2 DEF Memory
  <2>3. CASE rec[q].pc # "opening"
    BY <2>1, <2>3 DEF Tick
  <2>. QED BY <2>2, <2>3
<1>3. DOMAIN rec' = Recorders /\ rec' = [q \in Recorders |-> rec'[q]]
  BY DEF Tick
<1>4. rec' \in [Recorders -> Memory]
  BY <1>2, <1>3
<1>5. UNCHANGED <<segments, sealed, lease, conns, crashes>>
  BY DEF Tick
<1>. QED BY <1>1, <1>2, <1>4, <1>5 DEF TypeInv, TypeOK, BufferIsSuffix, OwnRowExists

LEMMA StepType == TypeInv /\ [Next]_vars => TypeInv'
<1>. SUFFICES ASSUME TypeInv, [Next]_vars PROVE TypeInv'
  OBVIOUS
<1>1. CASE UNCHANGED vars
  BY <1>1 DEF vars, TypeInv, TypeOK, BufferIsSuffix, OwnRowExists
<1>2. CASE Next
  BY <1>2, OpenType, WriteType, FeedType, CrashType, TickType DEF Next
<1>. QED BY <1>1, <1>2

\* Whatever the recorders do, and however their processes die, the ledger, the
\* sealed head and every recorder's memory have the types the code expects.
THEOREM TypeCorrect == Spec => []TypeOK
<1>1. Spec => []TypeInv
  BY InitType, StepType, PTL DEF Spec
<1>2. TypeInv => TypeOK
  BY DEF TypeInv
<1>. QED BY <1>1, <1>2, PTL

----------------------------------------------------------------------------
(* One recorder at a time, on the premise that no heartbeat is stale.      *)

\* Exclusive is not inductive: the holder's heartbeat must also be fresh.
FreshHolder == \A p \in Recorders : Running(p) => lease = p /\ age < StaleAfter

\* Where the one active segment can be while its recorder is at work.
OnlyOwnRowOpen ==
    \A p \in Recorders :
        /\ rec[p].pc \in {"begin", "numbered"} => OpenRows = {}
        /\ rec[p].pc \in {"found", "live", "flush", "seal", "final"}
              => OpenRows \subseteq {rec[p].seg}

ExclusionInv == TypeInv /\ FreshHolder /\ OnlyOwnRowOpen /\ OneActive

LEMMA InitExclusion == Init => ExclusionInv
  BY InitType DEF Init, ExclusionInv, FreshHolder, OnlyOwnRowOpen, OneActive,
                  Running, OpenRows, Idle

\* Two running recorders are the same recorder.
LEMMA OneRunning ==
    ASSUME FreshHolder, NEW p \in Recorders, NEW q \in Recorders, Running(p), Running(q)
    PROVE  p = q
  BY DEF FreshHolder

\* Where open()'s steps that touch no row leave the program counter.
LEMMA OpenMoves ==
    ASSUME rec \in [Recorders -> Memory], NEW p \in Recorders
    PROVE  /\ OpenTape(p) => rec'[p].pc = "opening"
           /\ LeaseRefused(p) => rec'[p].pc = "idle"
           /\ AcquireLease(p) => rec'[p].pc = "leased"
           /\ RecoverRefused(p) => rec'[p].pc = "closing"
<1>1. ASSUME OpenTape(p) PROVE rec'[p].pc = "opening"
  BY <1>1 DEF OpenTape, Idle
<1>2. ASSUME LeaseRefused(p) PROVE rec'[p].pc = "idle"
  BY <1>2 DEF LeaseRefused, Idle
<1>3. ASSUME AcquireLease(p) PROVE rec'[p].pc = "leased"
  BY <1>3 DEF AcquireLease, Memory
<1>4. ASSUME RecoverRefused(p) PROVE rec'[p].pc = "closing"
  BY <1>4 DEF RecoverRefused, Memory
<1>. QED BY <1>1, <1>2, <1>3, <1>4

LEMMA StepFresh ==
    ASSUME ExclusionInv, HeartbeatsInTime', Next
    PROVE  FreshHolder'
<1>0. /\ FreshHolder /\ rec \in [Recorders -> Memory] /\ age \in 0..AgeCap
      /\ StaleAfter \in Nat /\ MaxLag \in Nat /\ MaxQuiet \in Nat
      /\ \A p \in Recorders : rec[p].lag \in 0..MaxLag
  BY TapeBounds DEF ExclusionInv, TypeInv, TypeOK, Memory
<1>1. ASSUME NEW p \in Recorders, Running(p), lease' = lease, age' \in {0, age},
             \A q \in Recorders \ {p} : rec'[q] = rec[q]
      PROVE  FreshHolder'
  BY <1>0, <1>1, TapeBounds DEF FreshHolder, Running
<1>2. ASSUME NEW p \in Recorders, ~ Running(p)', \A q \in Recorders \ {p} : rec'[q] = rec[q],
             lease' = lease /\ age' = age
      PROVE  FreshHolder'
  BY <1>0, <1>2 DEF FreshHolder, Running
<1>3. ASSUME NEW p \in Recorders, Open(p) PROVE FreshHolder'
  <2>1. CASE OpenTape(p) \/ LeaseRefused(p)
    <3>1. ~ Running(p)' /\ lease' = lease /\ age' = age
      <4>1. rec'[p].pc \in {"idle", "opening"}
        BY <1>0, <2>1, OpenMoves
      <4>. QED BY <4>1, <2>1 DEF OpenTape, LeaseRefused, Running
    <3>2. \A q \in Recorders \ {p} : rec'[q] = rec[q]
      BY <1>0, <2>1 DEF OpenTape, LeaseRefused
    <3>. QED BY <3>1, <3>2, <1>2
  <2>2. CASE AcquireLease(p)
    <3>1. \A q \in Recorders : ~ Running(q)
      <4>. SUFFICES ASSUME NEW q \in Recorders, Running(q) PROVE FALSE
        OBVIOUS
      <4>1. lease = q /\ age < StaleAfter
        BY <1>0 DEF FreshHolder
      <4>2. lease # Nobody
        BY <4>1, TapeBounds
      <4>3. age - rec[p].lag >= StaleAfter
        BY <2>2, <4>2 DEF AcquireLease, LeaseIsStale
      <4>. QED BY <4>1, <4>3, <1>0
    <3>2. age' < StaleAfter /\ lease' = p
      BY <2>2, <1>0 DEF AcquireLease, HeartbeatsInTime, Running
    <3>3. \A q \in Recorders \ {p} : rec'[q] = rec[q]
      BY <2>2 DEF AcquireLease
    <3>. QED BY <3>1, <3>2, <3>3 DEF FreshHolder, Running
  <2>3. CASE RecoverSelect(p) \/ RecoverQuarantine(p) \/ RecoverRefused(p)
    <3>1. Running(p) /\ lease' = lease /\ age' = age
      BY <2>3 DEF RecoverSelect, RecoverQuarantine, RecoverRefused, Running
    <3>2. \A q \in Recorders \ {p} : rec'[q] = rec[q]
      BY <2>3, <1>0 DEF RecoverSelect, RecoverQuarantine, RecoverRefused
    <3>. QED BY <3>1, <3>2, <1>1
  <2>. QED BY <1>3, <2>1, <2>2, <2>3 DEF Open
<1>4. ASSUME NEW p \in Recorders, Write(p) PROVE FreshHolder'
  <2>1. CASE ReleaseLease(p)
    <3>1. \A q \in Recorders \ {p} : ~ Running(q)
      BY <2>1, <1>0, OneRunning DEF ReleaseLease, Running
    <3>2. \A q \in Recorders \ {p} : rec'[q] = rec[q]
      BY <2>1 DEF ReleaseLease
    <3>3. ~ Running(p)'
      BY <2>1, <1>0 DEF ReleaseLease, Running, Idle
    <3>. QED BY <3>1, <3>2, <3>3 DEF FreshHolder, Running
  <2>2. CASE FlushOpenMember(p)
    <3>1. Running(p) /\ lease' = lease /\ age' \in {0, age}
      BY <2>2 DEF FlushOpenMember, TouchLease, Running
    <3>2. \A q \in Recorders \ {p} : rec'[q] = rec[q]
      BY <2>2, <1>0 DEF FlushOpenMember
    <3>. QED BY <3>1, <3>2, <1>1
  <2>3. CASE BeginSelect(p) \/ BeginInsert(p) \/ BeginConflict(p) \/ AppendEvent(p)
    <3>1. Running(p) /\ lease' = lease /\ age' = age
      BY <2>3 DEF BeginSelect, BeginInsert, BeginConflict, AppendEvent, Running
    <3>2. \A q \in Recorders \ {p} : rec'[q] = rec[q]
      BY <2>3, <1>0 DEF BeginSelect, BeginInsert, BeginConflict, AppendEvent
    <3>. QED BY <3>1, <3>2, <1>1
  <2>4. CASE SealOpenSegment(p) \/ SealEmpty(p) \/ CloseClean(p)
    <3>1. Running(p) /\ lease' = lease /\ age' = age
      BY <2>4 DEF SealOpenSegment, SealEmpty, CloseClean, Running
    <3>2. \A q \in Recorders \ {p} : rec'[q] = rec[q]
      BY <2>4, <1>0 DEF SealOpenSegment, SealEmpty, CloseClean
    <3>. QED BY <3>1, <3>2, <1>1
  <2>. QED BY <1>4, <2>1, <2>2, <2>3, <2>4 DEF Write
<1>5. ASSUME NEW p \in Recorders, Feed(p) PROVE FreshHolder'
  <2>1. Running(p) /\ lease' = lease
    BY <1>5 DEF Feed, Connect, RecordText, Disconnect, StopCapture, CloseUnclean,
                Listening, Running
  <2>2. age' \in {0, age}
    BY <1>5 DEF Feed, Connect, RecordText, Disconnect, StopCapture, CloseUnclean, TouchLease
  <2>3. \A q \in Recorders \ {p} : rec'[q] = rec[q]
    BY <1>5, <1>0 DEF Feed, Connect, RecordText, Disconnect, StopCapture, CloseUnclean
  <2>. QED BY <2>1, <2>2, <2>3, <1>1
<1>6. ASSUME NEW p \in Recorders, Crash(p) PROVE FreshHolder'
  BY <1>0, <1>2, <1>6 DEF Crash, Running, Idle
<1>7. CASE Tick
  <2>1. \A p \in Recorders : Running(p)' <=> Running(p)
    BY <1>7, <1>0 DEF Tick, Running, Memory
  <2>2. lease' = lease /\ age' <= age + 1
    BY <1>7, <1>0 DEF Tick
  <2>3. \A p \in Recorders : Running(p) => age < MaxQuiet
    BY <1>7, <1>0 DEF Tick, FreshHolder
  <2>4. age' \in Nat
    BY <1>7, <1>0 DEF Tick
  <2>. QED BY <2>1, <2>2, <2>3, <2>4, <1>0 DEF FreshHolder, HeartbeatsInTime
<1>. QED BY <1>3, <1>4, <1>5, <1>6, <1>7 DEF Next

\* A step in which p alone moves, p is the only one running, and the active
\* rows end up where OnlyOwnRowOpen wants them for p.
LEMMA OneMover ==
    ASSUME ExclusionInv, NEW p \in Recorders,
           \A q \in Recorders \ {p} : rec'[q] = rec[q] /\ ~ Running(q),
           rec'[p].pc \in {"begin", "numbered"} => OpenRows' = {},
           rec'[p].pc \in {"found", "live", "flush", "seal", "final"}
              => OpenRows' \subseteq {rec'[p].seg},
           \A i, j \in OpenRows' : i = j
    PROVE  OnlyOwnRowOpen' /\ OneActive'
  BY DEF ExclusionInv, OnlyOwnRowOpen, OneActive, Running

\* A running process moves and the active rows stay.
LEMMA SameRows ==
    ASSUME ExclusionInv, NEW p \in Recorders, segments' = segments,
           \A q \in Recorders \ {p} : rec'[q] = rec[q],
           \/ rec'[p].pc \notin {"begin", "numbered", "found", "live", "flush", "seal", "final"}
           \/ /\ rec[p].pc \in {"begin", "numbered"}
              /\ rec'[p].pc \in {"begin", "numbered"}
           \/ /\ rec[p].pc \in {"live", "flush", "seal", "final"}
              /\ rec'[p].pc \in {"live", "flush", "seal", "final"}
              /\ rec'[p].seg = rec[p].seg
    PROVE  OnlyOwnRowOpen' /\ OneActive'
  BY DEF ExclusionInv, OnlyOwnRowOpen, OneActive, OpenRows

LEMMA StepRows ==
    ASSUME ExclusionInv, Next
    PROVE  OnlyOwnRowOpen' /\ OneActive'
<1>0. /\ FreshHolder /\ rec \in [Recorders -> Memory] /\ segments \in Seq(Row)
      /\ OnlyOwnRowOpen /\ OneActive /\ OwnRowExists
  BY DEF ExclusionInv, TypeInv, TypeOK
<1>1. ASSUME NEW p \in Recorders, Open(p)
      PROVE  OnlyOwnRowOpen' /\ OneActive'
  <2>1. CASE OpenTape(p) \/ AcquireLease(p) \/ LeaseRefused(p) \/ RecoverRefused(p)
    <3>1. rec'[p].pc \in {"idle", "opening", "leased", "closing"}
      BY <2>1, <1>0, OpenMoves
    <3>2. segments' = segments /\ \A q \in Recorders \ {p} : rec'[q] = rec[q]
      BY <2>1, <1>0 DEF OpenTape, AcquireLease, LeaseRefused, RecoverRefused
    <3>. QED BY <3>1, <3>2, SameRows
  <2>2. CASE RecoverSelect(p)
    <3>1. \A q \in Recorders \ {p} : rec'[q] = rec[q] /\ ~ Running(q)
      BY <2>2, <1>0, OneRunning DEF RecoverSelect, Running
    <3>2. /\ rec'[p].pc = "begin" => OpenRows = {}
          /\ rec'[p].pc = "found" => OpenRows = {rec'[p].seg}
          /\ rec'[p].pc \in {"begin", "found"}
      BY <2>2, <1>0 DEF RecoverSelect, Memory
    <3>3. OpenRows' = OpenRows
      BY <2>2 DEF RecoverSelect, OpenRows
    <3>. QED BY <3>1, <3>2, <3>3, <1>0, OneMover DEF OneActive
  <2>3. CASE RecoverQuarantine(p)
    <3>1. \A q \in Recorders \ {p} : rec'[q] = rec[q] /\ ~ Running(q)
      BY <2>3, <1>0, OneRunning DEF RecoverQuarantine, Running
    <3>2. OpenRows \subseteq {rec[p].seg}
      BY <2>3, <1>0 DEF RecoverQuarantine, OnlyOwnRowOpen
    <3>3. OpenRows' = {}
      BY <2>3, <3>2, <1>0 DEF RecoverQuarantine, OpenRows, IsOpenRow, OwnRowExists, Row
    <3>4. rec'[p].pc = "begin"
      BY <2>3, <1>0 DEF RecoverQuarantine, Memory
    <3>. QED BY <3>1, <3>3, <3>4, OneMover
  <2>. QED BY <1>1, <2>1, <2>2, <2>3 DEF Open
<1>2. ASSUME NEW p \in Recorders, Write(p)
      PROVE  OnlyOwnRowOpen' /\ OneActive'
  <2>1. CASE BeginSelect(p) \/ BeginConflict(p) \/ SealEmpty(p) \/ CloseClean(p) \/ ReleaseLease(p)
    <3>1. \/ rec'[p].pc \in {"closing", "idle"}
          \/ rec[p].pc = "begin" /\ rec'[p].pc = "numbered"
          \/ rec[p].pc = "live" /\ rec'[p].pc = "final" /\ rec'[p].seg = rec[p].seg
      <4>1. CASE BeginSelect(p)
        BY <4>1, <1>0 DEF BeginSelect, Memory
      <4>2. CASE BeginConflict(p) \/ SealEmpty(p)
        BY <4>2, <1>0 DEF BeginConflict, SealEmpty, Memory
      <4>3. CASE CloseClean(p)
        BY <4>3, <1>0 DEF CloseClean, Memory
      <4>4. CASE ReleaseLease(p)
        BY <4>4, <1>0 DEF ReleaseLease, Idle
      <4>. QED BY <2>1, <4>1, <4>2, <4>3, <4>4
    <3>2. segments' = segments /\ \A q \in Recorders \ {p} : rec'[q] = rec[q]
      BY <2>1, <1>0 DEF BeginSelect, BeginConflict, SealEmpty, CloseClean, ReleaseLease
    <3>. QED BY <3>1, <3>2, SameRows
  <2>2. CASE AppendEvent(p)
    <3>1. rec[p].pc = "live" /\ segments' = segments
      BY <2>2 DEF AppendEvent
    <3>2. rec'[p].pc \in {"live", "flush", "seal"} /\ rec'[p].seg = rec[p].seg
      BY <2>2, <1>0 DEF AppendEvent, Memory
    <3>3. \A q \in Recorders \ {p} : rec'[q] = rec[q]
      BY <2>2, <1>0 DEF AppendEvent
    <3>. QED BY <3>1, <3>2, <3>3, SameRows
  <2>3. CASE BeginInsert(p)
    <3>1. \A q \in Recorders \ {p} : rec'[q] = rec[q] /\ ~ Running(q)
      BY <2>3, <1>0, OneRunning DEF BeginInsert, Running
    <3>2. OpenRows = {}
      BY <2>3, <1>0 DEF BeginInsert, OnlyOwnRowOpen
    <3>3. OpenRows' \subseteq {rec[p].seg}
      BY <2>3, <3>2, <1>0 DEF BeginInsert, OpenRows, IsOpenRow
    <3>4. rec'[p].pc = "live" /\ rec'[p].seg = rec[p].seg
      BY <2>3, <1>0 DEF BeginInsert, Memory
    <3>. QED BY <3>1, <3>3, <3>4, OneMover
  <2>4. CASE FlushOpenMember(p)
    <3>1. \A q \in Recorders \ {p} : rec'[q] = rec[q] /\ ~ Running(q)
      BY <2>4, <1>0, OneRunning DEF FlushOpenMember, Running
    <3>2. OpenRows' = OpenRows
      BY <2>4, <1>0 DEF FlushOpenMember, WriteBuffer, OpenRows, IsOpenRow, Row
    <3>3. OpenRows \subseteq {rec[p].seg}
      BY <2>4, <1>0 DEF FlushOpenMember, OnlyOwnRowOpen
    <3>4. rec'[p].pc \in {"live", "seal", "final"} /\ rec'[p].seg = rec[p].seg
      BY <2>4, <1>0 DEF FlushOpenMember, Memory
    <3>. QED BY <3>1, <3>2, <3>3, <3>4, OneMover
  <2>5. CASE SealOpenSegment(p)
    <3>1. \A q \in Recorders \ {p} : rec'[q] = rec[q] /\ ~ Running(q)
      BY <2>5, <1>0, OneRunning DEF SealOpenSegment, Running
    <3>2. OpenRows \subseteq {rec[p].seg} /\ rec[p].seg \in DOMAIN segments
      BY <2>5, <1>0 DEF SealOpenSegment, OnlyOwnRowOpen, OwnRowExists
    <3>3. OpenRows' = {}
      BY <2>5, <3>2, <1>0 DEF SealOpenSegment, OpenRows, IsOpenRow, Row
    <3>. QED BY <3>1, <3>3, OneMover
  <2>. QED BY <1>2, <2>1, <2>2, <2>3, <2>4, <2>5 DEF Write
<1>3. ASSUME NEW p \in Recorders, Feed(p)
      PROVE  OnlyOwnRowOpen' /\ OneActive'
  <2>1. CASE Connect(p) \/ RecordText(p) \/ Disconnect(p) \/ StopCapture(p)
    <3>1. rec[p].pc = "live" /\ segments' = segments
      BY <2>1 DEF Connect, RecordText, Disconnect, StopCapture, Listening
    <3>2. rec'[p].pc = rec[p].pc /\ rec'[p].seg = rec[p].seg
      <4>1. CASE Connect(p) \/ RecordText(p)
        BY <4>1, <1>0 DEF Connect, RecordText, Memory
      <4>2. CASE Disconnect(p)
        BY <4>2, <1>0 DEF Disconnect, Memory
      <4>3. CASE StopCapture(p)
        BY <4>3, <1>0 DEF StopCapture, Memory
      <4>. QED BY <2>1, <4>1, <4>2, <4>3
    <3>3. \A q \in Recorders \ {p} : rec'[q] = rec[q]
      BY <2>1, <1>0 DEF Connect, RecordText, Disconnect, StopCapture
    <3>. QED BY <3>1, <3>2, <3>3, SameRows
  <2>2. CASE CloseUnclean(p)
    <3>1. \A q \in Recorders \ {p} : rec'[q] = rec[q] /\ ~ Running(q)
      BY <2>2, <1>0, OneRunning DEF CloseUnclean, Listening, Running
    <3>2. OpenRows' = OpenRows
      <4>1. CASE WriteBuffer(p)
        BY <4>1, <1>0 DEF WriteBuffer, OpenRows, IsOpenRow, Row
      <4>2. CASE segments' = segments
        BY <4>2 DEF OpenRows
      <4>. QED BY <4>1, <4>2, <2>2 DEF CloseUnclean
    <3>3. rec'[p].pc = "closing"
      BY <2>2, <1>0 DEF CloseUnclean, Memory
    <3>. QED BY <3>1, <3>2, <3>3, <1>0, OneMover DEF OneActive
  <2>. QED BY <1>3, <2>1, <2>2 DEF Feed
<1>4. ASSUME NEW p \in Recorders, Crash(p)
      PROVE  OnlyOwnRowOpen' /\ OneActive'
  BY <1>4, <1>0, SameRows DEF Crash, Idle
<1>5. CASE Tick
  <2>1. \A q \in Recorders : rec'[q].pc = rec[q].pc /\ rec'[q].seg = rec[q].seg
    BY <1>5, <1>0 DEF Tick, Memory
  <2>2. OpenRows' = OpenRows
    BY <1>5 DEF Tick, OpenRows
  <2>. QED BY <2>1, <2>2, <1>0 DEF OnlyOwnRowOpen, OneActive
<1>. QED BY <1>1, <1>2, <1>3, <1>4, <1>5 DEF Next

LEMMA StepExclusion == ExclusionInv /\ HeartbeatsInTime' /\ [Next]_vars => ExclusionInv'
<1>. SUFFICES ASSUME ExclusionInv, HeartbeatsInTime', [Next]_vars PROVE ExclusionInv'
  OBVIOUS
<1>1. CASE UNCHANGED vars
  BY <1>1 DEF vars, ExclusionInv, TypeInv, TypeOK, BufferIsSuffix, OwnRowExists, FreshHolder,
              OnlyOwnRowOpen, OneActive, OpenRows, Running
<1>2. CASE Next
  BY <1>2, StepType, StepFresh, StepRows DEF ExclusionInv
<1>. QED BY <1>1, <1>2

\* In every behaviour in which no holder's heartbeat goes stale, whoever is past
\* _acquire_lease holds the lease, for any number of recorders and any limit.
THEOREM LeaseExcludes == Spec => RunningHoldsLease
<1>1. Spec /\ []HeartbeatsInTime => []ExclusionInv
  BY InitExclusion, StepExclusion, PTL DEF Spec
<1>2. ExclusionInv => Exclusive
  BY DEF ExclusionInv, FreshHolder, Exclusive
<1>. QED BY <1>1, <1>2, PTL DEF RunningHoldsLease

\* In the same behaviours two segments are never active at once, so the
\* "impossible" branch of _recover_open_segment is indeed unreachable.
THEOREM OneActiveSegment == Spec => AtMostOneOpenSegment
<1>1. Spec /\ []HeartbeatsInTime => []ExclusionInv
  BY InitExclusion, StepExclusion, PTL DEF Spec
<1>2. ExclusionInv => OneActive
  BY DEF ExclusionInv
<1>. QED BY <1>1, <1>2, PTL DEF AtMostOneOpenSegment

----------------------------------------------------------------------------
(* What ends a lease.                                                      *)

\* A lease ends by its holder's release, or by a successor who finds it stale,
\* for any number of recorders and whatever they overrun: the conditions on
\* active_lease_id in _touch_lease and _release_lease name their own lease.
THEOREM LeaseEnds == Spec => LeaseEndsByHolderOrAge
<1>. DEFINE Ends == \A p \in Recorders :
                       lease = p /\ lease' # p => rec[p].pc = "closing" \/ age >= StaleAfter
<1>1. Spec => []TypeInv
  BY InitType, StepType, PTL DEF Spec
<1>2. TypeInv /\ [Next]_vars => [Ends]_vars
  <2>. SUFFICES ASSUME TypeInv, Next, NEW p \in Recorders, lease = p, lease' # p
                PROVE  rec[p].pc = "closing" \/ age >= StaleAfter
    OBVIOUS
  <2>1. PICK q \in Recorders : AcquireLease(q) \/ ReleaseLease(q)
    BY DEF Next, Open, Write, Feed, Crash, Tick, OpenTape, LeaseRefused, RecoverSelect, RecoverQuarantine,
           RecoverRefused, BeginSelect, BeginInsert, BeginConflict, AppendEvent, FlushOpenMember,
           SealOpenSegment, SealEmpty, CloseClean, Connect, RecordText, Disconnect, StopCapture, CloseUnclean
  <2>2. CASE ReleaseLease(q)
    BY <2>2 DEF ReleaseLease
  <2>3. CASE AcquireLease(q)
    <3>1. rec[q].lag \in Nat /\ age \in Nat /\ StaleAfter \in Nat
      BY TapeBounds DEF TypeInv, TypeOK, Memory, AgeCap
    <3>2. age - rec[q].lag >= StaleAfter
      BY <2>3, TapeBounds DEF AcquireLease, LeaseIsStale
    <3>3. \A a, l, n \in Nat : a - l >= n => a >= n
      OBVIOUS
    <3>. QED BY <3>1, <3>2, <3>3
  <2>. QED BY <2>1, <2>2, <2>3
<1>. QED BY <1>1, <1>2, PTL DEF Spec, LeaseEndsByHolderOrAge

----------------------------------------------------------------------------
(* Gaps are barriered.  A chain outlives the process that wrote it, so what *)
(* is claimed of a recorder's chain is kept of the sealed head and of every *)
(* row a later process may take up; and of a recorder at work it is kept    *)
(* that what its running call has yet to append fits the end of its chain.  *)

Continuous(c) ==
    /\ c # <<>> => c[1].conn = Barrier
    /\ \A k \in 1..(Len(c) - 1) :
          c[k].conn # Barrier /\ c[k + 1].conn # Barrier => c[k].conn = c[k + 1].conn

AtWork(r) == r.pc \in {"begin", "numbered", "live", "flush", "seal"}

\* A frame may come after a barrier or after a frame of its own connection.
Takes(c, conn) == conn # Barrier => c # <<>> /\ c[Len(c)].conn \in {Barrier, conn}

Fits(r) ==
    IF r.pend = <<>> THEN r.chain # <<>> /\ r.chain[Len(r.chain)].conn \in {Barrier, r.conn}
    ELSE /\ Takes(r.chain, r.pend[1])
         /\ Len(r.pend) = 1 => r.pend[1] \in {Barrier, r.conn}
         /\ \A k \in 2..Len(r.pend) : r.pend[k] = Barrier

Sound(r) == Continuous(r.chain) /\ Continuous(r.first) /\ (AtWork(r) => Fits(r))

GapInv ==
    /\ TypeInv
    /\ Continuous(sealed)
    /\ \A i \in DOMAIN segments : Continuous(segments[i].first)
    /\ \A p \in Recorders : Sound(rec[p])

LEMMA IdleSound == Sound(Idle) /\ Continuous(<<>>)
  BY DEF Sound, Continuous, AtWork, Idle

LEMMA InitGap == Init => GapInv
  BY InitType, IdleSound DEF Init, GapInv

\* Only its own process touches a recorder's memory.
LEMMA OthersStay ==
    ASSUME TypeInv, NEW p \in Recorders, Open(p) \/ Write(p) \/ Feed(p) \/ Crash(p),
           NEW q \in Recorders \ {p}
    PROVE  rec'[q] = rec[q]
<1>1. rec \in [Recorders -> Memory]
  BY DEF TypeInv, TypeOK
<1>2. CASE Open(p)
  BY <1>1, <1>2 DEF Open, OpenTape, AcquireLease, LeaseRefused, RecoverSelect, RecoverQuarantine, RecoverRefused
<1>3. CASE Write(p)
  BY <1>1, <1>3 DEF Write, BeginSelect, BeginInsert, BeginConflict, AppendEvent, FlushOpenMember,
                    SealOpenSegment, SealEmpty, CloseClean, ReleaseLease
<1>4. CASE Feed(p)
  BY <1>1, <1>4 DEF Feed, Connect, RecordText, Disconnect, StopCapture, CloseUnclean
<1>5. CASE Crash(p)
  BY <1>1, <1>5 DEF Crash
<1>. QED BY <1>2, <1>3, <1>4, <1>5

\* A segment's predecessor is written once, with its row.
LEMMA FirstsStay ==
    ASSUME TypeInv, NEW p \in Recorders, Open(p) \/ Write(p) \/ Feed(p) \/ Crash(p), ~ BeginInsert(p)
    PROVE  /\ DOMAIN segments' = DOMAIN segments
           /\ \A i \in DOMAIN segments : segments'[i].first = segments[i].first
<1>1. segments \in Seq(Row)
  BY DEF TypeInv, TypeOK
<1>2. ASSUME segments' = segments
      PROVE  /\ DOMAIN segments' = DOMAIN segments
             /\ \A i \in DOMAIN segments : segments'[i].first = segments[i].first
  BY <1>2
<1>3. ASSUME NEW n \in DOMAIN segments, NEW row \in Row, row.first = segments[n].first,
             segments' = [segments EXCEPT ![n] = row]
      PROVE  /\ DOMAIN segments' = DOMAIN segments
             /\ \A i \in DOMAIN segments : segments'[i].first = segments[i].first
  BY <1>1, <1>3
<1>4. ASSUME NEW n \in DOMAIN segments
      PROVE  segments[n] \in Row
  BY <1>1, <1>4
<1>5. ASSUME WriteBuffer(p), rec[p].seg \in DOMAIN segments
      PROVE  /\ DOMAIN segments' = DOMAIN segments
             /\ \A i \in DOMAIN segments : segments'[i].first = segments[i].first
  <2>. DEFINE n == rec[p].seg
              file == segments[n].file \o BufferOf(rec[p])
  <2>1. segments' = [segments EXCEPT ![n] = [segments[n] EXCEPT !.file = file]]
    BY <1>1, <1>5 DEF WriteBuffer
  <2>2. segments[n] \in Row /\ file \in Seq(Event)
    BY <1>1, <1>5, <1>4, BufferType DEF Row, TypeInv, TypeOK, BufferIsSuffix
  <2>. HIDE DEF file
  <2>3. [segments[n] EXCEPT !.file = file] \in Row
       /\ [segments[n] EXCEPT !.file = file].first = segments[n].first
    BY <2>2 DEF Row
  <2>. QED BY <1>3, <1>5, <2>1, <2>3
<1>6. CASE RecoverQuarantine(p)
  <2>. DEFINE n == rec[p].seg
  <2>1. n \in DOMAIN segments
    BY <1>6 DEF RecoverQuarantine, TypeInv, OwnRowExists
  <2>2. segments' = [segments EXCEPT ![n] = [segments[n] EXCEPT !.state = "QUARANTINED"]]
    BY <1>1, <1>6, <2>1 DEF RecoverQuarantine
  <2>3. [segments[n] EXCEPT !.state = "QUARANTINED"] \in Row
       /\ [segments[n] EXCEPT !.state = "QUARANTINED"].first = segments[n].first
    BY <1>4, <2>1 DEF Row, States
  <2>. QED BY <1>3, <2>1, <2>2, <2>3
<1>7. CASE SealOpenSegment(p)
  <2>. DEFINE n == rec[p].seg
              row == [segments[n] EXCEPT !.state = "SEALED", !.last = rec[p].chain]
  <2>1. n \in DOMAIN segments /\ rec[p].chain \in Seq(Event)
    BY <1>7 DEF SealOpenSegment, TypeInv, TypeOK, OwnRowExists, Memory
  <2>2. segments' = segments \/ segments' = [segments EXCEPT ![n] = row]
    BY <1>1, <1>7, <2>1 DEF SealOpenSegment
  <2>3. row \in Row /\ row.first = segments[n].first
    BY <1>4, <2>1 DEF Row, States
  <2>. HIDE DEF row
  <2>. QED BY <1>2, <1>3, <2>1, <2>2, <2>3
<1>8. CASE FlushOpenMember(p) \/ CloseUnclean(p)
  <2>1. rec[p].seg \in DOMAIN segments
    BY <1>8 DEF FlushOpenMember, CloseUnclean, Listening, TypeInv, OwnRowExists
  <2>2. WriteBuffer(p) \/ segments' = segments
    BY <1>8 DEF FlushOpenMember, CloseUnclean
  <2>. QED BY <1>2, <1>5, <2>1, <2>2
<1>9. CASE segments' = segments
  BY <1>2, <1>9
<1>. QED BY <1>6, <1>7, <1>8, <1>9
     DEF Open, Write, Feed, Crash, OpenTape, AcquireLease, LeaseRefused, RecoverSelect, RecoverRefused,
         BeginSelect, BeginConflict, AppendEvent, SealEmpty, CloseClean, ReleaseLease,
         Connect, RecordText, Disconnect, StopCapture

\* One event more.
LEMMA AppendContinuous ==
    ASSUME NEW c \in Seq(Event), NEW e \in Event, Continuous(c), Takes(c, e.conn)
    PROVE  /\ Continuous(Append(c, e))
           /\ Append(c, e) # <<>> /\ Append(c, e)[Len(Append(c, e))] = e
<1>. DEFINE d == Append(c, e)
<1>1. /\ Len(d) = Len(c) + 1 /\ Len(c) \in Nat /\ d[Len(d)] = e /\ d # <<>>
      /\ \A k \in 1..Len(c) : d[k] = c[k]
  OBVIOUS
<1>. HIDE DEF d
<1>2. d[1].conn = Barrier
  <2>1. CASE c = <<>>
    BY <1>1, <2>1 DEF Takes
  <2>2. CASE c # <<>>
    <3>1. 1 \in 1..Len(c)
      BY <2>2
    <3>. QED BY <1>1, <2>2, <3>1 DEF Continuous
  <2>. QED BY <2>1, <2>2
<1>3. ASSUME NEW k \in 1..(Len(d) - 1), d[k].conn # Barrier, d[k + 1].conn # Barrier
      PROVE  d[k].conn = d[k + 1].conn
  <2>1. CASE k = Len(c)
    BY <1>1, <1>3, <2>1 DEF Takes
  <2>2. CASE k # Len(c)
    <3>1. k \in 1..(Len(c) - 1) /\ d[k] = c[k] /\ d[k + 1] = c[k + 1]
      BY <1>1, <2>2
    <3>. QED BY <1>3, <3>1 DEF Continuous
  <2>. QED BY <2>1, <2>2
<1>4. Continuous(d)
  BY <1>2, <1>3 DEF Continuous
<1>. QED BY <1>1, <1>4 DEF d

LEMMA NoLength == \A x \in Seq(Nat) : Len(x) = 0 => x = <<>>
<1>1. \A x \in Seq(Nat) : x # <<>> => Len(x) \in Nat \ {0}
  BY EmptySeq
<1>. QED BY <1>1

LEMMA TailOf ==
    ASSUME NEW x \in Seq(Nat), x # <<>>
    PROVE  /\ Len(x) \in Nat \ {0} /\ Tail(x) \in Seq(Nat) /\ Len(Tail(x)) = Len(x) - 1
           /\ \A k \in 1..(Len(x) - 1) : Tail(x)[k] = x[k + 1]
           /\ Len(x) = 1 => Tail(x) = <<>>
           /\ Len(x) # 1 => Tail(x) # <<>>
<1>1. Len(x) \in Nat \ {0} /\ Tail(x) \in Seq(Nat) /\ Len(Tail(x)) = Len(x) - 1
  OBVIOUS
<1>2. \A k \in 1..(Len(x) - 1) : Tail(x)[k] = x[k + 1]
  OBVIOUS
<1>3. Len(x) = 1 => Tail(x) = <<>>
  <2>1. Len(x) = 1 => Len(Tail(x)) = 0
    BY <1>1
  <2>. QED BY <1>1, <2>1, NoLength
<1>4. Len(x) # 1 => Tail(x) # <<>>
  <2>1. Len(<<>>) = 0
    OBVIOUS
  <2>2. Len(x) # 1 => Len(Tail(x)) # 0
    BY <1>1
  <2>. QED BY <2>1, <2>2
<1>. QED BY <1>1, <1>2, <1>3, <1>4

LEMMA AppendSound ==
    ASSUME GapInv, NEW p \in Recorders, AppendEvent(p)
    PROVE  Sound(rec'[p])
<1>. DEFINE r == rec[p]
            s == rec'[p]
            e == [seg |-> r.seg, conn |-> r.pend[1]]
<1>1. r \in Memory /\ Sound(r) /\ r.pc = "live" /\ r.pend # <<>>
  BY DEF GapInv, TypeInv, TypeOK, AppendEvent
<1>2. /\ s.chain = Append(r.chain, e) /\ s.first = r.first /\ s.conn = r.conn
      /\ s.pend = Tail(r.pend)
  BY <1>1 DEF AppendEvent, GapInv, TypeInv, TypeOK, Memory
<1>3. e \in Event /\ e.conn = r.pend[1] /\ r.chain \in Seq(Event) /\ r.pend \in Seq(Nat)
  BY <1>1 DEF Event, Memory
<1>4. /\ Continuous(r.chain) /\ Continuous(r.first) /\ Takes(r.chain, r.pend[1])
      /\ Len(r.pend) = 1 => r.pend[1] \in {Barrier, r.conn}
      /\ \A k \in 2..Len(r.pend) : r.pend[k] = Barrier
  BY <1>1 DEF Sound, Fits, AtWork
<1>8. Len(r.pend) \in Nat \ {0} /\ r.pend # <<>>
  BY <1>1, <1>3, TailOf
<1>. HIDE DEF r, s, e
<1>5. Continuous(s.chain) /\ s.chain # <<>> /\ s.chain[Len(s.chain)].conn = r.pend[1]
  BY <1>2, <1>3, <1>4, AppendContinuous
<1>6. ASSUME Len(r.pend) = 1 PROVE Sound(s)
  <2>1. s.pend = <<>>
    BY <1>2, <1>3, <1>6, <1>8, TailOf
  <2>2. Fits(s)
    BY <1>2, <1>4, <1>5, <1>6, <2>1 DEF Fits
  <2>. QED BY <1>2, <1>4, <1>5, <2>2 DEF Sound
<1>7. ASSUME Len(r.pend) # 1 PROVE Sound(s)
  <2>1. /\ s.pend # <<>> /\ Len(s.pend) = Len(r.pend) - 1
        /\ \A k \in 1..Len(s.pend) : s.pend[k] = r.pend[k + 1]
    BY <1>2, <1>3, <1>7, <1>8, TailOf
  <2>2. \A k \in 1..Len(s.pend) : s.pend[k] = Barrier
    <3>. SUFFICES ASSUME NEW k \in 1..Len(s.pend) PROVE s.pend[k] = Barrier
      OBVIOUS
    <3>1. Len(r.pend) \in Nat
      BY <1>3
    <3>2. k + 1 \in 2..Len(r.pend)
      BY <2>1, <3>1
    <3>. QED BY <1>4, <2>1, <3>2
  <2>3. 1 \in 1..Len(s.pend)
    BY <1>7, <1>8, <2>1
  <2>4. \A k \in 2..Len(s.pend) : s.pend[k] = Barrier
    BY <2>1, <2>2, <1>3
  <2>5. Takes(s.chain, s.pend[1]) /\ s.pend[1] \in {Barrier, s.conn}
    BY <2>2, <2>3 DEF Takes
  <2>6. Fits(s)
    BY <2>1, <2>4, <2>5 DEF Fits
  <2>. QED BY <1>2, <1>4, <1>5, <2>6 DEF Sound
<1>9. Sound(s)
  BY <1>6, <1>7
<1>. QED BY <1>9 DEF s

\* A memory that keeps its chain and what it has yet to append stays sound.
LEMMA SameSound ==
    ASSUME NEW r, NEW s, Sound(r), s.chain = r.chain, s.first \in {r.first, r.chain},
           AtWork(s) => AtWork(r) /\ s.pend = r.pend /\ s.conn = r.conn
    PROVE  Sound(s)
  BY DEF Sound, Fits

\* A recorder that has a barrier to append may come from anywhere.
LEMMA BarrierSound ==
    ASSUME NEW s, Continuous(s.chain), Continuous(s.first), s.pend = <<Barrier>>
    PROVE  Sound(s)
<1>1. s.pend # <<>> /\ Len(s.pend) = 1 /\ s.pend[1] = Barrier
  OBVIOUS
<1>2. \A k \in 2..Len(s.pend) : FALSE
  BY <1>1
<1>. QED BY <1>1, <1>2 DEF Sound, Fits, Takes

LEMMA OpenSound ==
    ASSUME GapInv, NEW p \in Recorders, Open(p) \/ Crash(p)
    PROVE  Sound(rec'[p])
<1>1. /\ rec \in [Recorders -> Memory] /\ rec[p] \in Memory /\ Sound(rec[p])
      /\ Continuous(sealed)
      /\ \A i \in DOMAIN segments : Continuous(segments[i].first)
  BY DEF GapInv, TypeInv, TypeOK
<1>2. CASE OpenTape(p)
  <2>1. rec'[p].pc = "opening" /\ rec'[p].chain = sealed /\ rec'[p].first = <<>>
    BY <1>1, <1>2 DEF OpenTape, Idle
  <2>. QED BY <1>1, <2>1, IdleSound DEF Sound, AtWork
<1>3. CASE AcquireLease(p) \/ RecoverRefused(p)
  <2>1. rec'[p].pc \in {"leased", "closing"} /\ rec'[p].chain = rec[p].chain /\ rec'[p].first = rec[p].first
    BY <1>1, <1>3 DEF AcquireLease, RecoverRefused, Memory
  <2>. QED BY <1>1, <2>1, SameSound DEF AtWork
<1>4. CASE LeaseRefused(p) \/ Crash(p)
  <2>1. rec'[p] = Idle
    BY <1>1, <1>4 DEF LeaseRefused, Crash
  <2>. QED BY <2>1, IdleSound
<1>5. CASE RecoverSelect(p)
  <2>1. rec'[p].chain = rec[p].chain /\ rec'[p].first = rec[p].first
    BY <1>1, <1>5 DEF RecoverSelect, Memory
  <2>2. rec'[p].pc = "found" \/ rec'[p].pend = <<Barrier>>
    BY <1>1, <1>5 DEF RecoverSelect, Memory
  <2>3. rec'[p].pc = "found" => Sound(rec'[p])
    BY <1>1, <2>1, SameSound DEF AtWork
  <2>4. Continuous(rec'[p].chain) /\ Continuous(rec'[p].first)
    BY <1>1, <2>1 DEF Sound
  <2>. QED BY <2>2, <2>3, <2>4, BarrierSound
<1>6. CASE RecoverQuarantine(p)
  <2>1. rec[p].seg \in DOMAIN segments
    BY <1>6 DEF RecoverQuarantine, GapInv, TypeInv, OwnRowExists
  <2>2. /\ rec'[p].chain = segments[rec[p].seg].first /\ rec'[p].first = rec[p].first
        /\ rec'[p].pend = <<Barrier>>
    BY <1>1, <1>6 DEF RecoverQuarantine, Memory
  <2>. QED BY <1>1, <2>1, <2>2, BarrierSound DEF Sound
<1>. QED BY <1>2, <1>3, <1>4, <1>5, <1>6 DEF Open

LEMMA WriteSound ==
    ASSUME GapInv, NEW p \in Recorders, Write(p)
    PROVE  Sound(rec'[p])
<1>1. rec \in [Recorders -> Memory] /\ rec[p] \in Memory /\ Sound(rec[p])
  BY DEF GapInv, TypeInv, TypeOK
<1>2. CASE BeginSelect(p) \/ BeginInsert(p)
  <2>1. /\ rec'[p].chain = rec[p].chain /\ rec'[p].first \in {rec[p].first, rec[p].chain}
        /\ rec'[p].pend = rec[p].pend /\ rec'[p].conn = rec[p].conn
    BY <1>1, <1>2 DEF BeginSelect, BeginInsert, Memory
  <2>2. AtWork(rec[p])
    BY <1>2 DEF BeginSelect, BeginInsert, AtWork
  <2>. QED BY <1>1, <2>1, <2>2, SameSound
<1>3. CASE FlushOpenMember(p)
  <2>1. /\ rec'[p].chain = rec[p].chain /\ rec'[p].first = rec[p].first
        /\ rec'[p].pend = rec[p].pend /\ rec'[p].conn = rec[p].conn
        /\ rec'[p].pc \in {rec[p].pc, "seal", "live"}
        /\ rec[p].pc # "final" => AtWork(rec[p])
        /\ rec[p].pc = "final" => rec'[p].pc = "final"
    BY <1>1, <1>3 DEF FlushOpenMember, Memory, AtWork
  <2>. QED BY <1>1, <2>1, SameSound DEF AtWork
<1>4. CASE SealOpenSegment(p)
  <2>1. /\ rec'[p].chain = rec[p].chain /\ rec'[p].first = rec[p].first
        /\ rec'[p].pend = rec[p].pend /\ rec'[p].conn = rec[p].conn
    BY <1>1, <1>4 DEF SealOpenSegment, Memory
  <2>2. rec[p].pc = "seal" \/ rec'[p].pc = "closing"
    BY <1>1, <1>4 DEF SealOpenSegment, Memory
  <2>. QED BY <1>1, <2>1, <2>2, SameSound DEF AtWork
<1>5. CASE BeginConflict(p) \/ SealEmpty(p) \/ CloseClean(p)
  <2>1. /\ rec'[p].chain = rec[p].chain /\ rec'[p].first = rec[p].first
        /\ rec'[p].pc \in {"closing", "final"}
    BY <1>1, <1>5 DEF BeginConflict, SealEmpty, CloseClean, Memory
  <2>. QED BY <1>1, <2>1, SameSound DEF AtWork
<1>6. CASE ReleaseLease(p)
  <2>1. rec'[p] = Idle
    BY <1>1, <1>6 DEF ReleaseLease
  <2>. QED BY <2>1, IdleSound
<1>. QED BY <1>2, <1>3, <1>4, <1>5, <1>6, AppendSound DEF Write

LEMMA JoinWords ==
    \A a, b, c \in Nat : <<a>> \o <<b>> = <<a, b>> /\ <<a, b>> \o <<c>> = <<a, b, c>>
<1>. SUFFICES ASSUME NEW a \in Nat, NEW b \in Nat, NEW c \in Nat
              PROVE  <<a>> \o <<b>> = <<a, b>> /\ <<a, b>> \o <<c>> = <<a, b, c>>
  OBVIOUS
<1>. DEFINE x == <<a>> \o <<b>>  y == <<a, b>> \o <<c>>  v == <<a, b>>  w == <<a, b, c>>
<1>1. /\ <<a>> \in Seq(Nat) /\ <<b>> \in Seq(Nat) /\ <<c>> \in Seq(Nat)
      /\ v \in Seq(Nat) /\ w \in Seq(Nat)
  OBVIOUS
<1>2. x \in Seq(Nat) /\ Len(x) = 2 /\ x[1] = a /\ x[2] = b
  BY <1>1
<1>3. y \in Seq(Nat) /\ Len(y) = 3 /\ y[1] = a /\ y[2] = b /\ y[3] = c
  BY <1>1
<1>4. Len(v) = 2 /\ v[1] = a /\ v[2] = b /\ Len(w) = 3 /\ w[1] = a /\ w[2] = b /\ w[3] = c
  OBVIOUS
<1>. HIDE DEF x, y, v, w
<1>5. \A i \in 1..Len(x) : x[i] = v[i]
  BY <1>2, <1>4
<1>6. \A i \in 1..Len(y) : y[i] = w[i]
  BY <1>3, <1>4
<1>7. x = v
  BY <1>1, <1>2, <1>4, <1>5, SeqEqual
<1>8. y = w
  BY <1>1, <1>3, <1>4, <1>6, SeqEqual
<1>. QED BY <1>7, <1>8 DEF x, y, v, w

LEMMA FeedSound ==
    ASSUME GapInv, NEW p \in Recorders, Feed(p)
    PROVE  Sound(rec'[p])
<1>1. /\ rec \in [Recorders -> Memory] /\ rec[p] \in Memory /\ Sound(rec[p])
      /\ Continuous(rec[p].chain) /\ Continuous(rec[p].first)
      /\ rec[p].pc = "live"
  BY DEF GapInv, TypeInv, TypeOK, Sound, Feed, Connect, RecordText, Disconnect, StopCapture,
         CloseUnclean, Listening
<1>2. /\ rec'[p].chain = rec[p].chain /\ rec'[p].first = rec[p].first
  <2>1. CASE Connect(p) \/ RecordText(p)
    BY <1>1, <2>1 DEF Connect, RecordText, Memory
  <2>2. CASE Disconnect(p)
    BY <1>1, <2>2 DEF Disconnect, Memory
  <2>3. CASE StopCapture(p) \/ CloseUnclean(p)
    BY <1>1, <2>3 DEF StopCapture, CloseUnclean, Memory
  <2>. QED BY <2>1, <2>2, <2>3 DEF Feed
\* Between two calls the chain ends with a barrier or with the connection.
<1>3. /\ Listening(p)
         => rec[p].chain # <<>> /\ rec[p].chain[Len(rec[p].chain)].conn \in {Barrier, rec[p].conn}
  BY <1>1 DEF Sound, AtWork, Fits, Listening
<1>4. CASE Connect(p)
  <2>1. /\ rec'[p].pend = <<>> /\ rec'[p].conn = conns + 1 /\ Listening(p) /\ rec[p].conn = Barrier
    BY <1>1, <1>4 DEF Connect, Memory, Listening, Barrier
  <2>2. Fits(rec'[p])
    BY <1>2, <1>3, <2>1 DEF Fits
  <2>. QED BY <1>1, <1>2, <2>2 DEF Sound
<1>5. CASE RecordText(p)
  <2>1. rec'[p].pend = <<rec[p].conn>> /\ rec'[p].conn = rec[p].conn /\ Listening(p)
    BY <1>1, <1>5 DEF RecordText, Memory
  <2>2. /\ rec'[p].pend # <<>> /\ Len(rec'[p].pend) = 1 /\ rec'[p].pend[1] = rec[p].conn
    BY <2>1
  <2>3. \A k \in 2..Len(rec'[p].pend) : FALSE
    BY <2>2
  <2>4. Takes(rec'[p].chain, rec'[p].pend[1])
    BY <1>2, <1>3, <2>1, <2>2 DEF Takes
  <2>5. Fits(rec'[p])
    BY <2>1, <2>2, <2>3, <2>4 DEF Fits
  <2>. QED BY <1>1, <1>2, <2>5 DEF Sound
<1>6. CASE Disconnect(p)
  <2>0. PICK said \in LastWords(rec[p].conn), late \in BOOLEAN :
           rec' = [rec EXCEPT ![p].pend = said \o <<Barrier>>, ![p].conn = NoConn,
                              ![p].stop = late]
    BY <1>6, Zenon DEF Disconnect
  <2>1. rec'[p].pend = said \o <<Barrier>> /\ rec'[p].conn = NoConn
    BY <1>1, <2>0 DEF Memory
  <2>2. \/ rec'[p].pend = <<Barrier>>
        \/ rec'[p].pend = <<Barrier, Barrier>>
        \/ rec'[p].pend = <<rec[p].conn, Barrier, Barrier>>
    <3>1. said \in {<<>>, <<Barrier>>, <<rec[p].conn, Barrier>>}
      BY DEF LastWords
    <3>2. <<>> \o <<Barrier>> = <<Barrier>>
      BY BarrierType, ConcatEmptySeq
    <3>3. <<Barrier>> \o <<Barrier>> = <<Barrier, Barrier>>
      BY JoinWords DEF Barrier, NoConn
    <3>4. <<rec[p].conn, Barrier>> \o <<Barrier>> = <<rec[p].conn, Barrier, Barrier>>
      <4>1. rec[p].conn \in Nat /\ Barrier \in Nat
        BY <1>1 DEF Memory, Barrier, NoConn
      <4>. QED BY <4>1, JoinWords
    <3>. QED BY <2>1, <3>1, <3>2, <3>3, <3>4
  <2>3. CASE rec'[p].pend = <<Barrier>>
    BY <1>1, <1>2, <2>3, BarrierSound
  <2>4. CASE rec'[p].pend = <<Barrier, Barrier>>
    <3>1. /\ rec'[p].pend # <<>> /\ Len(rec'[p].pend) = 2 /\ rec'[p].pend[1] = Barrier
          /\ rec'[p].pend[2] = Barrier
      BY <2>4
    <3>2. \A k \in 2..2 : rec'[p].pend[k] = Barrier
      BY <3>1
    <3>3. Fits(rec'[p])
      BY <3>1, <3>2 DEF Fits, Takes
    <3>. QED BY <1>1, <1>2, <3>3 DEF Sound
  <2>5. CASE rec'[p].pend = <<rec[p].conn, Barrier, Barrier>>
    <3>1. /\ rec'[p].pend # <<>> /\ Len(rec'[p].pend) = 3 /\ rec'[p].pend[1] = rec[p].conn
          /\ rec'[p].pend[2] = Barrier /\ rec'[p].pend[3] = Barrier
      BY <2>5
    <3>2. Takes(rec'[p].chain, rec[p].conn)
      BY <1>2, <1>3, <1>6 DEF Takes, Disconnect
    <3>3. \A k \in 2..3 : rec'[p].pend[k] = Barrier
      BY <3>1
    <3>4. Fits(rec'[p])
      BY <3>1, <3>2, <3>3 DEF Fits
    <3>. QED BY <1>1, <1>2, <3>4 DEF Sound
  <2>. QED BY <2>2, <2>3, <2>4, <2>5
<1>7. CASE StopCapture(p)
  <2>1. rec'[p].pend = <<Barrier>>
    BY <1>1, <1>7 DEF StopCapture, Memory
  <2>. QED BY <1>1, <1>2, <2>1, BarrierSound
<1>8. CASE CloseUnclean(p)
  <2>1. rec'[p].pc = "closing"
    BY <1>1, <1>8 DEF CloseUnclean, Memory
  <2>. QED BY <1>1, <1>2, <2>1 DEF Sound, AtWork
<1>. QED BY <1>4, <1>5, <1>6, <1>7, <1>8 DEF Feed

LEMMA StepGap == GapInv /\ [Next]_vars => GapInv'
<1>. SUFFICES ASSUME GapInv, [Next]_vars PROVE GapInv'
  OBVIOUS
<1>1. TypeInv /\ TypeInv'
  BY StepType DEF GapInv
<1>2. CASE UNCHANGED vars
  BY <1>1, <1>2 DEF GapInv, vars
<1>3. CASE Tick
  <2>1. ASSUME NEW q \in Recorders PROVE Sound(rec'[q])
    <3>1. rec[q] \in Memory /\ Sound(rec[q])
      BY DEF GapInv, TypeInv, TypeOK
    <3>2. /\ rec'[q].chain = rec[q].chain /\ rec'[q].first = rec[q].first
          /\ rec'[q].pend = rec[q].pend /\ rec'[q].conn = rec[q].conn /\ rec'[q].pc = rec[q].pc
      BY <1>3, <3>1 DEF Tick, Memory
    <3>. QED BY <3>1, <3>2, SameSound DEF AtWork
  <2>. QED BY <1>1, <1>3, <2>1 DEF GapInv, Tick
<1>4. ASSUME NEW p \in Recorders, Open(p) \/ Write(p) \/ Feed(p) \/ Crash(p)
      PROVE  GapInv'
  <2>1. Sound(rec'[p])
    BY <1>4, OpenSound, WriteSound, FeedSound
  <2>2. \A q \in Recorders : Sound(rec'[q])
    BY <1>1, <1>4, <2>1, OthersStay DEF GapInv
  <2>3. Continuous(sealed')
    <3>1. sealed' = sealed \/ sealed' = rec[p].chain
      BY <1>4 DEF Open, Write, Feed, Crash, OpenTape, AcquireLease, LeaseRefused, RecoverSelect,
         RecoverQuarantine, RecoverRefused, BeginSelect, BeginInsert, BeginConflict, AppendEvent,
         FlushOpenMember, SealOpenSegment, SealEmpty, CloseClean, ReleaseLease, Connect, RecordText,
         Disconnect, StopCapture, CloseUnclean
    <3>. QED BY <3>1 DEF GapInv, Sound
  <2>4. \A i \in DOMAIN segments' : Continuous(segments'[i].first)
    <3>1. CASE BeginInsert(p)
      <4>1. segments \in Seq(Row)
        BY <1>1 DEF TypeInv, TypeOK
      <4>2. /\ DOMAIN segments' = DOMAIN segments \cup {Len(segments) + 1}
            /\ segments'[Len(segments) + 1].first = rec[p].first
            /\ \A i \in DOMAIN segments : segments'[i] = segments[i]
        BY <3>1, <4>1 DEF BeginInsert
      <4>. QED BY <4>2 DEF GapInv, Sound
    <3>2. CASE ~ BeginInsert(p)
      BY <1>1, <1>4, <3>2, FirstsStay DEF GapInv
    <3>. QED BY <3>1, <3>2
  <2>. QED BY <1>1, <2>2, <2>3, <2>4 DEF GapInv
<1>. QED BY <1>2, <1>3, <1>4 DEF Next

\* No recorder presents a gap as continuous evidence: over any crashes,
\* restarts, takeovers and disconnects of any number of recorders, neighbouring
\* frames of a chain come from one connection, and a chain begins with a barrier.
THEOREM GapsStayBarriered == Spec => []GapsAreBarriered
<1>1. GapInv => GapsAreBarriered
  BY DEF GapInv, Sound, Continuous, GapsAreBarriered
<1>. QED BY InitGap, StepGap, <1>1, PTL DEF Spec

----------------------------------------------------------------------------
(* The sealed evidence.  open() reads the sealed head before it asks for   *)
(* the lease, so the theorems need two premises of the deployment: no two  *)
(* recorders past _acquire_lease, which LeaseExcludes derives from fresh   *)
(* heartbeats, and no seal between a recorder's reading of the head and    *)
(* its lease.  Both hold when one recorder at a time is started.           *)

Alone == \A p, q \in Recorders : Running(p) /\ Running(q) => p = q
HeadIsCurrent == \A p \in Recorders : rec[p].pc = "leased" => rec[p].chain = sealed
Undisturbed == Alone /\ HeadIsCurrent

SealedIn(rows) == {i \in DOMAIN rows : rows[i].state = "SEALED"}
SealedBefore(rows, i) == {j \in SealedIn(rows) : j < i}

\* c is what the newest of the rows S ends with.
EndsWith(rows, S, c) ==
    IF S = {} THEN c = <<>> ELSE \E m \in S : c = rows[m].last /\ \A j \in S : j <= m

\* The sealed rows are one chain that leads to head, and the active row, if
\* there is one, is the newest and continues it.
Evidence(rows, head) ==
    /\ \A i \in SealedIn(rows) : /\ EndsWith(rows, SealedBefore(rows, i), rows[i].first)
                                 /\ Replays(rows[i].first, rows[i].file, rows[i].last)
    /\ EndsWith(rows, SealedIn(rows), head)
    /\ \A i \in DOMAIN rows : IsOpenRow(rows[i]) => i = Len(rows) /\ rows[i].first = head

OpenIn(rows) == {i \in DOMAIN rows : IsOpenRow(rows[i])}

\* A recorder at work continues the sealed head, in the active segment if any.
Continues(r, rows, head) ==
    /\ r.pc = "found" => r.seg \in OpenIn(rows)
    /\ r.pc \in {"begin", "numbered"} => OpenIn(rows) = {} /\ r.chain = head
    /\ r.pc = "numbered" => r.first = r.chain
    /\ r.pc \in {"live", "flush", "seal", "final"}
          => r.seg \in OpenIn(rows) /\ r.first = rows[r.seg].first

SealInv ==
    /\ TypeInv
    /\ Evidence(segments, sealed)
    /\ \A p \in Recorders : Continues(rec[p], segments, sealed)

LEMMA InitSeal == Init => SealInv
<1>. SUFFICES ASSUME Init PROVE SealInv
  OBVIOUS
<1>1. segments = <<>> /\ sealed = <<>> /\ \A p \in Recorders : rec[p] = Idle
  BY DEF Init
<1>2. DOMAIN segments = {} /\ SealedIn(segments) = {}
  BY <1>1 DEF SealedIn
<1>3. Evidence(segments, sealed)
  BY <1>1, <1>2 DEF Evidence, EndsWith
<1>4. \A p \in Recorders : Continues(rec[p], segments, sealed)
  BY <1>1 DEF Continues, Idle
<1>. QED BY <1>3, <1>4, InitType DEF SealInv

\* A change of the active row alone, which may end with it quarantined.
LEMMA ActiveRowChanges ==
    ASSUME NEW rows, NEW new, NEW head, Evidence(rows, head),
           DOMAIN new = DOMAIN rows, Len(new) = Len(rows),
           NEW k \in DOMAIN rows, IsOpenRow(rows[k]),
           \A i \in DOMAIN rows \ {k} : new[i] = rows[i],
           new[k].state \in {"OPEN", "QUARANTINED"}, new[k].first = rows[k].first
    PROVE  Evidence(new, head)
<1>1. SealedIn(new) = SealedIn(rows) /\ \A i \in SealedIn(rows) : new[i] = rows[i]
  BY DEF SealedIn, IsOpenRow
<1>2. \A i : SealedBefore(new, i) = SealedBefore(rows, i)
  BY <1>1 DEF SealedBefore
<1>3. \A c : \A S \in SUBSET SealedIn(rows) : EndsWith(rows, S, c) => EndsWith(new, S, c)
  BY <1>1 DEF EndsWith
<1>4. \A i : SealedBefore(rows, i) \in SUBSET SealedIn(rows)
  BY DEF SealedBefore
<1>5. ASSUME NEW i \in SealedIn(new)
      PROVE  /\ EndsWith(new, SealedBefore(new, i), new[i].first)
             /\ Replays(new[i].first, new[i].file, new[i].last)
  BY <1>1, <1>2, <1>3, <1>4, <1>5 DEF Evidence
<1>6. EndsWith(new, SealedIn(new), head)
  BY <1>1, <1>3 DEF Evidence
<1>7. \A i \in DOMAIN new : IsOpenRow(new[i]) => i = Len(new) /\ new[i].first = head
  BY DEF Evidence
<1>. QED BY <1>5, <1>6, <1>7 DEF Evidence

\* A segment is begun after the sealed head when none is active.
LEMMA ActiveRowBegins ==
    ASSUME NEW rows, rows \in Seq(Row), NEW head, Evidence(rows, head),
           \A i \in DOMAIN rows : ~ IsOpenRow(rows[i]),
           NEW row \in Row, IsOpenRow(row), row.first = head
    PROVE  Evidence(Append(rows, row), head)
<1>. DEFINE new == Append(rows, row)
            n == Len(rows)
<1>0. n \in Nat /\ DOMAIN rows = 1..n /\ DOMAIN new = 1..(n + 1) /\ Len(new) = n + 1
      /\ new[n + 1] = row /\ \A i \in 1..n : new[i] = rows[i]
  OBVIOUS
<1>. HIDE DEF new, n
<1>1. SealedIn(new) = SealedIn(rows) /\ \A i \in SealedIn(rows) : new[i] = rows[i]
  BY <1>0 DEF SealedIn, IsOpenRow
<1>2. \A i : SealedBefore(new, i) = SealedBefore(rows, i)
  BY <1>1 DEF SealedBefore
<1>3. \A c : \A S \in SUBSET SealedIn(rows) : EndsWith(rows, S, c) => EndsWith(new, S, c)
  BY <1>1 DEF EndsWith
<1>4. \A i : SealedBefore(rows, i) \in SUBSET SealedIn(rows)
  BY DEF SealedBefore
<1>5. ASSUME NEW i \in SealedIn(new)
      PROVE  /\ EndsWith(new, SealedBefore(new, i), new[i].first)
             /\ Replays(new[i].first, new[i].file, new[i].last)
  BY <1>1, <1>2, <1>3, <1>4, <1>5 DEF Evidence
<1>6. EndsWith(new, SealedIn(new), head)
  BY <1>1, <1>3 DEF Evidence
<1>7. \A i \in DOMAIN new : IsOpenRow(new[i]) => i = Len(new) /\ new[i].first = head
  BY <1>0
<1>8. Evidence(new, head)
  BY <1>5, <1>6, <1>7 DEF Evidence
<1>. QED BY <1>8 DEF new

\* The active row is sealed and its end becomes the head.
LEMMA ActiveRowSealed ==
    ASSUME NEW rows, rows \in Seq(Row), NEW head, Evidence(rows, head),
           NEW k \in DOMAIN rows, IsOpenRow(rows[k]),
           NEW new, NEW c, DOMAIN new = DOMAIN rows, Len(new) = Len(rows),
           \A i \in DOMAIN rows \ {k} : new[i] = rows[i],
           new[k].state = "SEALED", new[k].last = c, new[k].first = rows[k].first,
           new[k].file = rows[k].file, Replays(rows[k].first, rows[k].file, c)
    PROVE  Evidence(new, c)
<1>1. k = Len(rows) /\ rows[k].first = head /\ DOMAIN rows = 1..k /\ k \in Nat
  BY DEF Evidence
<1>2. k \notin SealedIn(rows) /\ SealedIn(new) = SealedIn(rows) \cup {k}
      /\ SealedIn(rows) \subseteq 1..k
      /\ \A i \in SealedIn(rows) : new[i] = rows[i]
  BY <1>1 DEF SealedIn, IsOpenRow
<1>3. \A i \in SealedIn(rows) : SealedBefore(new, i) = SealedBefore(rows, i)
  BY <1>1, <1>2 DEF SealedBefore
<1>4. SealedBefore(new, k) = SealedIn(rows)
  BY <1>1, <1>2 DEF SealedBefore
<1>5. \A d : \A S \in SUBSET SealedIn(rows) : EndsWith(rows, S, d) => EndsWith(new, S, d)
  BY <1>2 DEF EndsWith
<1>6. \A i : SealedBefore(rows, i) \in SUBSET SealedIn(rows)
  BY DEF SealedBefore
<1>7. ASSUME NEW i \in SealedIn(new)
      PROVE  /\ EndsWith(new, SealedBefore(new, i), new[i].first)
             /\ Replays(new[i].first, new[i].file, new[i].last)
  <2>1. CASE i = k
    BY <1>1, <1>4, <1>5, <2>1 DEF Evidence
  <2>2. CASE i # k
    <3>1. i \in SealedIn(rows) /\ new[i] = rows[i]
      BY <1>2, <1>7, <2>2
    <3>. QED BY <1>3, <1>5, <1>6, <3>1 DEF Evidence
  <2>. QED BY <2>1, <2>2
<1>8. EndsWith(new, SealedIn(new), c)
  BY <1>1, <1>2 DEF EndsWith
<1>9. \A i \in DOMAIN new : ~ IsOpenRow(new[i])
  BY DEF Evidence, IsOpenRow
<1>. QED BY <1>7, <1>8, <1>9 DEF Evidence

LEMMA OpenInRows == OpenIn(segments) = OpenRows
  BY DEF OpenIn, OpenRows

\* A recorder that keeps its place and the rows as they are.
LEMMA QuietContinues ==
    ASSUME SealInv, HeadIsCurrent, NEW p \in Recorders,
           Open(p) \/ Write(p) \/ Feed(p) \/ Crash(p),
           segments' = segments, sealed' = sealed,
           ~ BeginInsert(p), ~ SealOpenSegment(p), ~ RecoverQuarantine(p)
    PROVE  Continues(rec'[p], segments, sealed)
<1>1. /\ rec \in [Recorders -> Memory] /\ rec[p] \in Memory
      /\ Continues(rec[p], segments, sealed) /\ OpenIn(segments) = OpenRows
  BY OpenInRows DEF SealInv, TypeInv, TypeOK
<1>2. CASE OpenTape(p) \/ AcquireLease(p) \/ RecoverRefused(p) \/ BeginConflict(p) \/ SealEmpty(p)
           \/ CloseUnclean(p)
  <2>1. rec'[p].pc \in {"opening", "leased", "closing"}
    <3>0. CASE OpenTape(p)
      BY <1>1, <3>0 DEF OpenTape, Idle
    <3>1. CASE AcquireLease(p)
      BY <1>1, <3>1 DEF AcquireLease, Memory
    <3>2. CASE RecoverRefused(p) \/ BeginConflict(p) \/ SealEmpty(p)
      BY <1>1, <3>2 DEF RecoverRefused, BeginConflict, SealEmpty, Memory
    <3>3. CASE CloseUnclean(p)
      BY <1>1, <3>3 DEF CloseUnclean, Memory
    <3>. QED BY <1>2, <3>0, <3>1, <3>2, <3>3
  <2>. QED BY <2>1 DEF Continues
<1>3. CASE LeaseRefused(p) \/ ReleaseLease(p) \/ Crash(p)
  <2>1. rec'[p].pc = "idle"
    BY <1>1, <1>3 DEF LeaseRefused, ReleaseLease, Crash, Idle
  <2>. QED BY <2>1 DEF Continues
<1>4. CASE RecoverSelect(p)
  <2>1. rec[p].pc = "leased" /\ rec[p].chain = sealed /\ rec'[p].chain = rec[p].chain
    BY <1>1, <1>4 DEF RecoverSelect, HeadIsCurrent, Memory
  <2>2. \/ rec'[p].pc = "begin" /\ OpenRows = {}
        \/ rec'[p].pc = "found" /\ rec'[p].seg \in OpenRows
    BY <1>1, <1>4 DEF RecoverSelect, Memory
  <2>. QED BY <1>1, <2>1, <2>2 DEF Continues
<1>5. CASE BeginSelect(p)
  <2>1. /\ rec[p].pc = "begin" /\ rec'[p].pc = "numbered"
        /\ rec'[p].first = rec[p].chain /\ rec'[p].chain = rec[p].chain
    BY <1>1, <1>5 DEF BeginSelect, Memory
  <2>. QED BY <1>1, <2>1 DEF Continues
<1>6. CASE AppendEvent(p) \/ FlushOpenMember(p) \/ CloseClean(p)
  <2>1. /\ rec[p].pc \in {"live", "flush", "seal", "final"}
        /\ rec'[p].pc \in {"live", "flush", "seal", "final"}
        /\ rec'[p].seg = rec[p].seg /\ rec'[p].first = rec[p].first
    <3>1. CASE AppendEvent(p)
      BY <1>1, <3>1 DEF AppendEvent, Memory
    <3>2. CASE FlushOpenMember(p)
      BY <1>1, <3>2 DEF FlushOpenMember, Memory
    <3>3. CASE CloseClean(p)
      BY <1>1, <3>3 DEF CloseClean, Memory
    <3>. QED BY <1>6, <3>1, <3>2, <3>3
  <2>. QED BY <1>1, <2>1 DEF Continues
<1>7. CASE Connect(p) \/ RecordText(p) \/ Disconnect(p) \/ StopCapture(p)
  <2>1. /\ rec[p].pc = "live" /\ rec'[p].pc = "live"
        /\ rec'[p].seg = rec[p].seg /\ rec'[p].first = rec[p].first
    <3>1. CASE Connect(p) \/ RecordText(p)
      BY <1>1, <3>1 DEF Connect, RecordText, Listening, Memory
    <3>2. CASE Disconnect(p)
      BY <1>1, <3>2 DEF Disconnect, Listening, Memory
    <3>3. CASE StopCapture(p)
      BY <1>1, <3>3 DEF StopCapture, Listening, Memory
    <3>. QED BY <1>7, <3>1, <3>2, <3>3
  <2>. QED BY <1>1, <2>1 DEF Continues
<1>. QED BY <1>2, <1>3, <1>4, <1>5, <1>6, <1>7 DEF Open, Write, Feed

\* The other recorders are not at work when one of them is.
LEMMA OthersContinue ==
    ASSUME SealInv, Alone, NEW p \in Recorders, Running(p),
           Open(p) \/ Write(p) \/ Feed(p) \/ Crash(p)
    PROVE  \A q \in Recorders \ {p} : Continues(rec'[q], segments', sealed')
<1>. SUFFICES ASSUME NEW q \in Recorders \ {p} PROVE Continues(rec'[q], segments', sealed')
  OBVIOUS
<1>1. rec'[q] = rec[q]
  BY OthersStay DEF SealInv
<1>2. rec[q].pc \in {"idle", "opening"}
  BY DEF Alone, Running
<1>. QED BY <1>1, <1>2 DEF Continues

\* Only what a recorder does to its own active row changes a row.
LEMMA Writes ==
    ASSUME SealInv, NEW p \in Recorders, rec[p].seg \in DOMAIN segments, IsOpenRow(segments[rec[p].seg]),
           WriteBuffer(p)
    PROVE  /\ Evidence(segments', sealed)
           /\ OpenIn(segments') = OpenIn(segments)
           /\ segments'[rec[p].seg].first = segments[rec[p].seg].first
           /\ \A i \in SealedIn(segments) : segments'[i] = segments[i]
<1>. DEFINE k == rec[p].seg
            b == segments[k].file \o BufferOf(rec[p])
<1>1. segments \in Seq(Row) /\ Evidence(segments, sealed) /\ segments[k] \in Row
  BY DEF SealInv, TypeInv, TypeOK
<1>2. segments' = [segments EXCEPT ![k].file = b]
  BY DEF WriteBuffer
<1>. HIDE DEF b
<1>3. /\ DOMAIN segments' = DOMAIN segments /\ Len(segments') = Len(segments)
      /\ \A i \in DOMAIN segments \ {k} : segments'[i] = segments[i]
      /\ segments'[k] = [segments[k] EXCEPT !.file = b]
  BY <1>1, <1>2
<1>4. /\ segments'[k].state = segments[k].state /\ segments'[k].first = segments[k].first
  BY <1>1, <1>3 DEF Row
<1>. HIDE DEF k
<1>5. /\ k \in DOMAIN segments /\ IsOpenRow(segments[k]) /\ segments'[k].state \in {"OPEN", "QUARANTINED"}
  BY <1>4 DEF k, IsOpenRow
<1>6. Evidence(segments', sealed)
  BY <1>1, <1>3, <1>4, <1>5, ActiveRowChanges
<1>7. OpenIn(segments') = OpenIn(segments) /\ \A i \in SealedIn(segments) : segments'[i] = segments[i]
  BY <1>3, <1>4, <1>5 DEF OpenIn, IsOpenRow, SealedIn
<1>. QED BY <1>4, <1>6, <1>7 DEF k

\* The steps that leave the rows and the head alone.
LEMMA RowsStay ==
    ASSUME NEW p \in Recorders, Open(p) \/ Write(p) \/ Feed(p) \/ Crash(p),
           ~ RecoverQuarantine(p), ~ BeginInsert(p), ~ SealOpenSegment(p), ~ FlushOpenMember(p),
           ~ CloseUnclean(p)
    PROVE  segments' = segments /\ sealed' = sealed
<1>1. CASE Open(p) \/ Crash(p)
  BY <1>1 DEF Open, Crash, OpenTape, AcquireLease, LeaseRefused, RecoverSelect, RecoverRefused
<1>2. CASE Write(p)
  BY <1>2 DEF Write, BeginSelect, BeginConflict, AppendEvent, SealEmpty, CloseClean, ReleaseLease
<1>3. CASE Feed(p)
  BY <1>3 DEF Feed, Connect, RecordText, Disconnect, StopCapture
<1>. QED BY <1>1, <1>2, <1>3

\* What a step of recorder p does to the evidence.
Keeps(p) ==
    /\ Evidence(segments', sealed')
    /\ Continues(rec'[p], segments', sealed')
    /\ \A i \in SealedIn(segments) : segments'[i] = segments[i]
    /\ IsPrefix(sealed, sealed')

LEMMA PrefixOfItself == \A s \in Seq(Event) : IsPrefix(s, s)
  BY DEF IsPrefix

LEMMA PrefixOfMore ==
    ASSUME NEW s \in Seq(Event), NEW t \in Seq(Event)
    PROVE  IsPrefix(s, s \o t)
<1>. DEFINE c == s \o t
            n == Len(s)
            x == SubSeq(s, 1, n)
            y == SubSeq(c, 1, n)
<1>1. /\ c \in Seq(Event) /\ n \in Nat /\ Len(c) \in Nat /\ n <= Len(c)
      /\ \A i \in 1..n : c[i] = s[i] /\ s[i] \in Event
  OBVIOUS
<1>. HIDE DEF c, n
<1>2. /\ x \in Seq(Event) /\ Len(x) = n /\ \A i \in 1..n : x[i] = s[i]
  BY <1>1
<1>3. /\ y \in Seq(Event) /\ Len(y) = n /\ \A i \in 1..n : y[i] = c[i]
  BY <1>1
<1>. HIDE DEF x, y
<1>4. x = y
  BY <1>1, <1>2, <1>3, SeqEqual
<1>. QED BY <1>1, <1>4 DEF IsPrefix, x, y, c, n

LEMMA StepKeeps ==
    ASSUME SealInv, HeadIsCurrent, NEW p \in Recorders, Open(p) \/ Write(p) \/ Feed(p) \/ Crash(p)
    PROVE  Keeps(p)
<1>1. /\ rec \in [Recorders -> Memory] /\ rec[p] \in Memory /\ segments \in Seq(Row)
      /\ sealed \in Seq(Event) /\ IsPrefix(sealed, sealed) /\ Evidence(segments, sealed)
      /\ Continues(rec[p], segments, sealed) /\ OpenIn(segments) = OpenRows
  BY OpenInRows, PrefixOfItself DEF SealInv, TypeInv, TypeOK
<1>2. CASE RecoverQuarantine(p)
  <2>. DEFINE k == rec[p].seg
  <2>1. k \in OpenIn(segments) /\ k \in DOMAIN segments /\ IsOpenRow(segments[k])
    BY <1>1, <1>2 DEF RecoverQuarantine, Continues, OpenIn
  <2>2. segments' = [segments EXCEPT ![k].state = "QUARANTINED"] /\ sealed' = sealed
    BY <1>2 DEF RecoverQuarantine
  <2>3. rec'[p].pc = "begin" /\ rec'[p].chain = segments[k].first
    BY <1>1, <1>2 DEF RecoverQuarantine, Memory
  <2>. HIDE DEF k
  <2>4. /\ DOMAIN segments' = DOMAIN segments /\ Len(segments') = Len(segments)
        /\ \A i \in DOMAIN segments \ {k} : segments'[i] = segments[i]
        /\ segments'[k] = [segments[k] EXCEPT !.state = "QUARANTINED"] /\ segments[k] \in Row
    BY <1>1, <2>1, <2>2
  <2>5. segments'[k].state = "QUARANTINED" /\ segments'[k].first = segments[k].first
    BY <2>4 DEF Row
  <2>6. segments[k].first = sealed /\ \A i \in OpenIn(segments) : i = k
    BY <1>1, <2>1 DEF Evidence, OpenIn
  <2>7. Evidence(segments', sealed)
    BY <1>1, <2>1, <2>4, <2>5, ActiveRowChanges
  <2>8. OpenIn(segments') = {}
    BY <2>4, <2>5, <2>6 DEF OpenIn, IsOpenRow
  <2>9. Continues(rec'[p], segments', sealed')
    BY <2>2, <2>3, <2>6, <2>8 DEF Continues
  <2>10. \A i \in SealedIn(segments) : segments'[i] = segments[i]
    BY <2>1, <2>4 DEF SealedIn, IsOpenRow
  <2>. QED BY <1>1, <2>2, <2>7, <2>9, <2>10 DEF Keeps
<1>3. CASE BeginInsert(p)
  <2>. DEFINE row == [state |-> "OPEN", first |-> rec[p].first, last |-> <<>>, file |-> <<>>]
  <2>1. /\ rec[p].pc = "numbered" /\ rec[p].seg = Len(segments) + 1
        /\ segments' = Append(segments, row) /\ sealed' = sealed
    BY <1>3 DEF BeginInsert
  <2>2. /\ rec'[p].pc = "live" /\ rec'[p].seg = rec[p].seg /\ rec'[p].first = rec[p].first
    BY <1>1, <1>3 DEF BeginInsert, Memory
  <2>3. rec[p].first = sealed /\ OpenIn(segments) = {}
    BY <1>1, <2>1 DEF Continues
  <2>4. row \in Row /\ IsOpenRow(row) /\ row.first = sealed
    BY <1>1, <2>3 DEF Row, States, IsOpenRow, Memory
  <2>. HIDE DEF row
  <2>5. \A i \in DOMAIN segments : ~ IsOpenRow(segments[i])
    BY <2>3 DEF OpenIn
  <2>6. Evidence(segments', sealed)
    BY <1>1, <2>1, <2>4, <2>5, ActiveRowBegins
  <2>7. /\ Len(segments) + 1 \in DOMAIN segments' /\ segments'[Len(segments) + 1] = row
        /\ \A i \in DOMAIN segments : segments'[i] = segments[i]
    BY <1>1, <2>1
  <2>8. Continues(rec'[p], segments', sealed')
    BY <2>1, <2>2, <2>3, <2>4, <2>7 DEF Continues, OpenIn
  <2>9. \A i \in SealedIn(segments) : segments'[i] = segments[i]
    BY <2>7 DEF SealedIn
  <2>. QED BY <1>1, <2>1, <2>6, <2>8, <2>9 DEF Keeps
<1>4. CASE SealOpenSegment(p)
  <2>. DEFINE k == rec[p].seg
              c == rec[p].chain
  <2>1. k \in DOMAIN segments /\ IsOpenRow(segments[k]) /\ rec[p].first = segments[k].first
    BY <1>1, <1>4 DEF SealOpenSegment, Continues, OpenIn
  <2>2. /\ Replays(segments[k].first, segments[k].file, c) /\ sealed' = c
        /\ segments' = [segments EXCEPT ![k].state = "SEALED", ![k].last = c]
    BY <1>4, <2>1 DEF SealOpenSegment
  <2>3. rec'[p].pc \in {"begin", "closing"} /\ rec'[p].chain = c
    BY <1>1, <1>4 DEF SealOpenSegment, Memory
  <2>. HIDE DEF k, c
  <2>4. /\ DOMAIN segments' = DOMAIN segments /\ Len(segments') = Len(segments)
        /\ \A i \in DOMAIN segments \ {k} : segments'[i] = segments[i]
        /\ segments'[k] = [segments[k] EXCEPT !.state = "SEALED", !.last = c] /\ segments[k] \in Row
    BY <1>1, <2>1, <2>2
  <2>5. /\ segments'[k].state = "SEALED" /\ segments'[k].last = c
        /\ segments'[k].first = segments[k].first /\ segments'[k].file = segments[k].file
    BY <2>4 DEF Row
  <2>6. Evidence(segments', c)
    BY <1>1, <2>1, <2>2, <2>4, <2>5, ActiveRowSealed
  <2>7. segments[k].first = sealed /\ \A i \in OpenIn(segments) : i = k
    BY <1>1, <2>1 DEF Evidence, OpenIn
  <2>8. OpenIn(segments') = {}
    BY <2>4, <2>5, <2>7 DEF OpenIn, IsOpenRow
  <2>9. Continues(rec'[p], segments', sealed')
    BY <2>2, <2>3, <2>8 DEF Continues
  <2>10. \A i \in SealedIn(segments) : segments'[i] = segments[i]
    BY <2>1, <2>4 DEF SealedIn, IsOpenRow
  <2>11. IsPrefix(sealed, c)
    <3>1. segments[k].file \in Seq(Event)
      BY <2>4 DEF Row
    <3>2. sealed \o segments[k].file = c
      BY <2>2, <2>7, Zenon DEF Replays
    <3>. QED BY <1>1, <3>1, <3>2, PrefixOfMore
  <2>. QED BY <2>2, <2>6, <2>9, <2>10, <2>11 DEF Keeps
<1>5. CASE FlushOpenMember(p)
  <2>1. /\ rec[p].pc \in {"flush", "seal", "final"} /\ rec'[p].pc \in {"live", "flush", "seal", "final"}
        /\ rec'[p].seg = rec[p].seg /\ rec'[p].first = rec[p].first
        /\ WriteBuffer(p) /\ sealed' = sealed
    BY <1>1, <1>5 DEF FlushOpenMember, Memory
  <2>2. rec[p].seg \in OpenIn(segments) /\ rec[p].first = segments[rec[p].seg].first
    BY <1>1, <2>1 DEF Continues
  <2>3. /\ Evidence(segments', sealed)
        /\ OpenIn(segments') = OpenIn(segments)
        /\ segments'[rec[p].seg].first = segments[rec[p].seg].first
        /\ \A i \in SealedIn(segments) : segments'[i] = segments[i]
    BY <2>1, <2>2, Writes DEF OpenIn
  <2>4. Continues(rec'[p], segments', sealed')
    BY <2>1, <2>2, <2>3 DEF Continues
  <2>. QED BY <1>1, <2>1, <2>3, <2>4 DEF Keeps
<1>6. CASE CloseUnclean(p)
  <2>1. /\ rec[p].pc = "live" /\ rec'[p].pc = "closing" /\ sealed' = sealed
        /\ WriteBuffer(p) \/ segments' = segments
    BY <1>1, <1>6 DEF CloseUnclean, Listening, Memory
  <2>2. rec[p].seg \in OpenIn(segments)
    BY <1>1, <2>1 DEF Continues
  <2>3. Evidence(segments', sealed) /\ \A i \in SealedIn(segments) : segments'[i] = segments[i]
    BY <1>1, <2>1, <2>2, Writes DEF OpenIn
  <2>4. Continues(rec'[p], segments', sealed')
    BY <2>1 DEF Continues
  <2>. QED BY <1>1, <2>1, <2>3, <2>4 DEF Keeps
<1>7. CASE ~ (RecoverQuarantine(p) \/ BeginInsert(p) \/ SealOpenSegment(p) \/ FlushOpenMember(p)
              \/ CloseUnclean(p))
  <2>1. segments' = segments /\ sealed' = sealed
    BY <1>7, RowsStay
  <2>2. Continues(rec'[p], segments, sealed)
    BY <1>7, <2>1, QuietContinues
  <2>. QED BY <1>1, <2>1, <2>2 DEF Keeps
<1>. QED BY <1>2, <1>3, <1>4, <1>5, <1>6, <1>7

\* The others: one of them is not at work in a step that changes rows or head.
LEMMA OthersKeep ==
    ASSUME SealInv, Alone, NEW p \in Recorders, Open(p) \/ Write(p) \/ Feed(p) \/ Crash(p),
           NEW q \in Recorders \ {p}
    PROVE  Continues(rec'[q], segments', sealed')
<1>1. rec'[q] = rec[q] /\ Continues(rec[q], segments, sealed)
  BY OthersStay DEF SealInv
<1>2. CASE Running(p)
  BY <1>2, OthersContinue
<1>3. CASE ~ Running(p)
  <2>1. segments' = segments /\ sealed' = sealed
    BY <1>3, RowsStay DEF Running, RecoverQuarantine, BeginInsert, SealOpenSegment, FlushOpenMember,
                          CloseUnclean, Listening
  <2>. QED BY <1>1, <2>1
<1>. QED BY <1>2, <1>3

LEMMA StepSeal == SealInv /\ Undisturbed /\ [Next]_vars => SealInv'
<1>. SUFFICES ASSUME SealInv, Undisturbed, [Next]_vars PROVE SealInv'
  OBVIOUS
<1>0. TypeInv'
  BY StepType DEF SealInv
<1>1. CASE UNCHANGED vars
  BY <1>0, <1>1 DEF SealInv, vars
<1>2. CASE Tick
  <2>1. ASSUME NEW q \in Recorders PROVE Continues(rec'[q], segments', sealed')
    <3>1. rec[q] \in Memory /\ Continues(rec[q], segments, sealed)
      BY DEF SealInv, TypeInv, TypeOK
    <3>2. /\ rec'[q].chain = rec[q].chain /\ rec'[q].first = rec[q].first
          /\ rec'[q].seg = rec[q].seg /\ rec'[q].pc = rec[q].pc
          /\ segments' = segments /\ sealed' = sealed
      BY <1>2, <3>1 DEF Tick, Memory
    <3>. QED BY <3>1, <3>2 DEF Continues
  <2>. QED BY <1>0, <1>2, <2>1 DEF SealInv, Tick
<1>3. ASSUME NEW p \in Recorders, Open(p) \/ Write(p) \/ Feed(p) \/ Crash(p)
      PROVE  SealInv'
  <2>1. Keeps(p)
    BY <1>3, StepKeeps DEF Undisturbed
  <2>2. \A q \in Recorders : Continues(rec'[q], segments', sealed')
    BY <1>3, <2>1, OthersKeep DEF Keeps, Undisturbed
  <2>. QED BY <1>0, <2>1, <2>2 DEF SealInv, Keeps
<1>. QED BY <1>1, <1>2, <1>3 DEF Next

LEMMA MaxIs ==
    ASSUME NEW S \in SUBSET Nat, NEW m \in S, \A j \in S : j <= m
    PROVE  Max(S) = m
<1>1. \A x \in S : (\A y \in S : x >= y) => x = m
  <2>. SUFFICES ASSUME NEW x \in S, \A y \in S : x >= y PROVE x = m
    OBVIOUS
  <2>1. x >= m /\ x <= m /\ x \in Nat /\ m \in Nat
    OBVIOUS
  <2>. QED BY <2>1
<1>2. \A y \in S : m >= y
  OBVIOUS
<1>. QED BY <1>1, <1>2 DEF Max

\* With no active row the replay of verify() walks exactly the sealed rows.
LEMMA QuiescentChain ==
    ASSUME segments \in Seq(Row), Evidence(segments, sealed), OpenRows = {}
    PROVE  VerifyAccepts
<1>1. /\ Kept = SealedIn(segments) /\ SealedIn(segments) \subseteq 1..Len(segments)
      /\ DOMAIN segments = 1..Len(segments) /\ Len(segments) \in Nat
  <2>1. \A i \in DOMAIN segments : segments[i].state \in States /\ segments[i].state # "OPEN"
    <3>1. \A i \in DOMAIN segments : segments[i] \in Row
      OBVIOUS
    <3>2. \A row \in Row : row.state \in States
      BY DEF Row
    <3>3. \A i \in DOMAIN segments : segments[i].state # "OPEN"
      BY Zenon DEF OpenRows, IsOpenRow
    <3>. QED BY <3>1, <3>2, <3>3
  <2>. QED BY <2>1 DEF Kept, SealedIn, States
<1>2. ASSUME NEW i \in Nat, NEW c, EndsWith(segments, SealedBefore(segments, i), c)
      PROVE  c = ChainBefore(i)
  <2>. DEFINE S == SealedBefore(segments, i)
  <2>1. {j \in Kept : j < i} = S /\ S \in SUBSET Nat
    BY <1>1 DEF SealedBefore
  <2>. HIDE DEF S
  <2>2. CASE S = {}
    BY <1>2, <2>1, <2>2 DEF S, EndsWith, ChainBefore
  <2>3. CASE S # {}
    <3>1. PICK m \in S : c = segments[m].last /\ \A j \in S : j <= m
      BY <1>2, <2>3 DEF S, EndsWith
    <3>2. Max(S) = m
      BY <2>1, <3>1, MaxIs
    <3>. QED BY <2>1, <2>3, <3>1, <3>2 DEF ChainBefore
  <2>. QED BY <2>2, <2>3
<1>3. SealedBefore(segments, Len(segments) + 1) = SealedIn(segments)
  BY <1>1 DEF SealedBefore
<1>4. ASSUME NEW i \in Kept
      PROVE  /\ segments[i].state = "SEALED"
             /\ segments[i].first = ChainBefore(i)
             /\ Replays(segments[i].first, segments[i].file, segments[i].last)
  BY <1>1, <1>2 DEF Evidence, SealedIn
<1>5. sealed = ChainBefore(Len(segments) + 1)
  BY <1>1, <1>2, <1>3 DEF Evidence
<1>. QED BY <1>4, <1>5 DEF VerifyAccepts

LEMMA SealInvVerifies == SealInv => VerifyAcceptsQuiescentTape
  BY QuiescentChain DEF SealInv, TypeInv, TypeOK, VerifyAcceptsQuiescentTape

\* In every behaviour in which no two recorders are past _acquire_lease and each
\* takes its lease on the head it read, verify() accepts the tape whenever it has
\* no active segment, after any crashes, takeovers and rotations.
THEOREM QuiescentTapeVerifies == Spec => ([]Undisturbed => []VerifyAcceptsQuiescentTape)
<1>1. Spec /\ []Undisturbed => []SealInv
  BY InitSeal, StepSeal, PTL DEF Spec
<1>. QED BY <1>1, SealInvVerifies, PTL

\* In the same behaviours no step changes a sealed row or takes back any of the
\* sealed head.
THEOREM SealedIsFinal == Spec => ([]Undisturbed => SealedEvidenceIsFinal)
<1>. DEFINE Final == /\ \A i \in DOMAIN segments :
                           segments[i].state = "SEALED" => segments'[i] = segments[i]
                     /\ IsPrefix(sealed, sealed')
<1>1. Spec /\ []Undisturbed => []SealInv
  BY InitSeal, StepSeal, PTL DEF Spec
<1>2. SealInv /\ Undisturbed /\ [Next]_vars => [Final]_vars
  <2>. SUFFICES ASSUME SealInv, Undisturbed, Next PROVE Final
    BY DEF vars
  <2>1. CASE Tick
    BY <2>1, PrefixOfItself DEF Tick, SealInv, TypeInv, TypeOK
  <2>2. ASSUME NEW p \in Recorders, Open(p) \/ Write(p) \/ Feed(p) \/ Crash(p) PROVE Final
    BY <2>2, StepKeeps DEF Undisturbed, Keeps, SealedIn
  <2>. QED BY <2>1, <2>2 DEF Next
<1>. QED BY <1>1, <1>2, PTL DEF Spec, SealedEvidenceIsFinal

\* The premise holds when one recorder at a time is started, stale or not, as in
\* the run of one recorder: then nobody moves the head between its two readings.
OneAtATime == \A p, q \in Recorders : rec[p].pc # "idle" /\ rec[q].pc # "idle" => p = q

OpenedOnHead == \A p \in Recorders : rec[p].pc \in {"opening", "leased"} => rec[p].chain = sealed

\* Nobody is opening after a step of _append, of a seal or of the loop.
LEMMA WorkersMove ==
    ASSUME rec \in [Recorders -> Memory], NEW p \in Recorders, Write(p) \/ Feed(p) \/ Crash(p)
    PROVE  rec'[p].pc \notin {"opening", "leased"}
<1>0. rec[p] \in Memory
  OBVIOUS
<1>1. CASE BeginSelect(p) \/ BeginInsert(p) \/ BeginConflict(p)
  BY <1>0, <1>1 DEF BeginSelect, BeginInsert, BeginConflict, Memory
<1>2. CASE AppendEvent(p)
  BY <1>0, <1>2 DEF AppendEvent, Memory
<1>3. CASE FlushOpenMember(p)
  BY <1>0, <1>3 DEF FlushOpenMember, Memory
<1>4. CASE SealOpenSegment(p) \/ SealEmpty(p) \/ CloseClean(p)
  BY <1>0, <1>4 DEF SealOpenSegment, SealEmpty, CloseClean, Memory
<1>5. CASE ReleaseLease(p) \/ Crash(p)
  BY <1>0, <1>5 DEF ReleaseLease, Crash, Idle
<1>6. CASE Connect(p) \/ RecordText(p) \/ StopCapture(p)
  <2>1. CASE Connect(p)
    BY <1>0, <2>1 DEF Connect, Listening, Memory
  <2>2. CASE RecordText(p)
    BY <1>0, <2>2 DEF RecordText, Listening, Memory
  <2>3. CASE StopCapture(p)
    BY <1>0, <2>3 DEF StopCapture, Listening, Memory
  <2>. QED BY <1>6, <2>1, <2>2, <2>3
<1>7. CASE Disconnect(p)
  BY <1>0, <1>7 DEF Disconnect, Listening, Memory
<1>8. CASE CloseUnclean(p)
  BY <1>0, <1>8 DEF CloseUnclean, Memory
<1>. QED BY <1>1, <1>2, <1>3, <1>4, <1>5, <1>6, <1>7, <1>8 DEF Write, Feed

LEMMA StepOpened == TypeInv /\ OneAtATime /\ OneAtATime' /\ OpenedOnHead /\ [Next]_vars => OpenedOnHead'
<1>. SUFFICES ASSUME TypeInv, OneAtATime, OneAtATime', OpenedOnHead, [Next]_vars,
                     NEW q \in Recorders, rec'[q].pc \in {"opening", "leased"}
              PROVE  rec'[q].chain = sealed'
  BY DEF OpenedOnHead
<1>0. /\ rec \in [Recorders -> Memory] /\ rec[q] \in Memory
      /\ rec[q].pc \in {"opening", "leased"} => rec[q].chain = sealed
  BY DEF TypeInv, TypeOK, OpenedOnHead
<1>1. CASE UNCHANGED vars
  BY <1>0, <1>1 DEF vars
<1>2. CASE Tick
  BY <1>0, <1>2 DEF Tick, Memory
<1>3. ASSUME NEW p \in Recorders, Open(p) \/ Write(p) \/ Feed(p) \/ Crash(p)
      PROVE  rec'[q].chain = sealed'
  <2>1. CASE p = q
    <3>1. OpenTape(p) \/ AcquireLease(p)
      <4>1. CASE Open(p)
        BY <1>0, <2>1, <4>1 DEF Open, LeaseRefused, RecoverSelect, RecoverQuarantine, RecoverRefused, Idle, Memory
      <4>2. CASE Write(p) \/ Feed(p) \/ Crash(p)
        BY <1>0, <2>1, <4>2, WorkersMove
      <4>. QED BY <1>3, <4>1, <4>2
    <3>2. CASE OpenTape(p)
      BY <1>0, <2>1, <3>2 DEF OpenTape, Idle
    <3>3. CASE AcquireLease(p)
      BY <1>0, <2>1, <3>3 DEF AcquireLease, Memory
    <3>. QED BY <3>1, <3>2, <3>3
  <2>2. CASE p # q
    <3>1. rec'[q] = rec[q]
      BY <1>3, <2>2, OthersStay
    <3>2. rec[p].pc = "idle"
      BY <1>0, <2>2, <3>1 DEF OneAtATime
    <3>3. sealed' = sealed
      BY <1>3, <3>2, RowsStay DEF RecoverQuarantine, BeginInsert, SealOpenSegment, FlushOpenMember,
                                  CloseUnclean, Listening
    <3>. QED BY <1>0, <3>1, <3>3
  <2>. QED BY <2>1, <2>2
<1>. QED BY <1>1, <1>2, <1>3 DEF Next

\* Capture runs that do not overlap leave a tape that verify() accepts and never
\* touch sealed evidence, whatever kills them.
THEOREM SeparateRunsVerify ==
    Spec => ([]OneAtATime => []VerifyAcceptsQuiescentTape /\ SealedEvidenceIsFinal)
<1>1. Init => OpenedOnHead
  BY DEF Init, OpenedOnHead, Idle
<1>2. Spec => []TypeInv
  BY InitType, StepType, PTL DEF Spec
<1>3. Spec /\ []OneAtATime => []OpenedOnHead
  BY <1>1, <1>2, StepOpened, PTL DEF Spec
<1>4. OneAtATime /\ OpenedOnHead => Undisturbed
  BY DEF OneAtATime, OpenedOnHead, Undisturbed, Alone, HeadIsCurrent, Running
<1>. QED BY <1>3, <1>4, QuiescentTapeVerifies, SealedIsFinal, PTL

============================================================================
