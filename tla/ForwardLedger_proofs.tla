----------------------- MODULE ForwardLedger_proofs ------------------------
(***************************************************************************)
(* Theorems about ForwardLedger, for any processes, symbols, archives and  *)
(* strategy.  An entry is sound when everything in it can be computed from *)
(* its chain; what a transaction does to an entry keeps it so.             *)
(***************************************************************************)
EXTENDS ForwardLedger, TLAPS, FiniteSetTheorems, SequenceTheorems

RowAt(chain, m) == [minute |-> m, content |-> chain[m + 1], before |-> SubSeq(chain, 1, m)]
WindowAt(chain, m) == SubSeq(chain, m - Window + 2, m + 1)

\* The minutes at which the strategy emits an intent, on this chain.
Decides(chain, n) ==
    /\ n >= BlindStart
    /\ IsDecision(n)
    /\ n + 1 >= Window
    /\ WindowAt(chain, n) \in Signals

\* What the last bar of a chain adds to them.
Final(chain, n) ==
    IF Decides(chain, n) THEN {[minute |-> n, window |-> WindowAt(chain, n)]} ELSE {}

Replayed(chain) ==
    {[minute |-> m, window |-> WindowAt(chain, m)] :
        m \in {n \in 0..(Len(chain) - 1) : Decides(chain, n)}}

Sound(e) ==
    /\ e.last = Len(e.head) - 1
    /\ e.count = Len(e.head)
    /\ e.bars = {RowAt(e.head, m) : m \in 0..(Len(e.head) - 1)}
    /\ IsFiniteSet(e.bars) /\ Cardinality(e.bars) = Len(e.head)
    /\ e.intents = Replayed(e.head)
    /\ IsFiniteSet(e.intents) /\ Cardinality(e.intents) = e.emitted

----------------------------------------------------------------------------
(* Chains.                                                                 *)

LEMMA GrownChain ==
    ASSUME NEW chain \in Seq(Contents), NEW c \in Contents
    PROVE  /\ Append(chain, c) \in Seq(Contents)
           /\ Len(Append(chain, c)) = Len(chain) + 1
           /\ \A i \in 1..Len(chain) : Append(chain, c)[i] = chain[i]
           /\ Append(chain, c)[Len(chain) + 1] = c
  BY AppendProperties

IsPart(part, chain, a, b) ==
    /\ part \in Seq(Contents)
    /\ Len(part) = IF a <= b THEN b - a + 1 ELSE 0
    /\ \A i \in 1..(b - a + 1) : part[i] = chain[a + i - 1]

LEMMA Part ==
    ASSUME NEW chain \in Seq(Contents), NEW a \in Nat \ {0}, NEW b \in Nat, b <= Len(chain)
    PROVE  IsPart(SubSeq(chain, a, b), chain, a, b)
  <1>1. \A i \in a..b : chain[i] \in Contents
    BY ElementOfSeq
  <1>2. QED
    BY <1>1, SubSeqProperties DEF IsPart

LEMMA SamePart ==
    ASSUME NEW chain \in Seq(Contents), NEW longer \in Seq(Contents),
           NEW a \in Nat \ {0}, NEW b \in Nat, b <= Len(chain), b <= Len(longer),
           \A i \in 1..b : longer[i] = chain[i]
    PROVE  SubSeq(longer, a, b) = SubSeq(chain, a, b)
  <1>1. IsPart(SubSeq(longer, a, b), longer, a, b)
    BY Part
  <1>2. IsPart(SubSeq(chain, a, b), chain, a, b)
    BY Part
  <1>3. \A i \in 1..Len(SubSeq(longer, a, b)) :
           SubSeq(longer, a, b)[i] = SubSeq(chain, a, b)[i]
    <2>1. TAKE i \in 1..Len(SubSeq(longer, a, b))
    <2>2. i \in 1..(b - a + 1)
      BY <2>1, <1>1 DEF IsPart
    <2>3. a + i - 1 \in 1..b
      BY <2>2
    <2>4. QED
      BY <2>2, <2>3, <1>1, <1>2 DEF IsPart
  <1>4. QED
    BY <1>1, <1>2, <1>3, SeqEqual DEF IsPart

\* What lies before the end of a chain is not changed by what is appended.
LEMMA PartOfGrown ==
    ASSUME NEW chain \in Seq(Contents), NEW c \in Contents,
           NEW a \in Nat \ {0}, NEW b \in Nat, b <= Len(chain)
    PROVE  SubSeq(Append(chain, c), a, b) = SubSeq(chain, a, b)
  <1>1. Append(chain, c) \in Seq(Contents)
    BY GrownChain
  <1>2. b <= Len(Append(chain, c))
    BY GrownChain
  <1>3. \A i \in 1..b : Append(chain, c)[i] = chain[i]
    BY GrownChain
  <1>4. QED
    BY <1>1, <1>2, <1>3, SamePart

\* The chain is what lies before the bar that is appended to it.
LEMMA WholeOfGrown ==
    ASSUME NEW chain \in Seq(Contents), NEW c \in Contents
    PROVE  SubSeq(Append(chain, c), 1, Len(chain)) = chain
  <1>1. SubSeq(Append(chain, c), 1, Len(chain)) = SubSeq(chain, 1, Len(chain))
    BY PartOfGrown
  <1>2. IsPart(SubSeq(chain, 1, Len(chain)), chain, 1, Len(chain))
    BY Part
  <1>3. Len(SubSeq(chain, 1, Len(chain))) = Len(chain)
        /\ \A i \in 1..Len(chain) : SubSeq(chain, 1, Len(chain))[i] = chain[i]
    BY <1>2 DEF IsPart
  <1>4. SubSeq(chain, 1, Len(chain)) = chain
    BY <1>2, <1>3, SeqEqual DEF IsPart
  <1>5. QED
    BY <1>1, <1>4

----------------------------------------------------------------------------
(* One entry.                                                              *)

LEMMA RowsOfChain ==
    ASSUME NEW e \in Entry, Sound(e)
    PROVE  /\ Len(e.head) \in Nat
           /\ \A r \in e.bars : r.minute \in 0..(Len(e.head) - 1) /\ r = RowAt(e.head, r.minute)
           /\ \A m \in 0..(Len(e.head) - 1) : RowAt(e.head, m) \in e.bars
  <1>1. Len(e.head) \in Nat
    BY DEF Entry
  <1>2. e.bars = {RowAt(e.head, m) : m \in 0..(Len(e.head) - 1)}
    BY DEF Sound
  <1>3. \A m : RowAt(e.head, m).minute = m
    BY DEF RowAt
  <1>4. \A r \in e.bars : r.minute \in 0..(Len(e.head) - 1) /\ r = RowAt(e.head, r.minute)
    BY <1>2, <1>3
  <1>5. \A m \in 0..(Len(e.head) - 1) : RowAt(e.head, m) \in e.bars
    BY <1>2
  <1>6. QED
    BY <1>1, <1>4, <1>5

\* A sound entry passes verify_integrity.
LEMMA SoundBarsVerify ==
    ASSUME NEW e \in Entry, Sound(e)
    PROVE  BarsVerify(StateRow(e), e.bars)
  <1> DEFINE n == Len(e.head)
  <1>1. n \in Nat /\ e.head \in Seq(Contents)
    BY DEF Entry
  <1>2. Cardinality(e.bars) = n /\ e.last = n - 1 /\ e.count = n
    BY DEF Sound
  <1>3. \A r \in e.bars : r.minute \in 0..(n - 1) /\ r = RowAt(e.head, r.minute)
    BY RowsOfChain
  <1>4. \A m \in 0..(n - 1) : RowAt(e.head, m) \in e.bars
    BY RowsOfChain
  <1> HIDE DEF n
  <1>5. {r.minute : r \in e.bars} = 0..(n - 1)
    <2>1. \A m \in 0..(n - 1) : RowAt(e.head, m).minute = m
      BY DEF RowAt
    <2>2. QED
      BY <1>3, <1>4, <2>1
  <1>6. \A m \in 0..(n - 1) : IsPart(SubSeq(e.head, 1, m), e.head, 1, m)
    BY <1>1, Part DEF n
  <1>7. \A r \in e.bars : r.minute = 0 => r.before = <<>>
    <2>1. TAKE r \in e.bars
    <2>2. HAVE r.minute = 0
    <2>3. r.before = SubSeq(e.head, 1, 0) /\ 0 \in 0..(n - 1)
      BY <1>3, <2>2 DEF RowAt
    <2>4. SubSeq(e.head, 1, 0) \in Seq(Contents) /\ Len(SubSeq(e.head, 1, 0)) = 0
      BY <1>6, <2>3 DEF IsPart
    <2>5. QED
      BY <2>3, <2>4, EmptySeq
  <1>8. \A m \in 0..(n - 1) : SubSeq(e.head, 1, m + 1) = Append(SubSeq(e.head, 1, m), e.head[m + 1])
    <2>1. TAKE m \in 0..(n - 1)
    <2> DEFINE short == SubSeq(e.head, 1, m)
               long == SubSeq(e.head, 1, m + 1)
    <2>2. IsPart(short, e.head, 1, m)
      BY <1>6
    <2>3. IsPart(long, e.head, 1, m + 1)
      BY <1>1, Part DEF n
    <2>4. e.head[m + 1] \in Contents
      BY <1>1, ElementOfSeq DEF n
    <2> HIDE DEF short, long
    <2>5. short \in Seq(Contents) /\ Len(short) = m /\ \A i \in 1..m : short[i] = e.head[i]
      BY <2>2 DEF IsPart
    <2>6. long \in Seq(Contents) /\ Len(long) = m + 1
          /\ \A i \in 1..(m + 1) : long[i] = e.head[i]
      BY <2>3 DEF IsPart
    <2> DEFINE appended == Append(short, e.head[m + 1])
    <2>7. /\ appended \in Seq(Contents)
          /\ Len(appended) = m + 1
          /\ \A i \in 1..m : appended[i] = short[i]
          /\ appended[m + 1] = e.head[m + 1]
      BY <2>4, <2>5, GrownChain
    <2> HIDE DEF appended
    <2>8. \A i \in 1..Len(long) : long[i] = appended[i]
      <3>1. TAKE i \in 1..Len(long)
      <3>2. CASE i = m + 1
        BY <3>2, <2>6, <2>7
      <3>3. CASE i \in 1..m
        BY <3>3, <2>5, <2>6, <2>7
      <3>4. QED
        BY <3>2, <3>3, <2>6
    <2>9. long = appended
      BY <2>6, <2>7, <2>8, SeqEqual
    <2>10. QED
      BY <2>9 DEF long, appended, short
  <1>9. \A r \in e.bars, q \in e.bars :
            q.minute = r.minute + 1 => q.before = Append(r.before, r.content)
    <2>1. TAKE r \in e.bars, q \in e.bars
    <2>2. HAVE q.minute = r.minute + 1
    <2>3. r.before = SubSeq(e.head, 1, r.minute) /\ r.content = e.head[r.minute + 1]
      BY <1>3 DEF RowAt
    <2>4. q.before = SubSeq(e.head, 1, r.minute + 1)
      BY <1>3, <2>2 DEF RowAt
    <2>5. r.minute \in 0..(n - 1)
      BY <1>3
    <2>6. QED
      BY <2>3, <2>4, <2>5, <1>8
  <1>10. \A r \in e.bars : r.minute = n - 1 =>
             e.last = r.minute /\ e.head = Append(r.before, r.content)
    <2>1. TAKE r \in e.bars
    <2>2. HAVE r.minute = n - 1
    <2>3. r.before = SubSeq(e.head, 1, n - 1) /\ r.content = e.head[n] /\ n - 1 \in 0..(n - 1)
      <3>1. n - 1 \in 0..(n - 1) /\ n - 1 + 1 = n
        BY <1>1, <1>3, <2>2
      <3>2. QED
        BY <1>3, <2>2, <3>1 DEF RowAt
    <2>4. SubSeq(e.head, 1, n) = Append(SubSeq(e.head, 1, n - 1), e.head[n])
      <3>1. n - 1 + 1 = n
        BY <1>1
      <3>2. QED
        BY <2>3, <3>1, <1>8
    <2>5. SubSeq(e.head, 1, n) = e.head
      <3>1. IsPart(SubSeq(e.head, 1, n), e.head, 1, n)
        BY <1>1, Part DEF n
      <3>2. Len(SubSeq(e.head, 1, n)) = n /\ \A i \in 1..n : SubSeq(e.head, 1, n)[i] = e.head[i]
        BY <1>1, <3>1 DEF IsPart
      <3>3. QED
        BY <1>1, <3>1, <3>2, SeqEqual DEF IsPart, n
    <2>6. QED
      BY <2>2, <2>3, <2>4, <2>5, <1>2
  <1>11. QED
    BY <1>2, <1>5, <1>7, <1>9, <1>10 DEF BarsVerify, StateRow

LEMMA SoundIntentsVerify ==
    ASSUME NEW e \in Entry, Sound(e)
    PROVE  IntentsVerify(StateRow(e), e.bars, e.intents)
  <1> DEFINE n == Len(e.head)
  <1>1. n \in Nat /\ e.head \in Seq(Contents) /\ Window \in Nat \ {0} /\ BlindStart \in Nat
    BY LedgerBounds DEF Entry
  <1>2. \A m \in 0..(n - 1) : RowAt(e.head, m) \in e.bars
    BY RowsOfChain
  <1>3. e.intents = Replayed(e.head) /\ Cardinality(e.intents) = e.emitted
    BY DEF Sound
  <1> HIDE DEF n
  <1>4. ASSUME NEW i \in e.intents
        PROVE  /\ i.minute >= BlindStart
               /\ Len(i.window) = Window
               /\ \E r \in e.bars : r.minute = i.minute /\ r.content = i.window[Window]
               /\ \E r \in e.bars :
                     r.minute = i.minute - Window + 1 /\ r.content = i.window[1]
    <2>1. PICK m \in {k \in 0..(n - 1) : Decides(e.head, k)} :
              i = [minute |-> m, window |-> WindowAt(e.head, m)]
      BY <1>3 DEF Replayed, n
    <2>2. m \in 0..(n - 1) /\ m >= BlindStart /\ m + 1 >= Window
      BY <2>1 DEF Decides
    <2>3. i.minute = m /\ i.window = WindowAt(e.head, m)
      BY <2>1
    <2> DEFINE first == m - Window + 1
    <2>4. first \in 0..(n - 1) /\ m + 1 <= n /\ first + Window = m + 1
          /\ first + 1 = m - Window + 2 /\ first + 1 \in Nat \ {0} /\ m + 1 \in Nat
          /\ first + 1 <= m + 1 /\ (m + 1) - (first + 1) + 1 = Window
      BY <1>1, <2>2
    <2> HIDE DEF first
    <2>5. IsPart(SubSeq(e.head, first + 1, m + 1), e.head, first + 1, m + 1)
      BY <1>1, <2>4, Part DEF n
    <2>6. IsPart(i.window, e.head, first + 1, m + 1)
      BY <2>3, <2>4, <2>5 DEF WindowAt
    <2>7. Len(i.window) = Window /\ \A k \in 1..Window : i.window[k] = e.head[(first + 1) + k - 1]
      BY <2>4, <2>6 DEF IsPart
    <2>8. 1 \in 1..Window /\ Window \in 1..Window
          /\ (first + 1) + 1 - 1 = first + 1 /\ (first + 1) + Window - 1 = m + 1
      BY <1>1, <2>4
    <2>9. i.window[1] = e.head[first + 1] /\ i.window[Window] = e.head[m + 1]
      BY <2>7, <2>8
    <2>10. RowAt(e.head, m) \in e.bars /\ RowAt(e.head, first) \in e.bars
      BY <1>2, <2>2, <2>4
    <2>11. /\ RowAt(e.head, m).minute = m /\ RowAt(e.head, m).content = e.head[m + 1]
           /\ RowAt(e.head, first).minute = first
           /\ RowAt(e.head, first).content = e.head[first + 1]
      BY DEF RowAt
    <2>12. \E r \in e.bars : r.minute = i.minute /\ r.content = i.window[Window]
      BY <2>3, <2>9, <2>10, <2>11
    <2>13. \E r \in e.bars : r.minute = i.minute - Window + 1 /\ r.content = i.window[1]
      BY <2>3, <2>9, <2>10, <2>11 DEF first
    <2>14. QED
      BY <2>2, <2>3, <2>7, <2>12, <2>13
  <1>5. QED
    BY <1>3, <1>4 DEF IntentsVerify, StateRow

\* A bar is only inserted after all the others.
LEMMA InsertedNext ==
    ASSUME NEW e \in Entry, Sound(e), NEW m \in Nat, NEW c, Verdict(e, m, c) = "insert"
    PROVE  /\ m = Len(e.head)
           /\ Previous(e) = e.head
           /\ e.blocked = None
  <1>1. Len(e.head) \in Nat /\ e.head \in Seq(Contents)
    BY DEF Entry
  <1>2. e.last = Len(e.head) - 1
    BY DEF Sound
  <1>3. e.blocked = None /\ (e.last = -1 => m = 0) /\ (e.last # -1 => m = e.last + 1)
    BY DEF Verdict
  <1>4. m = Len(e.head)
    BY <1>1, <1>2, <1>3
  <1>5. Previous(e) = e.head
    <2>1. CASE e.last = -1
      BY <1>1, <1>2, <2>1, EmptySeq DEF Previous
    <2>2. CASE e.last # -1
      BY <2>2 DEF Previous
    <2>3. QED
      BY <2>1, <2>2
  <1>6. QED
    BY <1>3, <1>4, <1>5

\* What _persist_intents reads back are the last bars of the chain.
LEMMA EmittedOfChain ==
    ASSUME NEW chain \in Seq(Contents), NEW m \in Nat, Len(chain) = m + 1,
           NEW bars, bars = {RowAt(chain, k) : k \in 0..m}
    PROVE  Emitted(bars, m) = Final(chain, m)
  <1>1. Window \in Nat \ {0} /\ BlindStart \in Nat
    BY LedgerBounds
  <1>2. \A k : RowAt(chain, k).minute = k /\ RowAt(chain, k).content = chain[k + 1]
    BY DEF RowAt
  <1>3. \A k \in 0..m : RowAt(chain, k) \in bars
    OBVIOUS
  <1>4. \A r \in bars : r.minute \in 0..m /\ r = RowAt(chain, r.minute)
    BY <1>2
  <1>5. Complete(bars, m) <=> m + 1 >= Window
    <2>1. ASSUME Complete(bars, m) PROVE m + 1 >= Window
      <3>1. 1 \in 1..Window
        BY <1>1
      <3>2. PICK r \in bars : r.minute = m - Window + 1
        BY <2>1, <3>1 DEF Complete
      <3>3. QED
        BY <1>1, <1>4, <3>2
    <2>2. ASSUME m + 1 >= Window PROVE Complete(bars, m)
      <3>1. ASSUME NEW k \in 1..Window PROVE \E r \in bars : r.minute = m - Window + k
        <4>1. m - Window + k \in 0..m
          BY <1>1, <2>2
        <4>2. QED
          BY <4>1, <1>2, <1>3
      <3>2. QED
        BY <3>1 DEF Complete
    <2>3. QED
      BY <2>1, <2>2
  <1>6. ASSUME m + 1 >= Window PROVE History(bars, m) = WindowAt(chain, m)
    <2> DEFINE first == m - Window + 2
               h == [k \in 1..Window |-> chain[first + k - 1]]
    <2>1. first \in Nat \ {0} /\ first <= m + 1 /\ (m + 1) - first + 1 = Window
          /\ m + 1 \in Nat /\ m + 1 <= Len(chain)
      BY <1>1, <1>6
    <2>2. \A k \in 1..Window : m - Window + k \in 0..m /\ (m - Window + k) + 1 = first + k - 1
          /\ first + k - 1 \in 1..Len(chain)
      BY <1>1, <1>6
    <2>3. \A k \in 1..Window :
              (CHOOSE r \in bars : r.minute = m - Window + k).content = chain[first + k - 1]
      <3>1. TAKE k \in 1..Window
      <3> DEFINE j == m - Window + k
      <3>2. j \in 0..m /\ j + 1 = first + k - 1
        BY <2>2
      <3> HIDE DEF j, first
      <3>3. \E r \in bars : r.minute = j
        BY <3>2, <1>2, <1>3
      <3>4. PICK r \in bars : r = (CHOOSE q \in bars : q.minute = j) /\ r.minute = j
        BY <3>3
      <3>5. r.content = chain[j + 1]
        BY <3>4, <1>2, <1>4
      <3>6. (CHOOSE q \in bars : q.minute = j).content = chain[first + k - 1]
        BY <3>4, <3>5, <3>2
      <3>7. QED
        BY <3>6 DEF j
    <2>4. History(bars, m) = h
      BY <2>3 DEF History
    <2>5. IsPart(SubSeq(chain, first, m + 1), chain, first, m + 1)
      BY <2>1, Part
    <2>6. \A k \in 1..Window : chain[first + k - 1] \in Contents
      BY <2>2, ElementOfSeq
    <2>7. h \in Seq(Contents) /\ Len(h) = Window
      <3> HIDE DEF first
      <3>1. h \in [1..Window -> Contents]
        BY <2>6
      <3>2. QED
        BY <1>1, <3>1
    <2>8. \A k \in 1..Window : h[k] = SubSeq(chain, first, m + 1)[k]
      <3> HIDE DEF first
      <3>1. \A k \in 1..Window : SubSeq(chain, first, m + 1)[k] = chain[first + k - 1]
        BY <2>1, <2>5 DEF IsPart
      <3>2. QED
        BY <3>1
    <2>9. Len(SubSeq(chain, first, m + 1)) = Window
      BY <2>1, <2>5 DEF IsPart
    <2> HIDE DEF h, first
    <2>10. h = SubSeq(chain, first, m + 1)
      BY <2>5, <2>7, <2>8, <2>9, SeqEqual DEF IsPart
    <2>11. QED
      BY <2>4, <2>10 DEF WindowAt, first
  <1>7. CASE Decides(chain, m)
    <2>1. m >= BlindStart /\ IsDecision(m) /\ m + 1 >= Window /\ WindowAt(chain, m) \in Signals
      BY <1>7 DEF Decides
    <2>2. QED
      BY <2>1, <1>5, <1>6, <1>7 DEF Emitted, Final
  <1>8. CASE ~Decides(chain, m)
    <2>1. ~(m >= BlindStart /\ IsDecision(m) /\ m + 1 >= Window /\ WindowAt(chain, m) \in Signals)
      BY <1>8 DEF Decides
    <2>2. QED
      BY <2>1, <1>5, <1>6, <1>8 DEF Emitted, Final
  <1>9. QED
    BY <1>7, <1>8

\* A longer chain decides as the shorter did, up to its end, and then once more.
LEMMA ReplayedGrown ==
    ASSUME NEW chain \in Seq(Contents), NEW c \in Contents
    PROVE  Replayed(Append(chain, c)) =
               Replayed(chain) \cup Final(Append(chain, c), Len(chain))
  <1> DEFINE grown == Append(chain, c)
             n == Len(chain)
  <1>1. grown \in Seq(Contents) /\ Len(grown) = n + 1 /\ n \in Nat
    BY GrownChain
  <1>2. Window \in Nat \ {0}
    BY LedgerBounds
  <1>3. ASSUME NEW k \in 0..(n - 1), k + 1 >= Window
        PROVE  WindowAt(grown, k) = WindowAt(chain, k)
    <2>1. k - Window + 2 \in Nat \ {0} /\ k + 1 \in Nat /\ k + 1 <= Len(chain)
      BY <1>2, <1>3
    <2>2. SubSeq(grown, k - Window + 2, k + 1) = SubSeq(chain, k - Window + 2, k + 1)
      BY <2>1, PartOfGrown
    <2>3. QED
      BY <2>2 DEF WindowAt
  <1>4. ASSUME NEW k \in 0..(n - 1)
        PROVE  /\ Decides(grown, k) <=> Decides(chain, k)
               /\ Decides(grown, k) => WindowAt(grown, k) = WindowAt(chain, k)
    BY <1>3 DEF Decides
  <1> DEFINE Intent(s, k) == [minute |-> k, window |-> WindowAt(s, k)]
             Extra == Final(grown, n)
  <1> HIDE DEF grown, n
  <1>5. Replayed(grown) = {Intent(grown, k) : k \in {j \in 0..n : Decides(grown, j)}}
    BY <1>1 DEF Replayed
  <1>6. Replayed(chain) = {Intent(chain, k) : k \in {j \in 0..(n - 1) : Decides(chain, j)}}
    BY DEF Replayed, n
  <1>7. ASSUME NEW i \in Replayed(grown) PROVE i \in Replayed(chain) \cup Extra
    <2>1. PICK k \in 0..n : Decides(grown, k) /\ i = Intent(grown, k)
      BY <1>5, <1>7
    <2>2. CASE k = n
      BY <2>1, <2>2 DEF Final
    <2>3. CASE k \in 0..(n - 1)
      <3>1. Decides(chain, k) /\ i = Intent(chain, k)
        BY <2>1, <2>3, <1>4
      <3>2. QED
        BY <3>1, <2>3, <1>6
    <2>4. QED
      BY <1>1, <2>2, <2>3
  <1>8. ASSUME NEW i \in Replayed(chain) PROVE i \in Replayed(grown)
    <2>1. PICK k \in 0..(n - 1) : Decides(chain, k) /\ i = Intent(chain, k)
      BY <1>6, <1>8
    <2>2. Decides(grown, k) /\ i = Intent(grown, k) /\ k \in 0..n
      BY <2>1, <1>1, <1>4
    <2>3. QED
      BY <2>2, <1>5
  <1>9. Extra \subseteq Replayed(grown)
    BY <1>1, <1>5 DEF Final
  <1>10. Replayed(grown) = Replayed(chain) \cup Extra
    BY <1>7, <1>8, <1>9
  <1>11. QED
    BY <1>10 DEF grown, n

\* The rows of the grown chain.
LEMMA RowsGrown ==
    ASSUME NEW chain \in Seq(Contents), NEW c \in Contents
    PROVE  {RowAt(chain, m) : m \in 0..(Len(chain) - 1)}
               \cup {[minute |-> Len(chain), content |-> c, before |-> chain]}
           = {RowAt(Append(chain, c), m) : m \in 0..Len(chain)}
  <1> DEFINE grown == Append(chain, c)
             n == Len(chain)
  <1>1. grown[n + 1] = c /\ n \in Nat /\ \A i \in 1..n : grown[i] = chain[i]
    BY GrownChain
  <1>2. SubSeq(grown, 1, n) = chain
    BY WholeOfGrown
  <1>3. RowAt(grown, n) = [minute |-> n, content |-> c, before |-> chain]
    BY <1>1, <1>2 DEF RowAt
  <1>4. ASSUME NEW m \in 0..(n - 1) PROVE RowAt(grown, m) = RowAt(chain, m)
    <2>1. m + 1 \in 1..n /\ m \in Nat /\ m <= Len(chain)
      BY <1>1
    <2>2. SubSeq(grown, 1, m) = SubSeq(chain, 1, m)
      BY <2>1, PartOfGrown
    <2>3. grown[m + 1] = chain[m + 1]
      BY <1>1, <2>1
    <2>4. QED
      BY <2>2, <2>3 DEF RowAt
  <1> HIDE DEF grown, n
  <1>5. 0..n = (0..(n - 1)) \cup {n}
    BY <1>1
  <1>6. {RowAt(grown, m) : m \in 0..n} = {RowAt(grown, m) : m \in 0..(n - 1)} \cup {RowAt(grown, n)}
    BY <1>5
  <1>7. {RowAt(grown, m) : m \in 0..(n - 1)} = {RowAt(chain, m) : m \in 0..(n - 1)}
    BY <1>4
  <1>8. QED
    BY <1>3, <1>6, <1>7 DEF grown, n

LEMMA StoredSound ==
    ASSUME NEW e \in Entry, Sound(e), NEW m \in Nat, NEW c \in Contents,
           Verdict(e, m, c) = "insert"
    PROVE  /\ Stored(e, m, c) \in Entry
           /\ Sound(Stored(e, m, c))
           /\ Stored(e, m, c).head = Append(e.head, c)
           /\ Stored(e, m, c).last = m
           /\ Stored(e, m, c).blocked = None
           /\ e.blocked = None
  <1> DEFINE grown == Append(e.head, c)
             row == [minute |-> m, content |-> c, before |-> e.head]
             bars == e.bars \cup {row}
             new == Emitted(bars, m) \ e.intents
             intents == e.intents \cup new
             emitted == e.emitted + Cardinality(new)
             n == Stored(e, m, c)
  <1>1. e.head \in Seq(Contents) /\ e.count \in Nat /\ e.emitted \in Nat
        /\ e.bars \subseteq Row /\ e.intents \subseteq StoredIntent
    BY DEF Entry
  <1>2. m = Len(e.head) /\ Previous(e) = e.head /\ e.blocked = None
    BY InsertedNext
  <1>3. /\ e.count = m /\ IsFiniteSet(e.bars) /\ Cardinality(e.bars) = m
        /\ e.bars = {RowAt(e.head, k) : k \in 0..(m - 1)}
        /\ e.intents = Replayed(e.head) /\ IsFiniteSet(e.intents)
        /\ Cardinality(e.intents) = e.emitted
    BY <1>2 DEF Sound
  <1>4. grown \in Seq(Contents) /\ Len(grown) = m + 1
    BY <1>1, <1>2, GrownChain
  <1>5. bars = {RowAt(grown, k) : k \in 0..m}
    <2>1. {RowAt(e.head, k) : k \in 0..(Len(e.head) - 1)}
              \cup {[minute |-> Len(e.head), content |-> c, before |-> e.head]}
          = {RowAt(Append(e.head, c), k) : k \in 0..Len(e.head)}
      BY <1>1, RowsGrown
    <2>2. QED
      BY <1>2, <1>3, <2>1
  <1>6. IsFiniteSet(bars) /\ Cardinality(bars) = m + 1
    <2>1. row \notin e.bars
      <3>1. \A r \in e.bars : r.minute \in 0..(m - 1)
        BY <1>2, RowsOfChain
      <3>2. row.minute = m /\ m \notin 0..(m - 1)
        OBVIOUS
      <3>3. QED
        BY <3>1, <3>2
    <2>2. QED
      BY <2>1, <1>3, FS_AddElement
  <1>7. n = [e EXCEPT !.last = m, !.head = grown, !.count = @ + 1, !.bars = bars,
                      !.intents = intents, !.emitted = emitted]
    BY <1>2 DEF Stored
  <1> HIDE DEF bars, grown
  <1>8. Emitted(bars, m) = Final(grown, m)
    BY <1>4, <1>5, EmittedOfChain
  <1>9. Replayed(grown) = e.intents \cup Emitted(bars, m)
    <2>1. Replayed(Append(e.head, c)) = Replayed(e.head) \cup Final(Append(e.head, c), Len(e.head))
      BY <1>1, ReplayedGrown
    <2>2. QED
      BY <1>2, <1>3, <1>8, <2>1 DEF grown
  <1>10. IsFiniteSet(Emitted(bars, m))
    <2>1. IsFiniteSet({}) /\ IsFiniteSet({[minute |-> m, window |-> WindowAt(grown, m)]})
      BY FS_EmptySet, FS_Singleton
    <2>2. QED
      BY <2>1, <1>8 DEF Final
  <1>11. IsFiniteSet(new)
    BY <1>10, FS_Difference
  <1>12. Cardinality(new) \in Nat
    BY <1>11, FS_CardinalityType
  <1>13. intents = Replayed(grown)
    BY <1>9
  <1>14. IsFiniteSet(intents) /\ Cardinality(intents) = emitted
    <2>1. e.intents \cap new = {}
      OBVIOUS
    <2>2. IsFiniteSet(intents)
          /\ Cardinality(intents) = Cardinality(e.intents) + Cardinality(new)
                                        - Cardinality(e.intents \cap new)
      BY <1>3, <1>11, FS_Union
    <2>3. Cardinality(e.intents \cap new) = 0
      BY <2>1, FS_EmptySet
    <2>4. QED
      BY <2>2, <2>3, <1>1, <1>3, <1>12
  <1>15. bars \subseteq Row
    BY <1>1 DEF bars, Row
  <1>16. Emitted(bars, m) \subseteq StoredIntent
    <2>1. CASE Decides(grown, m)
      <3>1. m + 1 >= Window /\ Window \in Nat \ {0}
        BY <2>1, LedgerBounds DEF Decides
      <3>2. m - Window + 2 \in Nat \ {0} /\ m + 1 \in Nat /\ m + 1 <= Len(grown)
        BY <3>1, <1>4
      <3>3. IsPart(SubSeq(grown, m - Window + 2, m + 1), grown, m - Window + 2, m + 1)
        BY <3>2, <1>4, Part
      <3>4. WindowAt(grown, m) \in Seq(Contents)
        BY <3>3 DEF IsPart, WindowAt
      <3>5. QED
        BY <3>4, <2>1, <1>8 DEF StoredIntent, Final
    <2>2. CASE ~Decides(grown, m)
      BY <2>2, <1>8 DEF Final
    <2>3. QED
      BY <2>1, <2>2
  <1>17. intents \subseteq StoredIntent
    BY <1>1, <1>16
  <1> HIDE DEF intents, new
  <1>18. emitted \in Nat
    BY <1>1, <1>12
  <1> HIDE DEF emitted, row, n
  <1>19. n \in Entry
    <2>1. n = [last |-> m, head |-> grown, count |-> e.count + 1, emitted |-> emitted,
               blocked |-> e.blocked, bars |-> bars, intents |-> intents]
      BY <1>7 DEF Entry
    <2>2. e.count + 1 \in Nat /\ m \in Nat \cup {-1} /\ e.blocked \in Violations \cup {None}
      BY <1>1 DEF Entry
    <2>3. bars \in SUBSET Row /\ intents \in SUBSET StoredIntent
      BY <1>15, <1>17
    <2>4. QED
      BY <1>4, <1>18, <2>1, <2>2, <2>3 DEF Entry
  <1>20. /\ n.last = m /\ n.head = grown /\ n.count = e.count + 1 /\ n.bars = bars
         /\ n.intents = intents /\ n.emitted = emitted /\ n.blocked = e.blocked
    BY <1>7 DEF Entry
  <1>21. Sound(n)
    <2>1. n.last = Len(n.head) - 1 /\ n.count = Len(n.head)
      BY <1>3, <1>4, <1>20
    <2>2. n.bars = {RowAt(n.head, k) : k \in 0..(Len(n.head) - 1)}
      <3>1. Len(n.head) - 1 = m
        BY <1>4, <1>20
      <3>2. QED
        BY <3>1, <1>5, <1>20
    <2>3. IsFiniteSet(n.bars) /\ Cardinality(n.bars) = Len(n.head)
      BY <1>4, <1>6, <1>20
    <2>4. n.intents = Replayed(n.head)
      BY <1>13, <1>20
    <2>5. IsFiniteSet(n.intents) /\ Cardinality(n.intents) = n.emitted
      BY <1>14, <1>20
    <2>6. QED
      BY <2>1, <2>2, <2>3, <2>4, <2>5 DEF Sound
  <1>22. QED
    BY <1>2, <1>19, <1>20, <1>21 DEF n, grown

----------------------------------------------------------------------------
(* The inductive invariant, in terms of a ledger l and a command r.        *)

Archive == {"sync", "collect", "import"}

CommandOK(r) ==
    /\ r.pc = "stage" => r.command \in Archive
    /\ r.pc \in {"begin", "insert"} => r.command \in Archive \cup {"line"}
    /\ r.command = "line" => r.line \in Lines
    /\ r.command \in Archive => r.until <= LastDay
    /\ r.pc \in {"begin", "insert"} /\ r.command \in Archive => r.day < r.until
    /\ r.pc = "insert" => r.next <= Past(r)
    /\ r.pc = "stage" /\ r.command = "sync" => r.symbol = 1

\* Every symbol has arrived at minute m, and somewhere.
Reached(l, m) == \A s \in Symbols : l[s].last # -1 /\ m <= l[s].last + 1

\* Where a sync has brought the symbols, by its place in the day.
Progress(l, r) ==
    r.command = "sync" =>
        /\ r.pc \in {"stage", "begin", "insert"} => Reached(l, Opens(r.day))
        /\ r.pc \in {"begin", "insert"} =>
              \A s \in Symbols : s < r.symbol => Opens(r.day + 1) <= l[s].last + 1
        /\ r.pc \in {"state", "bars", "intents"} => Reached(l, Opens(r.day + 1))

Blocking(l, r) ==
    r.pc = "block" =>
        /\ r.reason # None
        /\ r.reason = "refused" => l[r.symbol].blocked # None
        /\ r.command = "sync" => r.reason \in {"conflict", "refused"}

\* What a verification has read is still so, or someone has committed since.
Reading(l, r) ==
    /\ r.pc \in {"bars", "intents"} /\ ~r.disturbed => r.seen = StateRow(l[r.symbol])
    /\ r.pc = "alarm" => r.disturbed

RunOK(l, r) == CommandOK(r) /\ Progress(l, r) /\ Blocking(l, r) /\ Reading(l, r)

Longer(chain, shorter) ==
    /\ Len(shorter) <= Len(chain)
    /\ \A i \in 1..Len(shorter) : chain[i] = shorter[i]

\* The entry a transaction works on continues the committed one.
TxOK(l, entry, r) ==
    /\ Sound(entry)
    /\ Longer(entry.head, l[r.symbol].head)
    /\ entry.blocked = l[r.symbol].blocked
    /\ l[r.symbol].blocked # None => entry.head = l[r.symbol].head
    /\ r.command = "sync" => r.next <= entry.last + 1

Owner(t, runs) == \A p \in Processes : runs[p].pc = "insert" <=> t # None /\ t.by = p

IInv ==
    /\ TypeOK
    /\ \A s \in Symbols : Sound(ledger[s])
    /\ \A p \in Processes : RunOK(ledger, run[p])
    /\ Owner(tx, run)
    /\ tx # None => TxOK(ledger, tx.entry, run[tx.by])

----------------------------------------------------------------------------
(* What the steps have in common.                                          *)

LEMMA IdleOK == ASSUME NEW l PROVE Idle \in Run /\ RunOK(l, Idle)
  <1>1. 1 \in Symbols
    BY LedgerBounds DEF Symbols
  <1>2. Idle \in Run
    BY <1>1 DEF Idle, Run, PCs, NoRow, StateRows
  <1>3. QED
    BY <1>2 DEF Idle, RunOK, CommandOK, Progress, Blocking, Reading, Archive

\* A command is not harmed by a ledger that has grown.
LEMMA GrownLedger ==
    ASSUME NEW l \in [Symbols -> Entry], NEW grown \in [Symbols -> Entry],
           NEW r \in Run, RunOK(l, r),
           \A s \in Symbols : l[s].last <= grown[s].last,
           \A s \in Symbols : l[s].blocked # None => grown[s].blocked # None,
           r.pc \in {"bars", "intents"} /\ ~r.disturbed =>
               StateRow(grown[r.symbol]) = StateRow(l[r.symbol])
    PROVE  RunOK(grown, r)
  <1>1. \A s \in Symbols : l[s].last \in Nat \cup {-1} /\ grown[s].last \in Nat \cup {-1}
    BY DEF Entry
  <1>2. \A m \in Nat : Reached(l, m) => Reached(grown, m)
    BY <1>1 DEF Reached
  <1>3. r.day \in Nat /\ DayLength \in Nat /\ Opens(r.day) \in Nat /\ Opens(r.day + 1) \in Nat
    BY LedgerBounds DEF Run, Opens
  <1>4. Progress(grown, r)
    <2>1. Progress(l, r)
      BY DEF RunOK
    <2>2. ASSUME NEW s \in Symbols, Opens(r.day + 1) <= l[s].last + 1
          PROVE  Opens(r.day + 1) <= grown[s].last + 1
      BY <1>1, <1>3, <2>2
    <2>3. QED
      BY <1>2, <1>3, <2>1, <2>2 DEF Progress
  <1>5. r.symbol \in Symbols
    BY DEF Run
  <1>6. Blocking(grown, r) /\ Reading(grown, r) /\ CommandOK(r)
    BY <1>5 DEF RunOK, Blocking, Reading
  <1>7. QED
    BY <1>4, <1>6 DEF RunOK

\* A step that changes what one command does next, and nothing else.
LEMMA RunStep ==
    ASSUME IInv, NEW p \in Processes, NEW r \in Run, RunOK(ledger, r),
           run' = [run EXCEPT ![p] = r], UNCHANGED Quiet,
           r.pc = "insert" <=> run[p].pc = "insert",
           r.pc = "insert" => TxOK(ledger, tx.entry, r)
    PROVE  IInv'
  <1>1. ledger' = ledger /\ tx' = tx /\ UNCHANGED <<published, today, failures, violated>>
    BY DEF Quiet
  <1>2. run \in [Processes -> Run] /\ run'[p] = r /\ \A q \in Processes \ {p} : run'[q] = run[q]
    BY DEF IInv, TypeOK
  <1>3. TypeOK'
    BY <1>1, <1>2 DEF IInv, TypeOK
  <1>4. \A s \in Symbols : Sound(ledger'[s])
    BY <1>1 DEF IInv
  <1>5. \A q \in Processes : RunOK(ledger', run'[q])
    BY <1>1, <1>2 DEF IInv
  <1>6. Owner(tx', run')
    BY <1>1, <1>2 DEF IInv, Owner
  <1>7. tx' # None => TxOK(ledger', tx'.entry, run'[tx'.by])
    <2>1. HAVE tx' # None
    <2>2. tx.by \in Processes /\ tx # None
      BY <1>1, <2>1 DEF IInv, TypeOK
    <2>3. CASE tx.by = p
      <3>1. run[p].pc = "insert"
        BY <2>2, <2>3 DEF IInv, Owner
      <3>2. QED
        BY <1>1, <1>2, <2>3, <3>1
    <2>4. CASE tx.by # p
      BY <1>1, <1>2, <2>2, <2>4 DEF IInv
    <2>5. QED
      BY <2>3, <2>4
  <1>8. QED
    BY <1>3, <1>4, <1>5, <1>6, <1>7 DEF IInv

----------------------------------------------------------------------------
(* The invariant holds at first and every action keeps it.                 *)

LEMMA InitInv == Init => IInv
  <1> SUFFICES ASSUME Init PROVE IInv
    OBVIOUS
  <1>1. Idle \in Run /\ RunOK(ledger, Idle)
    BY IdleOK
  <1>2. <<>> \in Seq(Contents) /\ Len(<<>>) = 0
    BY EmptySeq
  <1>3. NoEntry \in Entry
    <2>1. {} \in SUBSET Row /\ {} \in SUBSET StoredIntent /\ 0 \in Nat
      OBVIOUS
    <2>2. QED
      BY <1>2, <2>1 DEF NoEntry, Entry
  <1>4. Sound(NoEntry)
    <2>1. NoEntry.last = -1 /\ NoEntry.count = 0 /\ NoEntry.head = <<>> /\ NoEntry.emitted = 0
          /\ NoEntry.bars = {} /\ NoEntry.intents = {}
      BY DEF NoEntry
    <2>2. 0..(Len(<<>>) - 1) = {}
      BY <1>2
    <2>3. {RowAt(<<>>, m) : m \in 0..(Len(<<>>) - 1)} = {} /\ Replayed(<<>>) = {}
      BY <2>2 DEF Replayed
    <2>4. IsFiniteSet({}) /\ Cardinality({}) = 0
      BY FS_EmptySet
    <2>5. QED
      BY <1>2, <2>1, <2>3, <2>4 DEF Sound
  <1>5. TypeOK
    BY <1>1, <1>3, LedgerBounds DEF Init, TypeOK
  <1>6. Owner(tx, run) /\ (tx # None => TxOK(ledger, tx.entry, run[tx.by]))
    BY DEF Init, Owner, Idle
  <1>7. QED
    BY <1>1, <1>4, <1>5, <1>6 DEF Init, IInv

LEMMA StartSyncInv == ASSUME IInv, NEW p \in Processes, StartSync(p) PROVE IInv'
  <1>1. PICK d \in 0..today :
            /\ SyncStart(Opens(d))
            /\ run' = [run EXCEPT ![p] = [Idle EXCEPT !.pc = "stage", !.command = "sync",
                                                      !.day = d, !.until = today]]
    BY DEF StartSync
  <1> DEFINE r == [Idle EXCEPT !.pc = "stage", !.command = "sync", !.day = d, !.until = today]
  <1>2. today \in Nat /\ LastDay \in Nat /\ today <= LastDay /\ d \in Nat
    BY LedgerBounds DEF IInv, TypeOK
  <1>3. Idle \in Run
    BY IdleOK
  <1>4. r \in Run
    BY <1>2, <1>3 DEF Run, PCs
  <1>5. r.pc = "stage" /\ r.command = "sync" /\ r.until = today /\ r.day = d /\ r.symbol = 1
    BY DEF Idle
  <1>6. Reached(ledger, Opens(d))
    BY <1>1 DEF SyncStart, IsWatermark, Reached
  <1>7. RunOK(ledger, r)
    BY <1>2, <1>5, <1>6 DEF RunOK, CommandOK, Progress, Blocking, Reading, Archive
  <1>8. run[p].pc = "idle" /\ UNCHANGED Quiet
    BY DEF StartSync, May
  <1> HIDE DEF r
  <1>9. run' = [run EXCEPT ![p] = r]
    BY <1>1 DEF r
  <1>10. QED
    BY <1>4, <1>5, <1>7, <1>8, <1>9, RunStep

LEMMA StartArchivesInv == ASSUME IInv, NEW p \in Processes, StartArchives(p) PROVE IInv'
  <1>1. PICK command \in {"collect", "import"}, range \in Ranges :
            /\ May(p, command)
            /\ range[2] <= today
            /\ run' = [run EXCEPT ![p] = [Idle EXCEPT !.pc = "stage", !.command = command,
                                                      !.day = range[1], !.until = range[2]]]
    BY DEF StartArchives
  <1> DEFINE r == [Idle EXCEPT !.pc = "stage", !.command = command,
                               !.day = range[1], !.until = range[2]]
  <1>2. today \in Nat /\ LastDay \in Nat /\ today <= LastDay
        /\ range[1] \in Nat /\ range[2] \in Nat
    BY LedgerBounds DEF IInv, TypeOK
  <1>3. Idle \in Run
    BY IdleOK
  <1>4. r \in Run
    BY <1>2, <1>3 DEF Run, PCs
  <1>5. r.pc = "stage" /\ r.command = command /\ r.until = range[2]
    BY DEF Idle
  <1>6. r.until <= LastDay
    BY <1>1, <1>2, <1>5
  <1>7. RunOK(ledger, r)
    BY <1>5, <1>6 DEF RunOK, CommandOK, Progress, Blocking, Reading, Archive
  <1>8. run[p].pc = "idle" /\ UNCHANGED Quiet
    BY <1>1 DEF StartArchives, May
  <1> HIDE DEF r
  <1>9. run' = [run EXCEPT ![p] = r]
    BY <1>1 DEF r
  <1>10. QED
    BY <1>4, <1>5, <1>7, <1>8, <1>9, RunStep

LEMMA StartLineInv == ASSUME IInv, NEW p \in Processes, StartLine(p) PROVE IInv'
  <1>1. PICK l \in Lines :
            run' = [run EXCEPT ![p] = [Idle EXCEPT !.pc = "begin", !.command = "line",
                                                   !.symbol = l.symbol, !.line = l]]
    BY DEF StartLine
  <1> DEFINE r == [Idle EXCEPT !.pc = "begin", !.command = "line",
                               !.symbol = l.symbol, !.line = l]
  <1>2. l.symbol \in Symbols
    BY LedgerBounds DEF Line
  <1>3. Idle \in Run
    BY IdleOK
  <1>4. r \in Run
    BY <1>2, <1>3 DEF Run, PCs
  <1>5. r.pc = "begin" /\ r.command = "line" /\ r.line = l
    BY DEF Idle
  <1>6. RunOK(ledger, r)
    BY <1>5 DEF RunOK, CommandOK, Progress, Blocking, Reading, Archive
  <1>7. run[p].pc = "idle" /\ UNCHANGED Quiet
    BY DEF StartLine, May
  <1> HIDE DEF r
  <1>8. run' = [run EXCEPT ![p] = r]
    BY <1>1 DEF r
  <1>9. QED
    BY <1>4, <1>5, <1>6, <1>7, <1>8, RunStep

LEMMA StartVerifyInv == ASSUME IInv, NEW p \in Processes, StartVerify(p) PROVE IInv'
  <1> DEFINE r == [Idle EXCEPT !.pc = "state", !.command = "verify"]
  <1>1. Idle \in Run
    BY IdleOK
  <1>2. r \in Run
    BY <1>1 DEF Run, PCs
  <1>3. r.pc = "state" /\ r.command = "verify"
    BY DEF Idle
  <1>4. RunOK(ledger, r)
    BY <1>3 DEF RunOK, CommandOK, Progress, Blocking, Reading, Archive
  <1>5. run[p].pc = "idle" /\ UNCHANGED Quiet /\ run' = [run EXCEPT ![p] = r]
    BY DEF StartVerify, May
  <1> HIDE DEF r
  <1>6. QED
    BY <1>2, <1>3, <1>4, <1>5, RunStep

\* A command that ends.
LEMMA EndStep ==
    ASSUME IInv, NEW p \in Processes, run[p].pc # "insert",
           run' = [run EXCEPT ![p] = Idle], UNCHANGED Quiet
    PROVE  IInv'
  <1>1. Idle \in Run /\ RunOK(ledger, Idle) /\ Idle.pc # "insert"
    BY IdleOK DEF Idle
  <1>2. QED
    BY <1>1, RunStep

LEMMA StageInv == ASSUME IInv, NEW p \in Processes, Stage(p) PROVE IInv'
  <1>1. run[p] \in Run /\ RunOK(ledger, run[p]) /\ run[p].pc = "stage" /\ UNCHANGED Quiet
    BY DEF IInv, TypeOK, Stage
  <1> DEFINE r == [run[p] EXCEPT !.pc = "begin"]
  <1>2. CASE run' = [run EXCEPT ![p] = Idle]
    BY <1>1, <1>2, EndStep
  <1>3. CASE /\ run' = [run EXCEPT ![p] = r]
             /\ run[p].day < run[p].until
             /\ Staged(run[p]) \subseteq published
    <2>1. r \in Run
      BY <1>1 DEF Run, PCs
    <2>2. /\ r.pc = "begin" /\ r.command = run[p].command /\ r.day = run[p].day
          /\ r.until = run[p].until /\ r.symbol = run[p].symbol /\ r.line = run[p].line
      BY <1>1 DEF Run
    <2>3. CommandOK(r)
      BY <1>1, <1>3, <2>2 DEF RunOK, CommandOK
    <2>4. Blocking(ledger, r) /\ Reading(ledger, r)
      BY <2>2 DEF Blocking, Reading
    <2>5. Progress(ledger, r)
      <3>1. SUFFICES ASSUME r.command = "sync"
                     PROVE  /\ Reached(ledger, Opens(r.day))
                            /\ \A s \in Symbols : s < r.symbol =>
                                  Opens(r.day + 1) <= ledger[s].last + 1
        BY <2>2 DEF Progress
      <3>2. Reached(ledger, Opens(r.day))
        BY <1>1, <2>2, <3>1 DEF RunOK, Progress
      <3>3. r.symbol = 1
        BY <1>1, <2>2, <3>1 DEF RunOK, CommandOK
      <3>4. QED
        BY <3>2, <3>3 DEF Symbols
    <2> HIDE DEF r
    <2>6. RunOK(ledger, r)
      BY <2>3, <2>4, <2>5 DEF RunOK
    <2>7. QED
      BY <1>1, <1>3, <2>1, <2>2, <2>6, RunStep
  <1>4. QED
    BY <1>2, <1>3 DEF Stage

LEMMA ReadStateInv == ASSUME IInv, NEW p \in Processes, ReadState(p) PROVE IInv'
  <1>1. run[p] \in Run /\ RunOK(ledger, run[p]) /\ run[p].pc = "state" /\ UNCHANGED Quiet
    BY DEF IInv, TypeOK, ReadState
  <1>2. ledger[run[p].symbol] \in Entry
    BY <1>1 DEF IInv, TypeOK, Run
  <1> DEFINE row == StateRow(ledger[run[p].symbol])
             r == [run[p] EXCEPT !.pc = "bars", !.disturbed = FALSE, !.seen = row]
  <1>3. row \in StateRows
    BY <1>2 DEF Entry, StateRow, StateRows
  <1>4. run' = [run EXCEPT ![p] = r]
    <2>1. run \in [Processes -> Run]
      BY DEF IInv, TypeOK
    <2>2. QED
      BY <2>1 DEF ReadState
  <1> HIDE DEF row
  <1>5. r \in Run
    BY <1>1, <1>3 DEF Run, PCs
  <1>6. /\ r.pc = "bars" /\ r.command = run[p].command /\ r.day = run[p].day
        /\ r.until = run[p].until /\ r.symbol = run[p].symbol /\ r.line = run[p].line
        /\ r.seen = row
    BY <1>1 DEF Run
  <1> HIDE DEF r
  <1>7. CommandOK(r) /\ Progress(ledger, r) /\ Blocking(ledger, r)
    BY <1>1, <1>6 DEF RunOK, CommandOK, Progress, Blocking
  <1>8. Reading(ledger, r)
    BY <1>6 DEF Reading, row
  <1>9. RunOK(ledger, r)
    BY <1>7, <1>8 DEF RunOK
  <1>10. QED
    BY <1>1, <1>4, <1>5, <1>6, <1>9, RunStep

\* What was read without a commit in between belongs together, and verifies.
LEMMA ReadTogether ==
    ASSUME IInv, NEW p \in Processes, run[p].pc \in {"bars", "intents"}, ~run[p].disturbed
    PROVE  LET e == ledger[run[p].symbol]
           IN  BarsVerify(run[p].seen, e.bars) /\ IntentsVerify(run[p].seen, e.bars, e.intents)
  <1> DEFINE e == ledger[run[p].symbol]
  <1>1. run[p].symbol \in Symbols
    BY DEF IInv, TypeOK, Run
  <1>2. e \in Entry /\ Sound(e)
    BY <1>1 DEF IInv, TypeOK
  <1>3. run[p].seen = StateRow(e)
    BY DEF IInv, RunOK, Reading
  <1> HIDE DEF e
  <1>4. BarsVerify(StateRow(e), e.bars) /\ IntentsVerify(StateRow(e), e.bars, e.intents)
    BY <1>2, SoundBarsVerify, SoundIntentsVerify
  <1>5. QED
    BY <1>3, <1>4 DEF e

LEMMA ReadBarsInv == ASSUME IInv, NEW p \in Processes, ReadBars(p) PROVE IInv'
  <1>1. /\ run \in [Processes -> Run] /\ run[p] \in Run /\ RunOK(ledger, run[p])
        /\ run[p].pc = "bars" /\ UNCHANGED Quiet
    BY DEF IInv, TypeOK, ReadBars
  <1> DEFINE Go(pc) == [run[p] EXCEPT !.pc = pc]
  <1>2. ASSUME NEW pc \in {"intents", "alarm"} PROVE Go(pc) \in Run
    BY <1>1 DEF Run, PCs
  <1>3. ASSUME NEW pc
        PROVE  /\ Go(pc).pc = pc /\ Go(pc).command = run[p].command /\ Go(pc).day = run[p].day
               /\ Go(pc).until = run[p].until /\ Go(pc).symbol = run[p].symbol
               /\ Go(pc).line = run[p].line /\ Go(pc).seen = run[p].seen
               /\ Go(pc).disturbed = run[p].disturbed
    BY <1>1 DEF Run
  <1>4. CASE BarsVerify(run[p].seen, ledger[run[p].symbol].bars)
    <2> DEFINE r == Go("intents")
    <2>1. run' = [run EXCEPT ![p] = r]
      BY <1>1, <1>4 DEF ReadBars
    <2>2. r \in Run
      BY <1>2
    <2>3. /\ r.pc = "intents" /\ r.command = run[p].command /\ r.day = run[p].day
          /\ r.until = run[p].until /\ r.symbol = run[p].symbol
          /\ r.line = run[p].line /\ r.seen = run[p].seen
          /\ r.disturbed = run[p].disturbed
      BY <1>3
    <2> HIDE DEF r
    <2>4. CommandOK(r) /\ Progress(ledger, r) /\ Blocking(ledger, r) /\ Reading(ledger, r)
      BY <1>1, <2>3 DEF RunOK, CommandOK, Progress, Blocking, Reading
    <2>5. RunOK(ledger, r)
      BY <2>4 DEF RunOK
    <2>6. QED
      BY <1>1, <2>1, <2>2, <2>3, <2>5, RunStep
  <1>5. CASE ~BarsVerify(run[p].seen, ledger[run[p].symbol].bars)
    <2> DEFINE r == Go("alarm")
    <2>1. run' = [run EXCEPT ![p] = r]
      BY <1>1, <1>5 DEF ReadBars
    <2>2. r \in Run
      BY <1>2
    <2>3. /\ r.pc = "alarm" /\ r.command = run[p].command /\ r.until = run[p].until
          /\ r.line = run[p].line /\ r.disturbed = run[p].disturbed
      BY <1>3
    <2> HIDE DEF r
    <2>4. run[p].disturbed
      BY <1>1, <1>5, ReadTogether
    <2>5. CommandOK(r) /\ Progress(ledger, r) /\ Blocking(ledger, r) /\ Reading(ledger, r)
      BY <1>1, <2>3, <2>4 DEF RunOK, CommandOK, Progress, Blocking, Reading
    <2>6. RunOK(ledger, r)
      BY <2>5 DEF RunOK
    <2>7. QED
      BY <1>1, <2>1, <2>2, <2>3, <2>6, RunStep
  <1>6. QED
    BY <1>4, <1>5

LEMMA ReadIntentsInv == ASSUME IInv, NEW p \in Processes, ReadIntents(p) PROVE IInv'
  <1>1. /\ run \in [Processes -> Run] /\ run[p] \in Run /\ RunOK(ledger, run[p])
        /\ run[p].pc = "intents" /\ UNCHANGED Quiet
    BY DEF IInv, TypeOK, ReadIntents
  <1> DEFINE e == ledger[run[p].symbol]
             Good == IntentsVerify(run[p].seen, e.bars, e.intents)
  <1>2. SymbolCount \in Nat \ {0}
    BY LedgerBounds
  <1>3. CASE ~Good
    <2> DEFINE r == [run[p] EXCEPT !.pc = "alarm"]
    <2>1. run' = [run EXCEPT ![p] = r]
      BY <1>1, <1>3 DEF ReadIntents
    <2>2. r \in Run
      BY <1>1 DEF Run, PCs
    <2>3. /\ r.pc = "alarm" /\ r.command = run[p].command /\ r.until = run[p].until
          /\ r.line = run[p].line /\ r.disturbed = run[p].disturbed
      BY <1>1 DEF Run
    <2> HIDE DEF r
    <2>4. run[p].disturbed
      BY <1>1, <1>3, ReadTogether
    <2>5. CommandOK(r) /\ Progress(ledger, r) /\ Blocking(ledger, r) /\ Reading(ledger, r)
      BY <1>1, <2>3, <2>4 DEF RunOK, CommandOK, Progress, Blocking, Reading
    <2>6. RunOK(ledger, r)
      BY <2>5 DEF RunOK
    <2>7. QED
      BY <1>1, <2>1, <2>2, <2>3, <2>6, RunStep
  <1>4. CASE Good /\ run[p].symbol < SymbolCount
    <2> DEFINE r == [run[p] EXCEPT !.pc = "state", !.symbol = @ + 1, !.seen = NoRow,
                                   !.disturbed = FALSE]
    <2>1. run' = [run EXCEPT ![p] = r]
      BY <1>1, <1>4 DEF ReadIntents, Verified
    <2>2. run[p].symbol + 1 \in Symbols
      BY <1>1, <1>2, <1>4 DEF Run, Symbols
    <2>3. NoRow \in StateRows
      BY EmptySeq DEF NoRow, StateRows
    <2>4. r \in Run
      BY <1>1, <2>2, <2>3 DEF Run, PCs
    <2>5. /\ r.pc = "state" /\ r.command = run[p].command /\ r.until = run[p].until
          /\ r.line = run[p].line /\ r.day = run[p].day
      BY <1>1 DEF Run
    <2> HIDE DEF r
    <2>6. CommandOK(r) /\ Progress(ledger, r) /\ Blocking(ledger, r) /\ Reading(ledger, r)
      BY <1>1, <2>5 DEF RunOK, CommandOK, Progress, Blocking, Reading
    <2>7. RunOK(ledger, r)
      BY <2>6 DEF RunOK
    <2>8. QED
      BY <1>1, <2>1, <2>4, <2>5, <2>7, RunStep
  <1>5. CASE Good /\ ~(run[p].symbol < SymbolCount) /\ run[p].command = "sync"
    <2> DEFINE r == [Idle EXCEPT !.pc = "stage", !.command = "sync",
                                 !.day = run[p].day + 1, !.until = run[p].until]
    <2>1. run' = [run EXCEPT ![p] = r]
      BY <1>1, <1>5 DEF ReadIntents, Verified
    <2>2. run[p].day + 1 \in Nat /\ run[p].until \in Nat /\ Idle \in Run
      BY <1>1, IdleOK DEF Run
    <2>3. r \in Run
      BY <2>2 DEF Run, PCs
    <2>4. /\ r.pc = "stage" /\ r.command = "sync" /\ r.until = run[p].until
          /\ r.day = run[p].day + 1 /\ r.symbol = 1
      BY DEF Idle
    <2> HIDE DEF r
    <2>5. CommandOK(r) /\ Blocking(ledger, r) /\ Reading(ledger, r)
      BY <1>1, <1>5, <2>4 DEF RunOK, CommandOK, Blocking, Reading, Archive
    <2>6. Progress(ledger, r)
      BY <1>1, <1>5, <2>4 DEF RunOK, Progress
    <2>7. RunOK(ledger, r)
      BY <2>5, <2>6 DEF RunOK
    <2>8. QED
      BY <1>1, <2>1, <2>3, <2>4, <2>7, RunStep
  <1>6. CASE Good /\ ~(run[p].symbol < SymbolCount) /\ run[p].command # "sync"
    <2>1. run' = [run EXCEPT ![p] = Idle]
      BY <1>1, <1>6 DEF ReadIntents, Verified
    <2>2. QED
      BY <1>1, <2>1, EndStep
  <1>7. QED
    BY <1>3, <1>4, <1>5, <1>6

LEMMA RaiseInv == ASSUME IInv, NEW p \in Processes, Raise(p) PROVE IInv'
  <1>1. run[p].pc # "insert" /\ run' = [run EXCEPT ![p] = Idle] /\ UNCHANGED Quiet
    BY DEF Raise
  <1>2. QED
    BY <1>1, EndStep

\* Whoever inserts holds the transaction, which is sound.
LEMMA Holder ==
    ASSUME IInv, NEW p \in Processes, run[p].pc = "insert"
    PROVE  /\ tx # None /\ tx.by = p /\ tx \in [by : Processes, entry : Entry]
           /\ tx.entry \in Entry
           /\ TxOK(ledger, tx.entry, run[p])
  <1>1. tx # None /\ tx.by = p
    BY DEF IInv, Owner
  <1>2. tx \in [by : Processes, entry : Entry]
    BY <1>1 DEF IInv, TypeOK
  <1>3. TxOK(ledger, tx.entry, run[p])
    BY <1>1 DEF IInv
  <1>4. QED
    BY <1>1, <1>2, <1>3

LEMMA SkipDuplicateInv == ASSUME IInv, NEW p \in Processes, SkipDuplicate(p) PROVE IInv'
  <1>1. /\ run \in [Processes -> Run] /\ run[p] \in Run /\ RunOK(ledger, run[p])
        /\ run[p].pc = "insert" /\ run[p].next < Past(run[p])
        /\ VerdictOf(p) = "duplicate" /\ UNCHANGED Quiet
    BY DEF IInv, TypeOK, SkipDuplicate, Inserting
  <1>2. tx.entry \in Entry /\ TxOK(ledger, tx.entry, run[p])
    BY <1>1, Holder
  <1> DEFINE r == [run[p] EXCEPT !.next = @ + 1]
  <1>3. run' = [run EXCEPT ![p] = r]
    BY <1>1 DEF SkipDuplicate
  <1>4. r \in Run /\ run[p].next \in Nat
    BY <1>1 DEF Run
  <1>5. /\ r.pc = "insert" /\ r.command = run[p].command /\ r.until = run[p].until
        /\ r.line = run[p].line /\ r.day = run[p].day /\ r.symbol = run[p].symbol
        /\ r.next = run[p].next + 1 /\ r.reason = run[p].reason
    BY <1>1 DEF Run
  <1> HIDE DEF r
  <1>6. Past(r) = Past(run[p]) /\ Past(run[p]) \in Nat
    <2>1. Past(r) = Past(run[p])
      BY <1>5 DEF Past
    <2>2. CASE run[p].command = "line"
      <3>1. run[p].line \in Lines
        BY <1>1, <2>2 DEF RunOK, CommandOK
      <3>2. run[p].line.minute \in Nat
        BY <3>1, LedgerBounds DEF Line
      <3>3. QED
        BY <2>1, <2>2, <3>2 DEF Past
    <2>3. CASE run[p].command # "line"
      BY <1>1, <2>1, <2>3, LedgerBounds DEF Past, Opens, Run
    <2>4. QED
      BY <2>2, <2>3
  <1>7. CommandOK(r)
    BY <1>1, <1>4, <1>5, <1>6 DEF RunOK, CommandOK
  <1>8. Progress(ledger, r) /\ Blocking(ledger, r) /\ Reading(ledger, r)
    BY <1>1, <1>5 DEF RunOK, Progress, Blocking, Reading
  <1>9. TxOK(ledger, tx.entry, r)
    <2>1. \E row \in tx.entry.bars : row.minute = run[p].next
      BY <1>1 DEF VerdictOf, Verdict
    <2>2. run[p].next \in 0..(Len(tx.entry.head) - 1)
      BY <1>2, <2>1, RowsOfChain DEF TxOK
    <2>3. tx.entry.last = Len(tx.entry.head) - 1 /\ Len(tx.entry.head) \in Nat
      BY <1>2, RowsOfChain DEF TxOK, Sound
    <2>4. r.next <= tx.entry.last + 1
      BY <1>5, <2>2, <2>3
    <2>5. QED
      BY <1>2, <1>5, <2>4 DEF TxOK
  <1>10. RunOK(ledger, r)
    BY <1>7, <1>8 DEF RunOK
  <1>11. QED
    BY <1>1, <1>3, <1>4, <1>5, <1>9, <1>10, RunStep

----------------------------------------------------------------------------
(* Transactions.                                                           *)

LEMMA DaysInOrder ==
    ASSUME NEW a \in Nat, NEW b \in Nat, a <= b
    PROVE  Opens(a) \in Nat /\ Opens(b) \in Nat /\ Opens(a) <= Opens(b)
  <1>1. DayLength \in Nat /\ b - a \in Nat
    BY LedgerBounds
  <1>2. (b - a) * DayLength \in Nat /\ a * DayLength \in Nat /\ b * DayLength \in Nat
    BY <1>1
  <1>3. b * DayLength = a * DayLength + (b - a) * DayLength
    BY <1>1
  <1>4. QED
    BY <1>2, <1>3 DEF Opens

\* The minutes of a command lie where bars are defined.
LEMMA Minutes ==
    ASSUME NEW r \in Run, CommandOK(r), r.pc \in {"begin", "insert"}
    PROVE  /\ First(r) \in Nat /\ Past(r) \in Nat /\ First(r) <= Past(r)
           /\ r.command # "line" => First(r) = Opens(r.day) /\ Past(r) <= Opens(LastDay)
           /\ r.command = "sync" => Past(r) = Opens(r.day + 1)
  <1>1. LastDay \in Nat /\ r.day \in Nat /\ r.until \in Nat
    BY LedgerBounds DEF Run
  <1>2. CASE r.command = "line"
    <2>1. r.line.minute \in Nat
      BY <1>2, LedgerBounds DEF CommandOK, Line
    <2>2. First(r) = r.line.minute /\ Past(r) = r.line.minute + 1
      BY <1>2 DEF First, Past
    <2>3. QED
      BY <1>2, <2>1, <2>2
  <1>3. CASE r.command # "line"
    <2>1. r.day < r.until /\ r.until <= LastDay
      BY <1>3 DEF CommandOK, Archive
    <2> DEFINE u == IF r.command = "sync" THEN r.day + 1 ELSE r.until
    <2>2. u \in Nat /\ r.day <= u /\ u <= LastDay
      BY <1>1, <2>1
    <2>3. First(r) = Opens(r.day) /\ Past(r) = Opens(u)
      BY <1>3 DEF First, Past
    <2> HIDE DEF u
    <2>4. Opens(r.day) \in Nat /\ Opens(u) \in Nat /\ Opens(r.day) <= Opens(u)
      BY <1>1, <2>2, DaysInOrder
    <2>5. Opens(u) <= Opens(LastDay)
      BY <1>1, <2>2, DaysInOrder
    <2>6. QED
      BY <2>3, <2>4, <2>5 DEF u
  <1>4. QED
    BY <1>2, <1>3

LEMMA ContentTyped ==
    ASSUME NEW r \in Run, CommandOK(r), r.pc = "insert", r.next < Past(r)
    PROVE  Content(r) \in Contents /\ r.next \in Nat
  <1>1. r.next \in Nat /\ r.symbol \in Symbols
    BY DEF Run
  <1>2. CASE r.command = "line"
    <2>1. r.line \in Line
      BY <1>2, LedgerBounds DEF CommandOK
    <2>2. QED
      BY <1>1, <1>2, <2>1 DEF Content, Line
  <1>3. CASE r.command # "line"
    <2>1. Past(r) \in Nat /\ Past(r) <= Opens(LastDay)
      BY <1>3, Minutes
    <2>2. Opens(LastDay) \in Nat
      BY LedgerBounds, DaysInOrder
    <2>3. r.next \in 0..(Opens(LastDay) - 1)
      BY <1>1, <2>1, <2>2
    <2>4. Official[r.symbol][r.next] \in Contents
      BY <1>1, <2>3, LedgerBounds DEF Opens
    <2>5. QED
      BY <1>1, <1>3, <2>4 DEF Content
  <1>4. QED
    BY <1>2, <1>3

\* A step of the process that inserts, or begins to.
LEMMA HolderStep ==
    ASSUME IInv, NEW p \in Processes, NEW r \in Run, NEW e \in Entry,
           RunOK(ledger, r), r.pc = "insert", TxOK(ledger, e, r),
           \A q \in Processes \ {p} : run[q].pc # "insert",
           run' = [run EXCEPT ![p] = r], tx' = [by |-> p, entry |-> e],
           UNCHANGED <<ledger, published, today, failures, violated>>
    PROVE  IInv'
  <1>1. run \in [Processes -> Run] /\ run'[p] = r /\ \A q \in Processes \ {p} : run'[q] = run[q]
    BY DEF IInv, TypeOK
  <1>2. tx' \in [by : Processes, entry : Entry] /\ tx' # None /\ tx'.by = p /\ tx'.entry = e
    BY NoneIsNoTransaction
  <1>3. TypeOK'
    BY <1>1, <1>2 DEF IInv, TypeOK
  <1>4. \A s \in Symbols : Sound(ledger'[s])
    BY DEF IInv
  <1>5. \A q \in Processes : RunOK(ledger', run'[q])
    BY <1>1 DEF IInv
  <1>6. Owner(tx', run')
    BY <1>1, <1>2 DEF Owner
  <1>7. TxOK(ledger', tx'.entry, run'[tx'.by])
    BY <1>1, <1>2
  <1>8. QED
    BY <1>3, <1>4, <1>5, <1>6, <1>7 DEF IInv

LEMMA BeginInv == ASSUME IInv, NEW p \in Processes, Begin(p) PROVE IInv'
  <1>1. /\ run \in [Processes -> Run] /\ run[p] \in Run /\ RunOK(ledger, run[p])
        /\ run[p].pc = "begin" /\ tx = None /\ CommandOK(run[p])
    BY DEF IInv, TypeOK, Begin, RunOK
  <1> DEFINE s == run[p].symbol
             r == [run[p] EXCEPT !.pc = "insert", !.next = First(run[p])]
  <1>2. s \in Symbols /\ ledger[s] \in Entry /\ Sound(ledger[s])
    BY <1>1 DEF IInv, TypeOK, Run
  <1>3. /\ First(run[p]) \in Nat /\ Past(run[p]) \in Nat /\ First(run[p]) <= Past(run[p])
        /\ run[p].command # "line" => First(run[p]) = Opens(run[p].day)
    BY <1>1, Minutes
  <1>4. run' = [run EXCEPT ![p] = r]
    BY <1>1 DEF Begin
  <1>5. r \in Run
    BY <1>1, <1>3 DEF Run, PCs
  <1>6. /\ r.pc = "insert" /\ r.command = run[p].command /\ r.until = run[p].until
        /\ r.line = run[p].line /\ r.day = run[p].day /\ r.symbol = s
        /\ r.next = First(run[p])
    BY <1>1 DEF Run
  <1> HIDE DEF r
  <1>7. CommandOK(r)
    <2>1. Past(r) = Past(run[p])
      BY <1>6 DEF Past
    <2>2. QED
      BY <1>1, <1>3, <1>6, <2>1 DEF CommandOK
  <1>8. Progress(ledger, r) /\ Blocking(ledger, r) /\ Reading(ledger, r)
    BY <1>1, <1>6 DEF RunOK, Progress, Blocking, Reading
  <1>9. RunOK(ledger, r)
    BY <1>7, <1>8 DEF RunOK
  <1>10. TxOK(ledger, ledger[s], r)
    <2>1. Longer(ledger[s].head, ledger[s].head)
      <3>1. Len(ledger[s].head) \in Nat
        BY <1>2, RowsOfChain
      <3>2. QED
        BY <3>1 DEF Longer
    <2>2. r.command = "sync" => r.next <= ledger[s].last + 1
      BY <1>1, <1>2, <1>3, <1>6 DEF RunOK, Progress, Reached
    <2>3. QED
      BY <1>2, <1>6, <2>1, <2>2 DEF TxOK
  <1>11. \A q \in Processes \ {p} : run[q].pc # "insert"
    BY <1>1 DEF IInv, Owner
  <1>12. tx' = [by |-> p, entry |-> ledger[s]]
         /\ UNCHANGED <<ledger, published, today, failures, violated>>
    BY DEF Begin
  <1> HIDE DEF s
  <1>13. QED
    BY <1>2, <1>4, <1>5, <1>6, <1>9, <1>10, <1>11, <1>12, HolderStep

LEMMA InsertInv == ASSUME IInv, NEW p \in Processes, Insert(p) PROVE IInv'
  <1> DEFINE m == run[p].next
             c == Content(run[p])
             s == run[p].symbol
             e == Stored(tx.entry, m, c)
             r == [run[p] EXCEPT !.next = @ + 1]
  <1>1. /\ run \in [Processes -> Run] /\ run[p] \in Run /\ RunOK(ledger, run[p])
        /\ run[p].pc = "insert" /\ m < Past(run[p]) /\ CommandOK(run[p])
        /\ Verdict(tx.entry, m, c) = "insert"
    BY DEF IInv, TypeOK, Insert, Inserting, VerdictOf, RunOK
  <1>2. /\ tx # None /\ tx.by = p /\ tx \in [by : Processes, entry : Entry]
        /\ tx.entry \in Entry /\ TxOK(ledger, tx.entry, run[p])
    BY <1>1, Holder
  <1>3. m \in Nat /\ c \in Contents
    BY <1>1, ContentTyped
  <1>4. Sound(tx.entry)
    BY <1>2 DEF TxOK
  <1>5. /\ e \in Entry /\ Sound(e) /\ e.head = Append(tx.entry.head, c) /\ e.last = m
        /\ e.blocked = None /\ tx.entry.blocked = None
    BY <1>1, <1>2, <1>3, <1>4, StoredSound
  <1>6. run' = [run EXCEPT ![p] = r]
    BY <1>1 DEF Insert
  <1>7. r \in Run
    BY <1>1 DEF Run
  <1>8. /\ r.pc = "insert" /\ r.command = run[p].command /\ r.until = run[p].until
        /\ r.line = run[p].line /\ r.day = run[p].day /\ r.symbol = s /\ r.next = m + 1
    BY <1>1 DEF Run
  <1>9. tx' = [by |-> p, entry |-> e]
    <2>1. tx' = [tx EXCEPT !.entry = e]
      BY DEF Insert
    <2> HIDE DEF e
    <2>2. QED
      BY <1>2, <2>1
  <1> HIDE DEF r, e
  <1>10. CommandOK(r)
    <2>1. Past(r) = Past(run[p])
      BY <1>8 DEF Past
    <2>2. Past(run[p]) \in Nat
      BY <1>1, Minutes
    <2>3. QED
      BY <1>1, <1>3, <1>8, <2>1, <2>2 DEF CommandOK
  <1>11. Progress(ledger, r) /\ Blocking(ledger, r) /\ Reading(ledger, r)
    BY <1>1, <1>8 DEF RunOK, Progress, Blocking, Reading
  <1>12. RunOK(ledger, r)
    BY <1>10, <1>11 DEF RunOK
  <1>13. TxOK(ledger, e, r)
    <2>1. tx.entry.head \in Seq(Contents) /\ Longer(tx.entry.head, ledger[s].head)
          /\ ledger[s].blocked = None
      BY <1>2, <1>5 DEF TxOK, Entry
    <2>2. s \in Symbols /\ ledger[s] \in Entry /\ Sound(ledger[s])
      BY <1>1 DEF IInv, TypeOK, Run
    <2>3. Len(ledger[s].head) \in Nat
      BY <2>2, RowsOfChain
    <2>4. Longer(e.head, ledger[s].head)
      <3>1. Len(e.head) = Len(tx.entry.head) + 1
            /\ \A i \in 1..Len(tx.entry.head) : e.head[i] = tx.entry.head[i]
        BY <1>3, <1>5, <2>1, GrownChain
      <3>2. Len(tx.entry.head) \in Nat
        BY <2>1
      <3>3. QED
        BY <2>1, <2>3, <3>1, <3>2 DEF Longer
    <2>5. r.next <= e.last + 1
      BY <1>3, <1>5, <1>8
    <2>6. QED
      BY <1>5, <1>8, <2>1, <2>4, <2>5 DEF TxOK
  <1>14. \A q \in Processes \ {p} : run[q].pc # "insert"
    BY <1>2 DEF IInv, Owner
  <1>15. UNCHANGED <<ledger, published, today, failures, violated>>
    BY DEF Insert
  <1> HIDE DEF m, c, s
  <1>16. QED
    BY <1>5, <1>6, <1>7, <1>8, <1>9, <1>12, <1>13, <1>14, <1>15, HolderStep

\* A step that leaves no transaction under way, whatever it does to the ledger.
LEMMA Released ==
    ASSUME IInv, NEW p \in Processes, NEW r \in Run, r.pc # "insert",
           \A q \in Processes \ {p} : run[q].pc # "insert",
           run' \in [Processes -> Run], run'[p] = r,
           \A q \in Processes \ {p} : run'[q].pc = run[q].pc,
           \A q \in Processes : RunOK(ledger', run'[q]),
           ledger' \in [Symbols -> Entry], \A s \in Symbols : Sound(ledger'[s]),
           tx' = None, UNCHANGED <<published, today>>,
           failures' \in 0..MaxFailures, violated' \subseteq Symbols
    PROVE  IInv'
  <1>1. TypeOK'
    BY DEF IInv, TypeOK
  <1>2. Owner(tx', run')
    BY DEF Owner
  <1>3. QED
    BY <1>1, <1>2 DEF IInv

LEMMA ViolateInv == ASSUME IInv, NEW p \in Processes, Violate(p) PROVE IInv'
  <1> DEFINE m == run[p].next
             c == Content(run[p])
             s == run[p].symbol
             e == tx.entry
             verdict == Verdict(e, m, c)
             r == [run[p] EXCEPT !.pc = "block", !.reason = verdict]
  <1>1. /\ run \in [Processes -> Run] /\ run[p] \in Run /\ RunOK(ledger, run[p])
        /\ run[p].pc = "insert" /\ m < Past(run[p]) /\ CommandOK(run[p])
        /\ verdict \in Violations \cup {"refused"}
    BY DEF IInv, TypeOK, Violate, Inserting, VerdictOf, RunOK
  <1>2. tx # None /\ tx.by = p /\ e \in Entry /\ TxOK(ledger, e, run[p])
    BY <1>1, Holder
  <1>3. s \in Symbols /\ m \in Nat /\ ledger[s] \in Entry /\ Sound(ledger[s]) /\ Sound(e)
    BY <1>1, <1>2 DEF IInv, TypeOK, Run, TxOK
  <1>4. run' = [run EXCEPT ![p] = r]
    BY <1>1 DEF Violate, VerdictOf
  <1>5. verdict # None
    BY <1>1, LedgerBounds DEF Violations
  <1>6. verdict = "refused" => ledger[s].blocked # None
    BY <1>2 DEF Verdict, TxOK
  <1>7. run[p].command = "sync" => verdict \in {"conflict", "refused"}
    <2>1. HAVE run[p].command = "sync"
    <2>2. m <= e.last + 1
      BY <1>2, <2>1 DEF TxOK
    <2>3. e.last = Len(e.head) - 1 /\ Len(e.head) \in Nat
          /\ ledger[s].last = Len(ledger[s].head) - 1 /\ Len(ledger[s].head) \in Nat
      BY <1>2, <1>3, RowsOfChain DEF Sound
    <2>4. ledger[s].last # -1
      BY <1>1, <1>3, <2>1 DEF RunOK, Progress, Reached
    <2>5. Len(ledger[s].head) <= Len(e.head)
      BY <1>2 DEF TxOK, Longer
    <2>6. e.last # -1
      BY <2>3, <2>4, <2>5
    <2>7. CASE m = e.last + 1
      <3>1. verdict # "boundary" /\ verdict # "gap"
        BY <2>6, <2>7 DEF Verdict
      <3>2. QED
        BY <1>1, <3>1 DEF Violations
    <2>8. CASE m # e.last + 1
      <3>1. m \in 0..(Len(e.head) - 1)
        BY <1>3, <2>2, <2>3, <2>8
      <3>2. RowAt(e.head, m) \in e.bars
        BY <1>2, <1>3, <3>1, RowsOfChain
      <3>3. {row \in e.bars : row.minute = m} # {}
        BY <3>2 DEF RowAt
      <3>4. verdict # "boundary" /\ verdict # "gap"
        BY <3>3 DEF Verdict
      <3>5. QED
        BY <1>1, <3>4 DEF Violations
    <2>9. QED
      BY <2>7, <2>8
  <1> HIDE DEF verdict
  <1>8. r \in Run
    BY <1>1 DEF Run, PCs
  <1>9. /\ r.pc = "block" /\ r.command = run[p].command /\ r.until = run[p].until
        /\ r.line = run[p].line /\ r.symbol = s /\ r.reason = verdict
    BY <1>1 DEF Run
  <1> HIDE DEF r
  <1>10. CommandOK(r) /\ Progress(ledger, r) /\ Reading(ledger, r)
    BY <1>1, <1>9 DEF CommandOK, Progress, Reading
  <1>11. Blocking(ledger, r)
    BY <1>5, <1>6, <1>7, <1>9 DEF Blocking
  <1>12. RunOK(ledger, r)
    BY <1>10, <1>11 DEF RunOK
  <1>13. /\ tx' = None /\ violated' = violated \cup {s}
         /\ UNCHANGED <<ledger, published, today, failures>>
    BY DEF Violate
  <1>14. /\ violated' \subseteq Symbols /\ failures' \in 0..MaxFailures
         /\ ledger' \in [Symbols -> Entry]
         /\ \A t \in Symbols : Sound(ledger'[t])
    BY <1>3, <1>13 DEF IInv, TypeOK
  <1>15. \A q \in Processes \ {p} : run[q].pc # "insert"
    BY <1>2 DEF IInv, Owner
  <1>16. /\ run' \in [Processes -> Run] /\ run'[p] = r
         /\ \A q \in Processes \ {p} : run'[q] = run[q]
    BY <1>1, <1>4, <1>8
  <1>17. \A q \in Processes : RunOK(ledger', run'[q])
    BY <1>12, <1>13, <1>16 DEF IInv
  <1> HIDE DEF m, c, s, e
  <1>18. QED
    BY <1>8, <1>9, <1>13, <1>14, <1>15, <1>16, <1>17, Released

LEMMA BlockInv == ASSUME IInv, NEW p \in Processes, Block(p) PROVE IInv'
  <1> DEFINE s == run[p].symbol
             e == ledger[s]
             blocked == Coalesced(e.blocked, run[p].reason)
             n == [e EXCEPT !.blocked = blocked]
  <1>1. /\ run \in [Processes -> Run] /\ run[p] \in Run /\ RunOK(ledger, run[p])
        /\ run[p].pc = "block" /\ tx = None /\ ledger \in [Symbols -> Entry]
    BY DEF IInv, TypeOK, Block
  <1>2. s \in Symbols /\ e \in Entry /\ Sound(e)
    BY <1>1 DEF IInv, Run
  <1>3. blocked \in Violations /\ blocked # None
    <2>1. run[p].reason \in Violations \cup {"refused", None} /\ run[p].reason # None
          /\ (run[p].reason = "refused" => e.blocked # None)
      BY <1>1 DEF RunOK, Blocking, Run
    <2>2. e.blocked \in Violations \cup {None}
      BY <1>2 DEF Entry
    <2>3. QED
      BY <2>1, <2>2 DEF Coalesced
  <1>4. ledger' = [ledger EXCEPT ![s] = n]
    BY <1>1 DEF Block
  <1> HIDE DEF blocked
  <1>5. n \in Entry
    BY <1>2, <1>3 DEF Entry
  <1>6. /\ n.last = e.last /\ n.head = e.head /\ n.count = e.count /\ n.bars = e.bars
        /\ n.intents = e.intents /\ n.emitted = e.emitted /\ n.blocked = blocked
    BY <1>2 DEF Entry
  <1>7. Sound(n)
    BY <1>2, <1>6 DEF Sound
  <1> HIDE DEF n
  <1>8. ledger' \in [Symbols -> Entry] /\ ledger'[s] = n
        /\ \A t \in Symbols \ {s} : ledger'[t] = ledger[t]
    BY <1>1, <1>2, <1>4, <1>5
  <1>9. \A t \in Symbols : Sound(ledger'[t])
    BY <1>7, <1>8 DEF IInv
  <1>10. \A t \in Symbols : ledger[t].last \in Nat \cup {-1}
    BY <1>1 DEF Entry
  <1>11. \A t \in Symbols : ledger[t].last <= ledger'[t].last
    <2>1. TAKE t \in Symbols
    <2>2. ledger'[t].last = ledger[t].last
      BY <1>6, <1>8
    <2>3. QED
      BY <1>10, <2>2
  <1>12. \A t \in Symbols : ledger[t].blocked # None => ledger'[t].blocked # None
    BY <1>3, <1>6, <1>8
  <1>13. \A t \in Symbols : StateRow(ledger'[t]) = StateRow(ledger[t])
    BY <1>6, <1>8 DEF StateRow
  <1>14. run' = [run EXCEPT ![p] = Idle] /\ tx' = None
         /\ UNCHANGED <<published, today, failures, violated>>
    BY DEF Block
  <1>15. Idle \in Run /\ RunOK(ledger', Idle) /\ Idle.pc # "insert"
    BY IdleOK DEF Idle
  <1>16. /\ run' \in [Processes -> Run] /\ run'[p] = Idle
         /\ \A q \in Processes \ {p} : run'[q] = run[q]
    BY <1>1, <1>14, <1>15
  <1>17. \A q \in Processes : RunOK(ledger', run'[q])
    <2>1. ASSUME NEW q \in Processes PROVE RunOK(ledger', run[q])
      <3>1. run[q] \in Run /\ RunOK(ledger, run[q])
        BY <1>1 DEF IInv
      <3>2. run[q].symbol \in Symbols
        BY <3>1 DEF Run
      <3>3. StateRow(ledger'[run[q].symbol]) = StateRow(ledger[run[q].symbol])
        BY <3>2, <1>13
      <3>4. QED
        BY <1>1, <1>8, <1>11, <1>12, <3>1, <3>3, GrownLedger
    <2>2. QED
      BY <2>1, <1>15, <1>16
  <1>18. \A q \in Processes \ {p} : run[q].pc # "insert"
    BY <1>1 DEF IInv, Owner
  <1>19. failures' \in 0..MaxFailures /\ violated' \subseteq Symbols
    BY <1>14 DEF IInv, TypeOK
  <1> HIDE DEF s, e
  <1>20. QED
    BY <1>8, <1>9, <1>14, <1>15, <1>16, <1>17, <1>18, <1>19, Released

LEMMA FailInv == ASSUME IInv, NEW p \in Processes, Fail(p) PROVE IInv'
  <1>1. /\ run \in [Processes -> Run] /\ run' = [run EXCEPT ![p] = Idle]
        /\ tx' = (IF run[p].pc = "insert" THEN None ELSE tx)
        /\ UNCHANGED <<ledger, published, today, violated>>
    BY DEF IInv, TypeOK, Fail
  <1>2. Idle \in Run /\ RunOK(ledger', Idle) /\ Idle.pc = "idle"
    BY IdleOK DEF Idle
  <1>3. /\ run' \in [Processes -> Run] /\ run'[p] = Idle
        /\ \A q \in Processes \ {p} : run'[q] = run[q]
    BY <1>1, <1>2
  <1>4. \A q \in Processes : RunOK(ledger', run'[q])
    BY <1>1, <1>2, <1>3 DEF IInv
  <1>5. failures' \in 0..MaxFailures
    BY LedgerBounds DEF Fail, IInv, TypeOK
  <1>6. CASE run[p].pc = "insert"
    <2>1. tx' = None /\ \A q \in Processes \ {p} : run[q].pc # "insert"
      BY <1>1, <1>6 DEF IInv, Owner
    <2>2. /\ ledger' \in [Symbols -> Entry] /\ violated' \subseteq Symbols
          /\ \A s \in Symbols : Sound(ledger'[s])
      BY <1>1 DEF IInv, TypeOK
    <2>3. QED
      BY <1>1, <1>2, <1>3, <1>4, <1>5, <2>1, <2>2, Released
  <1>7. CASE run[p].pc # "insert"
    <2>1. tx' = tx /\ ledger' = ledger
      BY <1>1, <1>7
    <2>2. TypeOK'
      BY <1>1, <1>3, <1>5, <2>1 DEF IInv, TypeOK
    <2>3. Owner(tx', run')
      BY <1>2, <1>3, <1>7, <2>1 DEF IInv, Owner
    <2>4. tx' # None => TxOK(ledger', tx'.entry, run'[tx'.by])
      <3>1. HAVE tx' # None
      <3>2. tx.by \in Processes /\ tx.by # p
        BY <1>7, <2>1, <3>1 DEF IInv, TypeOK, Owner
      <3>3. QED
        BY <1>3, <2>1, <3>1, <3>2 DEF IInv
    <2>5. QED
      BY <1>4, <2>1, <2>2, <2>3, <2>4 DEF IInv
  <1>8. QED
    BY <1>6, <1>7

\* A commit makes the chain of its symbol longer and leaves the others alone.
LEMMA CommitGrows ==
    ASSUME IInv, NEW p \in Processes, Commit(p)
    PROVE  /\ ledger' \in [Symbols -> Entry]
           /\ tx.entry \in Entry /\ TxOK(ledger, tx.entry, run[p])
           /\ ledger'[run[p].symbol] = tx.entry
           /\ \A s \in Symbols \ {run[p].symbol} : ledger'[s] = ledger[s]
           /\ \A s \in Symbols : Sound(ledger'[s])
           /\ \A s \in Symbols : ledger[s].last <= ledger'[s].last
           /\ \A s \in Symbols : ledger'[s].blocked = ledger[s].blocked
  <1> DEFINE s == run[p].symbol
             e == tx.entry
  <1>1. e \in Entry /\ TxOK(ledger, e, run[p])
    BY Holder DEF Commit
  <1>2. s \in Symbols /\ ledger \in [Symbols -> Entry]
    BY DEF IInv, TypeOK, Run
  <1>3. ledger' = [ledger EXCEPT ![s] = e]
    BY DEF Commit
  <1> HIDE DEF s, e
  <1>4. ledger' \in [Symbols -> Entry] /\ ledger'[s] = e
        /\ \A t \in Symbols \ {s} : ledger'[t] = ledger[t]
    BY <1>1, <1>2, <1>3
  <1>5. Sound(e) /\ Len(ledger[s].head) <= Len(e.head) /\ e.blocked = ledger[s].blocked
    BY <1>1 DEF TxOK, Longer, s
  <1>6. \A t \in Symbols : Sound(ledger[t]) /\ ledger[t].last \in Nat \cup {-1}
    BY <1>2 DEF IInv, Entry
  <1>7. ledger[s].last <= e.last
    <2>1. ledger[s] \in Entry /\ Sound(ledger[s])
      BY <1>2, <1>6
    <2>2. Len(ledger[s].head) \in Nat /\ Len(e.head) \in Nat
      BY <1>1, <1>5, <2>1, RowsOfChain
    <2>3. ledger[s].last = Len(ledger[s].head) - 1 /\ e.last = Len(e.head) - 1
      BY <1>5, <2>1 DEF Sound
    <2>4. QED
      BY <1>5, <2>2, <2>3
  <1>8. \A t \in Symbols : Sound(ledger'[t]) /\ ledger'[t].blocked = ledger[t].blocked
    BY <1>4, <1>5, <1>6
  <1>9. \A t \in Symbols : ledger[t].last <= ledger'[t].last
    <2>1. TAKE t \in Symbols
    <2>2. CASE t = s
      BY <1>4, <1>7, <2>2
    <2>3. CASE t # s
      BY <1>4, <1>6, <2>3
    <2>4. QED
      BY <2>2, <2>3
  <1>10. QED
    BY <1>1, <1>4, <1>8, <1>9 DEF s, e

\* The command that commits goes on as it may.
LEMMA CommittedOK ==
    ASSUME IInv, NEW p \in Processes, Commit(p)
    PROVE  /\ Committed(run[p]) \in Run
           /\ Committed(run[p]).pc # "insert"
           /\ RunOK(ledger', Committed(run[p]))
  <1> DEFINE s == run[p].symbol
  <1>1. /\ run[p] \in Run /\ RunOK(ledger, run[p]) /\ run[p].pc = "insert"
        /\ run[p].next = Past(run[p]) /\ CommandOK(run[p])
    BY DEF IInv, TypeOK, RunOK, Commit
  <1>2. SymbolCount \in Nat \ {0} /\ s \in 1..SymbolCount /\ 1 \in Symbols
    BY <1>1, LedgerBounds DEF Run, Symbols
  <1>3. CASE run[p].command = "line"
    BY <1>3, IdleOK DEF Committed, Idle
  <1>4. CASE run[p].command # "line"
    <2>1. /\ run[p].command \in Archive /\ run[p].until <= LastDay
          /\ run[p].day < run[p].until
      BY <1>1, <1>4 DEF CommandOK
    <2>2. /\ \A t \in Symbols : ledger[t].last <= ledger'[t].last
          /\ TxOK(ledger, tx.entry, run[p]) /\ ledger'[s] = tx.entry
          /\ ledger \in [Symbols -> Entry] /\ ledger' \in [Symbols -> Entry]
      BY CommitGrows DEF IInv, TypeOK
    <2>3. \A t \in Symbols : ledger[t].last \in Nat \cup {-1} /\ ledger'[t].last \in Nat \cup {-1}
      BY <2>2 DEF Entry
    <2> DEFINE next == Opens(run[p].day + 1)
               here == Opens(run[p].day)
    <2>4. next \in Nat /\ here \in Nat
      BY <1>1, LedgerBounds DEF Run, Opens
    <2>5. ASSUME run[p].command = "sync"
          PROVE  /\ Reached(ledger', here)
                 /\ \A t \in Symbols : t < s + 1 => next <= ledger'[t].last + 1
      <3>1. Reached(ledger, here) /\ \A t \in Symbols : t < s => next <= ledger[t].last + 1
        BY <1>1, <2>5 DEF RunOK, Progress
      <3>2. next = run[p].next /\ run[p].next <= ledger'[s].last + 1
        BY <1>1, <2>2, <2>5, Minutes DEF TxOK
      <3> HIDE DEF next, here
      <3>3. Reached(ledger', here)
        <4>1. ASSUME NEW t \in Symbols PROVE ledger'[t].last # -1 /\ here <= ledger'[t].last + 1
          <5>1. ledger[t].last # -1 /\ here <= ledger[t].last + 1
            BY <3>1 DEF Reached
          <5>2. ledger[t].last <= ledger'[t].last
            BY <2>2
          <5>3. QED
            BY <2>3, <2>4, <5>1, <5>2
        <4>2. QED
          BY <4>1 DEF Reached
      <3>4. ASSUME NEW t \in Symbols, t < s + 1 PROVE next <= ledger'[t].last + 1
        <4>1. t \in Nat /\ s \in Nat
          BY <1>2 DEF Symbols
        <4>2. CASE t = s
          BY <3>2, <4>2
        <4>3. CASE t < s
          <5>1. next <= ledger[t].last + 1 /\ ledger[t].last <= ledger'[t].last
            BY <2>2, <3>1, <4>3
          <5>2. QED
            BY <2>3, <2>4, <5>1
        <4>4. QED
          BY <3>4, <4>1, <4>2, <4>3
      <3>5. QED
        BY <3>3, <3>4
    <2> HIDE DEF next, here
    <2>6. CASE s < SymbolCount
      <3> DEFINE pc == IF run[p].command = "import" THEN "stage" ELSE "begin"
                 r == [run[p] EXCEPT !.symbol = s + 1, !.next = 0, !.pc = pc]
      <3>1. Committed(run[p]) = r
        BY <1>4, <2>6 DEF Committed
      <3>2. s + 1 \in Symbols
        BY <1>2, <2>6 DEF Symbols
      <3>3. r \in Run
        BY <1>1, <3>2 DEF Run, PCs
      <3>4. /\ r.pc = pc /\ r.command = run[p].command /\ r.until = run[p].until
            /\ r.line = run[p].line /\ r.day = run[p].day /\ r.symbol = s + 1
        BY <1>1 DEF Run
      <3>5. pc \in {"stage", "begin"} /\ (run[p].command = "sync" => pc = "begin")
        OBVIOUS
      <3> HIDE DEF r, pc
      <3>6. CommandOK(r) /\ Blocking(ledger', r) /\ Reading(ledger', r)
        BY <2>1, <1>4, <3>4, <3>5 DEF CommandOK, Blocking, Reading
      <3>7. Progress(ledger', r)
        BY <2>5, <3>4, <3>5 DEF Progress, next, here
      <3>8. RunOK(ledger', r)
        BY <3>6, <3>7 DEF RunOK
      <3>9. QED
        BY <3>1, <3>3, <3>4, <3>5, <3>8
    <2>7. CASE ~(s < SymbolCount)
      <3> DEFINE r == [run[p] EXCEPT !.symbol = 1, !.next = 0, !.pc = "state"]
      <3>1. Committed(run[p]) = r
        BY <1>4, <2>7 DEF Committed
      <3>2. r \in Run
        BY <1>1, <1>2 DEF Run, PCs
      <3>3. /\ r.pc = "state" /\ r.command = run[p].command /\ r.until = run[p].until
            /\ r.line = run[p].line /\ r.day = run[p].day
        BY <1>1 DEF Run
      <3> HIDE DEF r
      <3>4. CommandOK(r) /\ Blocking(ledger', r) /\ Reading(ledger', r)
        BY <2>1, <1>4, <3>3 DEF CommandOK, Blocking, Reading
      <3>5. \A t \in Symbols : t < s + 1
        BY <1>2, <2>7 DEF Symbols
      <3>6. run[p].command = "sync" => Reached(ledger', next)
        BY <2>5, <3>5 DEF Reached
      <3>7. Progress(ledger', r)
        BY <3>3, <3>6 DEF Progress, next
      <3>8. RunOK(ledger', r)
        BY <3>4, <3>7 DEF RunOK
      <3>9. QED
        BY <3>1, <3>2, <3>3, <3>8
    <2>8. QED
      BY <2>6, <2>7
  <1>5. QED
    BY <1>3, <1>4

LEMMA CommitInv == ASSUME IInv, NEW p \in Processes, Commit(p) PROVE IInv'
  <1> DEFINE s == run[p].symbol
             other(q) == [run[q] EXCEPT !.disturbed = @ \/ Between(q, s)]
  <1>1. run \in [Processes -> Run] /\ ledger \in [Symbols -> Entry] /\ run[p].pc = "insert"
    BY DEF IInv, TypeOK, Commit
  <1>2. run' = [q \in Processes |-> IF q = p THEN Committed(run[p]) ELSE other(q)]
    BY DEF Commit
  <1>3. /\ Committed(run[p]) \in Run /\ Committed(run[p]).pc # "insert"
        /\ RunOK(ledger', Committed(run[p]))
    BY CommittedOK
  <1>4. ASSUME NEW q \in Processes
        PROVE  /\ other(q) \in Run
               /\ other(q).pc = run[q].pc
               /\ RunOK(ledger', other(q))
    <2>1. run[q] \in Run /\ RunOK(ledger, run[q])
      BY <1>1 DEF IInv
    <2> DEFINE b == run[q].disturbed \/ Between(q, s)
               r == [run[q] EXCEPT !.disturbed = b]
    <2>2. other(q) = r
      OBVIOUS
    <2>3. b \in BOOLEAN
      BY <2>1 DEF Run
    <2>4. b <=> run[q].disturbed \/ (run[q].pc \in {"bars", "intents"} /\ run[q].symbol = s)
      BY DEF Between
    <2> HIDE DEF b
    <2>5. r \in Run
      BY <2>1, <2>3 DEF Run
    <2>6. /\ r.pc = run[q].pc /\ r.command = run[q].command /\ r.day = run[q].day
          /\ r.until = run[q].until /\ r.symbol = run[q].symbol /\ r.line = run[q].line
          /\ r.next = run[q].next /\ r.seen = run[q].seen /\ r.reason = run[q].reason
          /\ r.disturbed = b
      BY <2>1 DEF Run
    <2> HIDE DEF r
    <2>7. Past(r) = Past(run[q])
      BY <2>6 DEF Past
    <2>8. CommandOK(r) /\ Progress(ledger, r) /\ Blocking(ledger, r)
      BY <2>1, <2>6, <2>7 DEF RunOK, CommandOK, Progress, Blocking
    <2>9. Reading(ledger, r)
      BY <2>1, <2>4, <2>6 DEF RunOK, Reading
    <2>10. RunOK(ledger, r)
      BY <2>8, <2>9 DEF RunOK
    <2>11. r.symbol \in Symbols
      BY <2>5 DEF Run
    <2>12. r.pc \in {"bars", "intents"} /\ ~r.disturbed =>
               StateRow(ledger'[r.symbol]) = StateRow(ledger[r.symbol])
      <3>1. HAVE r.pc \in {"bars", "intents"} /\ ~r.disturbed
      <3>2. r.symbol # s
        BY <2>4, <2>6, <3>1
      <3>3. ledger'[r.symbol] = ledger[r.symbol]
        BY <2>11, <3>2, CommitGrows
      <3>4. QED
        BY <3>3
    <2>13. /\ ledger' \in [Symbols -> Entry]
           /\ \A t \in Symbols : ledger[t].last <= ledger'[t].last
           /\ \A t \in Symbols : ledger[t].blocked # None => ledger'[t].blocked # None
      BY CommitGrows
    <2>14. RunOK(ledger', r)
      BY <1>1, <2>5, <2>10, <2>12, <2>13, GrownLedger
    <2>15. QED
      BY <2>2, <2>5, <2>6, <2>14
  <1> HIDE DEF other, s
  <1>5. /\ run' \in [Processes -> Run] /\ run'[p] = Committed(run[p])
        /\ \A q \in Processes \ {p} : run'[q] = other(q)
    BY <1>2, <1>3, <1>4
  <1>6. \A q \in Processes : RunOK(ledger', run'[q])
    BY <1>3, <1>4, <1>5
  <1>7. \A q \in Processes \ {p} : run'[q].pc = run[q].pc
    BY <1>4, <1>5
  <1>8. \A q \in Processes \ {p} : run[q].pc # "insert"
    BY <1>1 DEF IInv, Owner
  <1>9. tx' = None /\ UNCHANGED <<published, today, failures, violated>>
    BY DEF Commit
  <1>10. failures' \in 0..MaxFailures /\ violated' \subseteq Symbols
    BY <1>9 DEF IInv, TypeOK
  <1>11. ledger' \in [Symbols -> Entry] /\ \A t \in Symbols : Sound(ledger'[t])
    BY CommitGrows
  <1>12. QED
    BY <1>3, <1>5, <1>6, <1>7, <1>8, <1>9, <1>10, <1>11, Released

\* A step of the world outside, or none at all.
LEMMA OutsideInv ==
    ASSUME IInv, UNCHANGED <<ledger, tx, run, violated>>,
           today' \in 0..LastDay, published' \subseteq Symbols \X Nat, failures' \in 0..MaxFailures
    PROVE  IInv'
  <1>1. TypeOK'
    BY DEF IInv, TypeOK
  <1>2. QED
    BY <1>1 DEF IInv

LEMMA NextDayInv == ASSUME IInv, NextDay PROVE IInv'
  <1>1. today' \in 0..LastDay
    BY LedgerBounds DEF IInv, TypeOK, NextDay
  <1>2. QED
    BY <1>1, OutsideInv DEF IInv, TypeOK, NextDay

LEMMA PublishInv == ASSUME IInv, Publish PROVE IInv'
  <1>1. published' \subseteq Symbols \X Nat
    BY LedgerBounds DEF IInv, TypeOK, Publish
  <1>2. QED
    BY <1>1, OutsideInv DEF IInv, TypeOK, Publish

LEMMA StepInv == IInv /\ [Next]_vars => IInv'
  <1> SUFFICES ASSUME IInv, [Next]_vars PROVE IInv'
    OBVIOUS
  <1>1. ASSUME NEW p \in Processes, Start(p) PROVE IInv'
    BY <1>1, StartSyncInv, StartArchivesInv, StartLineInv, StartVerifyInv DEF Start
  <1>2. ASSUME NEW p \in Processes, Continue(p) PROVE IInv'
    <2>1. CASE Stage(p) \/ Begin(p) \/ Insert(p) \/ SkipDuplicate(p)
      BY <2>1, StageInv, BeginInv, InsertInv, SkipDuplicateInv
    <2>2. CASE Violate(p) \/ Block(p) \/ Commit(p)
      BY <2>2, ViolateInv, BlockInv, CommitInv
    <2>3. CASE ReadState(p) \/ ReadBars(p) \/ ReadIntents(p) \/ Raise(p)
      BY <2>3, ReadStateInv, ReadBarsInv, ReadIntentsInv, RaiseInv
    <2>4. QED
      BY <1>2, <2>1, <2>2, <2>3 DEF Continue
  <1>3. ASSUME NEW p \in Processes, Fail(p) PROVE IInv'
    BY <1>3, FailInv
  <1>4. CASE NextDay \/ Publish
    BY <1>4, NextDayInv, PublishInv
  <1>5. CASE UNCHANGED vars
    BY <1>5, OutsideInv DEF vars, IInv, TypeOK
  <1>6. QED
    BY <1>1, <1>2, <1>3, <1>4, <1>5 DEF Next

----------------------------------------------------------------------------
(* Theorems.                                                               *)

\* Every committed entry and the one a transaction works on are sound, and every
\* command is where the ledger allows it to be.
THEOREM Invariance == Spec => []IInv
  <1>1. QED
    BY InitInv, StepInv, PTL DEF Spec

\* The variables keep their types: an entry is a row of symbol_state with its bars
\* and its intents, and at most one process holds the write transaction.
THEOREM TypeCorrect == Spec => []TypeOK
  <1>1. IInv => TypeOK
    BY DEF IInv
  <1>2. QED
    BY <1>1, Invariance, PTL

\* What ingest_bar and ingest_atomic commit always passes verify_integrity.
THEOREM Verifies == Spec => []LedgerVerifies
  <1>1. IInv => LedgerVerifies
    <2>1. HAVE IInv
    <2>2. \A s \in Symbols : ledger[s] \in Entry /\ Sound(ledger[s])
      BY <2>1 DEF IInv, TypeOK
    <2>3. QED
      BY <2>2, SoundBarsVerify, SoundIntentsVerify DEF LedgerVerifies
  <1>2. QED
    BY <1>1, Invariance, PTL

\* The stored intents are those that the frozen strategy makes of the stored chain.
THEOREM Replays == Spec => []IntentsAreReplay
  <1>1. IInv => IntentsAreReplay
    BY DEF IInv, Sound, Replayed, Decides, WindowAt, IntentsAreReplay
  <1>2. QED
    BY <1>1, Invariance, PTL

\* sync_latest_daily_archives never quarantines a symbol for a gap or a wrong start.
THEOREM SyncResumes == Spec => []SyncMeetsOnlyConflicts
  <1>1. IInv => SyncMeetsOnlyConflicts
    BY DEF IInv, RunOK, Blocking, SyncMeetsOnlyConflicts
  <1>2. QED
    BY <1>1, Invariance, PTL

\* verify_integrity only fails beside a commit to the symbol it reads.
THEOREM AlarmsOverlap == Spec => []AlarmMeansOverlap
  <1>1. IInv => AlarmMeansOverlap
    BY DEF IInv, RunOK, Reading, AlarmMeansOverlap
  <1>2. QED
    BY <1>1, Invariance, PTL

\* What a transaction on a quarantined symbol would commit is what is there already.
LEMMA SameChain ==
    ASSUME IInv, NEW p \in Processes, Commit(p)
    PROVE  LET s == run[p].symbol
           IN  \/ ledger[s].blocked = None /\ Observations!Extends(ledger'[s].head, ledger[s].head)
               \/ ledger'[s].head = ledger[s].head
  <1> DEFINE s == run[p].symbol
  <1>1. /\ tx.entry \in Entry /\ TxOK(ledger, tx.entry, run[p])
        /\ ledger'[s] = tx.entry
    BY CommitGrows
  <1>2. s \in Symbols /\ ledger[s] \in Entry
    BY DEF IInv, TypeOK, Run
  <1>3. CASE ledger[s].blocked # None
    BY <1>1, <1>3 DEF TxOK
  <1>4. CASE ledger[s].blocked = None
    <2>1. Longer(ledger'[s].head, ledger[s].head)
      BY <1>1 DEF TxOK
    <2>2. ledger'[s].head \in Seq(Contents) /\ ledger[s].head \in Seq(Contents)
      BY <1>1, <1>2 DEF Entry
    <2>3. Observations!Extends(ledger'[s].head, ledger[s].head)
      BY <2>1, <2>2 DEF Longer, Observations!Extends
    <2>4. QED
      BY <1>4, <2>3
  <1>5. QED
    BY <1>3, <1>4

Log == [s \in Symbols |-> ledger[s].head]
Frozen == [s \in Symbols |-> ledger[s].blocked # None]

LEMMA LogStep ==
    ASSUME IInv, [Next]_vars
    PROVE  Observations!Next \/ (Log' = Log /\ Frozen' = Frozen)
  <1>1. CASE UNCHANGED ledger
    BY <1>1 DEF Log, Frozen
  <1>2. ASSUME NEW p \in Processes, Commit(p)
        PROVE  Observations!Next \/ (Log' = Log /\ Frozen' = Frozen)
    <2>1. PICK s \in Symbols : s = run[p].symbol
      BY DEF IInv, TypeOK, Run
    <2>2. /\ \A t \in Symbols \ {s} : ledger'[t] = ledger[t]
          /\ \A t \in Symbols : ledger'[t].blocked = ledger[t].blocked
      BY <1>2, <2>1, CommitGrows
    <2>3. Frozen' = Frozen
      BY <2>2 DEF Frozen
    <2>4. CASE ledger'[s].head = ledger[s].head
      BY <2>2, <2>3, <2>4 DEF Log
    <2>5. CASE ledger[s].blocked = None /\ Observations!Extends(ledger'[s].head, ledger[s].head)
      <3>1. ~Frozen[s] /\ Log[s] = ledger[s].head /\ Log'[s] = ledger'[s].head
        BY <2>1, <2>5 DEF Frozen, Log
      <3>2. Log' = [Log EXCEPT ![s] = Log'[s]]
        BY <2>1, <2>2 DEF Log
      <3>3. Observations!Observe(s)
        BY <2>3, <2>5, <3>1, <3>2 DEF Observations!Observe, Log, Frozen
      <3>4. QED
        BY <3>3 DEF Observations!Next
    <2>6. QED
      BY <1>2, <2>1, <2>4, <2>5, SameChain
  <1>3. ASSUME NEW p \in Processes, Block(p)
        PROVE  Observations!Next \/ (Log' = Log /\ Frozen' = Frozen)
    <2>0. PICK s \in Symbols : s = run[p].symbol
      BY DEF IInv, TypeOK, Run
    <2> DEFINE blocked == Coalesced(ledger[s].blocked, run[p].reason)
    <2>1. /\ ledger \in [Symbols -> Entry] /\ run[p].reason # None
      BY <1>3 DEF IInv, TypeOK, Run, RunOK, Blocking, Block
    <2>2. ledger' = [ledger EXCEPT ![s].blocked = blocked]
      BY <1>3, <2>0, <2>1 DEF Block
    <2>3. blocked # None
      BY <2>1 DEF Coalesced
    <2> HIDE DEF blocked
    <2>4. /\ \A t \in Symbols : ledger'[t].head = ledger[t].head
          /\ \A t \in Symbols \ {s} : ledger'[t] = ledger[t]
          /\ ledger'[s].blocked = blocked
      BY <2>1, <2>2 DEF Entry
    <2>5. Log' = Log
      BY <2>4 DEF Log
    <2>6. Frozen' = [Frozen EXCEPT ![s] = TRUE]
      BY <2>1, <2>3, <2>4 DEF Frozen
    <2>7. Observations!Quarantine(s)
      BY <2>5, <2>6 DEF Observations!Quarantine, Log, Frozen
    <2>8. QED
      BY <2>7 DEF Observations!Next
  <1>4. ASSUME NEW p \in Processes, Start(p) PROVE UNCHANGED ledger
    BY <1>4 DEF Start, StartSync, StartArchives, StartLine, StartVerify, Quiet
  <1>5. ASSUME NEW p \in Processes, Fail(p) PROVE UNCHANGED ledger
    BY <1>5 DEF Fail
  <1>6. ASSUME NEW p \in Processes, Continue(p), ~Commit(p), ~Block(p) PROVE UNCHANGED ledger
    BY <1>6 DEF Continue, Stage, Begin, Insert, SkipDuplicate, Violate, ReadState, ReadBars,
                ReadIntents, Raise, Quiet
  <1>7. NextDay \/ Publish \/ UNCHANGED vars => UNCHANGED ledger
    BY DEF NextDay, Publish, vars
  <1>8. QED
    BY <1>1, <1>2, <1>3, <1>4, <1>5, <1>6, <1>7 DEF Next

\* The ledger is the append-only log per symbol that the plan's protocol promises:
\* no step takes a bar back, changes one, or grows a quarantined chain.
THEOREM Implements == Spec => ImplementsObservationLog
  <1>1. Init => Observations!Init
    <2>1. HAVE Init
    <2>2. NoEntry.head = <<>> /\ NoEntry.blocked = None
      BY DEF NoEntry
    <2>3. \A s \in Symbols : ledger[s].head = <<>> /\ ledger[s].blocked = None
      BY <2>1, <2>2 DEF Init
    <2>4. [s \in Symbols |-> ledger[s].head] = [s \in Symbols |-> <<>>]
      BY <2>3
    <2>5. [s \in Symbols |-> ledger[s].blocked # None] = [s \in Symbols |-> FALSE]
      BY <2>3
    <2>6. QED
      BY <2>4, <2>5 DEF Observations!Init
  <1>2. IInv /\ [Next]_vars => Observations!Next \/ (Log' = Log /\ Frozen' = Frozen)
    BY LogStep
  <1>3. IInv /\ [Next]_vars =>
            [Observations!Next]_<<[s \in Symbols |-> ledger[s].head],
                                  [s \in Symbols |-> ledger[s].blocked # None]>>
    BY <1>2 DEF Log, Frozen
  <1>4. QED
    BY <1>1, <1>3, Invariance, PTL DEF Spec, ImplementsObservationLog, Observations!Spec
============================================================================
