------------------------ MODULE TrialRegistry_proofs ------------------------
(* Proofs about TrialRegistry for any number of processes, any length of   *)
(* the registry, any number of crashes and any number of rollbacks.        *)
EXTENDS TrialRegistry, SequenceTheorems, TLAPS

----------------------------------------------------------------------------
(* The inductive invariant.                                                *)

AllVerify(f) == \A i \in DOMAIN f : LineVerifies(f, i)
AllTrials(entries) == \A i \in DOMAIN entries : entries[i].kind \in TrialKinds

\* An operation knows that it asked for something the log it read allows, that
\* nobody else seals or tears a line before it is done, and that the file has
\* grown by its own line at most.
Operation(m) ==
    /\ m.pc \in {"locked", "sized", "writing", "written"} => anchor = NoAnchor
    /\ m.pc = "anchoring" => anchor.state = "torn"
    /\ m.pc \in {"locked", "sized", "written", "anchoring", "done"} => ~ torn
    /\ m.pc \in {"locked", "sized", "writing"} => AllVerify(file) /\ Len(file) <= Len(m.snap)
    /\ m.pc \in {"written", "anchoring"} => IsTerminal(m.want) /\ Len(file) <= Len(m.snap) + 1
    /\ m.pc \in {"locked", "sized", "writing", "written", "anchoring"}
          => AllTrials(m.snap) /\ m.want \in Requests(m.snap)

Operations == \A p \in Processes : Operation(mem[p])

\* Only the process that holds the lock has an operation in progress.
Locked == \A p \in Processes : mem[p].pc # "idle" => lock = p

\* Nothing is written to a registry once it has a seal.
SealStays ==
    /\ torn => anchor = NoAnchor
    /\ anchor.state = "sealed" => Len(file) <= Len(anchor.head)

\* The intact trials are a beginning of the file.
IntactFirst == \E n \in 0..Len(file) : IntactTrials(file) = 1..n

RegistryInv == TypeOK /\ Locked /\ Operations /\ SealStays /\ IntactFirst

----------------------------------------------------------------------------
(* Lines, and what of the file they look at.                               *)

LEMMA EntriesOf ==
    ASSUME NEW f \in Seq(Record)
    PROVE  /\ Entries(f) \in Seq(Entry) /\ Len(Entries(f)) = Len(f)
           /\ DOMAIN Entries(f) = 1..Len(f)
           /\ \A i \in 1..Len(f) : Entries(f)[i] = f[i].entry /\ f[i].entry \in Entry
<1>1. DOMAIN f = 1..Len(f) /\ Len(f) \in Nat /\ \A i \in 1..Len(f) : f[i] \in Record
  OBVIOUS
<1>2. \A i \in 1..Len(f) : f[i].entry \in Entry
  BY <1>1 DEF Record
<1>3. Entries(f) \in [1..Len(f) -> Entry]
  BY <1>1, <1>2 DEF Entries
<1>4. Entries(f) \in Seq(Entry)
  BY <1>1, <1>3, SeqDef
<1>5. Len(Entries(f)) = Len(f)
  BY <1>1, <1>3, <1>4
<1>. QED BY <1>1, <1>2, <1>3, <1>4, <1>5 DEF Entries

LEMMA SameEntries ==
    ASSUME NEW f \in Seq(Record), NEW s \in Seq(Entry), Len(f) = Len(s),
           \A i \in 1..Len(s) : f[i].entry = s[i]
    PROVE  Entries(f) = s
<1>1. /\ Entries(f) \in Seq(Entry) /\ Len(Entries(f)) = Len(s)
      /\ \A i \in 1..Len(Entries(f)) : Entries(f)[i] = s[i]
  BY EntriesOf
<1>. QED BY <1>1, SeqEqual

\* Two files that begin alike are cut to the same beginning.
LEMMA SameBeginning ==
    ASSUME NEW f \in Seq(Record), NEW g \in Seq(Record), NEW n \in Nat, n <= Len(f), n <= Len(g),
           \A i \in 1..n : f[i] = g[i]
    PROVE  SubSeq(f, 1, n) = SubSeq(g, 1, n)
<1>. DEFINE x == SubSeq(f, 1, n)
            y == SubSeq(g, 1, n)
<1>1. /\ \A i \in 1..n : f[i] \in Record
      /\ \A i \in 1..n : g[i] \in Record
  OBVIOUS
<1>2. x \in Seq(Record) /\ Len(x) = n /\ \A i \in 1..n : x[i] = f[i]
  BY <1>1, SubSeqProperties
<1>3. y \in Seq(Record) /\ Len(y) = n /\ \A i \in 1..n : y[i] = g[i]
  BY <1>1, SubSeqProperties
<1>. HIDE DEF x, y
<1>4. x = y
  BY <1>2, <1>3, SeqEqual
<1>. QED BY <1>4 DEF x, y

\* Whether a line verifies is a matter of the lines up to it.
LEMMA SameLines ==
    ASSUME NEW f \in Seq(Record), NEW g \in Seq(Record), NEW n \in Nat, n <= Len(f), n <= Len(g),
           \A i \in 1..n : f[i] = g[i]
    PROVE  \A j \in 1..n : LineVerifies(f, j) <=> LineVerifies(g, j)
<1>. SUFFICES ASSUME NEW j \in 1..n PROVE LineVerifies(f, j) <=> LineVerifies(g, j)
  OBVIOUS
<1>1. SubSeq(f, 1, j - 1) = SubSeq(g, 1, j - 1)
  <2>1. /\ j - 1 \in Nat /\ j - 1 <= Len(f) /\ j - 1 <= Len(g)
        /\ \A i \in 1..(j - 1) : f[i] = g[i]
    OBVIOUS
  <2>. QED BY <2>1, SameBeginning
<1>2. f[j] = g[j] /\ (j > 1 => f[j - 1] = g[j - 1])
  OBVIOUS
<1>3. \A k \in 1..(j - 1) : f[k] = g[k]
  OBVIOUS
<1>. QED BY <1>1, <1>2, <1>3 DEF LineVerifies

\* A log that verifies and is not frozen holds trials only.
LEMMA OpenMeansTrials ==
    ASSUME NEW f \in Seq(Record), AllVerify(f), ~ Frozen(Entries(f))
    PROVE  \A i \in 1..Len(f) : f[i].entry.kind \in TrialKinds
<1>. SUFFICES ASSUME NEW i \in 1..Len(f) PROVE f[i].entry.kind \in TrialKinds
  OBVIOUS
<1>1. LineVerifies(f, i) /\ Len(f) \in Nat
  BY DEF AllVerify
<1>2. ~ IsTerminal(f[i].entry)
  <2>1. CASE i = Len(f)
    <3>1. /\ Entries(f) # <<>> /\ Last(Entries(f)) = f[i].entry
      BY <2>1, EntriesOf DEF Last
    <3>. QED BY <3>1 DEF Frozen
  <2>2. CASE i # Len(f)
    <3>1. i + 1 \in DOMAIN f /\ i + 1 > 1 /\ (i + 1) - 1 = i
      BY <1>1, <2>2
    <3>. QED BY <3>1 DEF AllVerify, LineVerifies
  <2>. QED BY <2>1, <2>2
<1>. QED BY <1>1, <1>2 DEF LineVerifies, IsTerminal, TerminalKinds

----------------------------------------------------------------------------
(* The intact trials of a file that grows or is cut.                       *)

LEMMA IntactStart ==
    ASSUME NEW f \in Seq(Record), NEW g \in Seq(Record), NEW n \in Nat, n <= Len(f), n <= Len(g),
           \A i \in 1..n : f[i] = g[i]
    PROVE  IntactTrials(f) \cap 1..n = IntactTrials(g) \cap 1..n
<1>1. \A j \in 1..n : LineVerifies(f, j) <=> LineVerifies(g, j)
  BY SameLines
<1>2. /\ DOMAIN f = 1..Len(f) /\ DOMAIN g = 1..Len(g) /\ Len(f) \in Nat /\ Len(g) \in Nat
      /\ \A i \in 1..n : \A j \in 1..i : j \in 1..n
  OBVIOUS
<1>3. ASSUME NEW i \in 1..n
      PROVE  i \in IntactTrials(f) <=> i \in IntactTrials(g)
  BY <1>1, <1>2 DEF IntactTrials
<1>. QED BY <1>3

\* All lines of an open log are intact trials.
LEMMA OpenIsIntact ==
    ASSUME NEW f \in Seq(Record), AllVerify(f), ~ Frozen(Entries(f))
    PROVE  IntactTrials(f) = 1..Len(f)
<1>1. \A i \in 1..Len(f) : LineVerifies(f, i) /\ f[i].entry.kind \in TrialKinds
  BY OpenMeansTrials DEF AllVerify
<1>. QED BY <1>1 DEF IntactTrials

\* What a file's intact trials are, as a sequence.
LEMMA AttemptsOf ==
    ASSUME NEW f \in Seq(Record), NEW n \in 0..Len(f), IntactTrials(f) = 1..n
    PROVE  /\ Attempts(f) \in Seq(TrialKinds) /\ Len(Attempts(f)) = n /\ DOMAIN Attempts(f) = 1..n
           /\ \A i \in 1..n : Attempts(f)[i] = f[i].entry.kind
<1>1. \A i \in 1..n : f[i].entry.kind \in TrialKinds
  BY DEF IntactTrials
<1>2. Attempts(f) \in [1..n -> TrialKinds] /\ \A i \in 1..n : Attempts(f)[i] = f[i].entry.kind
  BY <1>1 DEF Attempts
<1>3. Attempts(f) \in Seq(TrialKinds)
  BY <1>2, SeqDef
<1>. QED BY <1>2, <1>3

\* A line is added: the intact trials stay, or it is the next of them.
LEMMA Grown ==
    ASSUME NEW f \in Seq(Record), NEW x \in Record
    PROVE  LET g == Append(f, x)
               n == Len(f)
           IN  /\ g \in Seq(Record) /\ Len(g) = n + 1 /\ g[n + 1] = x /\ n \in Nat
               /\ \A i \in 1..n : g[i] = f[i]
               /\ \A i \in 1..n : LineVerifies(g, i) <=> LineVerifies(f, i)
               /\ SubSeq(g, 1, n) = f
               /\ \/ IntactTrials(g) = IntactTrials(f)
                  \/ IntactTrials(f) = 1..n /\ IntactTrials(g) = 1..(n + 1)
               /\ ~ (LineVerifies(g, n + 1) /\ x.entry.kind \in TrialKinds)
                     => IntactTrials(g) = IntactTrials(f)
<1>. DEFINE g == Append(f, x)
            n == Len(f)
<1>1. g \in Seq(Record) /\ Len(g) = n + 1 /\ g[n + 1] = x /\ n \in Nat /\ \A i \in 1..n : g[i] = f[i]
  OBVIOUS
<1>2. n <= Len(f) /\ Len(f) = n /\ f \in Seq(Record) /\ DOMAIN f = 1..n
  OBVIOUS
<1>. HIDE DEF g, n
<1>3. /\ \A i \in 1..n : LineVerifies(g, i) <=> LineVerifies(f, i)
      /\ SubSeq(g, 1, n) = SubSeq(f, 1, n)
      /\ IntactTrials(g) \cap 1..n = IntactTrials(f) \cap 1..n
  BY <1>1, <1>2, SameLines, SameBeginning, IntactStart
<1>4. SubSeq(f, 1, n) = f
  BY <1>2, SubSeqFull
<1>5. IntactTrials(f) \subseteq 1..n /\ IntactTrials(g) \subseteq 1..(n + 1)
  BY <1>1, <1>2 DEF IntactTrials
<1>6. n + 1 \in IntactTrials(g) => /\ 1..n \subseteq IntactTrials(g)
                                   /\ LineVerifies(g, n + 1) /\ x.entry.kind \in TrialKinds
  BY <1>1 DEF IntactTrials
<1>7. CASE n + 1 \in IntactTrials(g)
  <2>1. 1..n \subseteq IntactTrials(f) /\ IntactTrials(f) = 1..n
    BY <1>3, <1>5, <1>6, <1>7
  <2>2. IntactTrials(g) = 1..(n + 1)
    <3>1. 1..(n + 1) \subseteq IntactTrials(g)
      <4>1. \A i \in 1..(n + 1) : i \in 1..n \/ i = n + 1
        BY <1>1
      <4>. QED BY <1>6, <1>7, <4>1
    <3>. QED BY <1>5, <3>1
  <2>. QED BY <1>1, <1>3, <1>4, <1>6, <1>7, <2>1, <2>2 DEF g, n
<1>8. CASE n + 1 \notin IntactTrials(g)
  <2>1. IntactTrials(g) \subseteq 1..n
    BY <1>1, <1>5, <1>8
  <2>2. IntactTrials(g) = IntactTrials(f)
    BY <1>3, <1>5, <2>1
  <2>. QED BY <1>1, <1>3, <1>4, <2>2 DEF g, n
<1>. QED BY <1>7, <1>8

\* The file is cut: the intact trials are cut with it.
LEMMA Shortened ==
    ASSUME NEW f \in Seq(Record), NEW k \in 0..Len(f)
    PROVE  LET g == SubSeq(f, 1, k)
           IN  /\ g \in Seq(Record) /\ Len(g) = k
               /\ \A i \in 1..k : g[i] = f[i]
               /\ IntactTrials(g) = IntactTrials(f) \cap 1..k
               /\ AllVerify(f) => AllVerify(g)
<1>. DEFINE g == SubSeq(f, 1, k)
<1>1. /\ k \in Nat /\ k <= Len(f) /\ Len(f) \in Nat /\ DOMAIN f = 1..Len(f)
      /\ \A i \in 1..k : f[i] \in Record
  OBVIOUS
<1>2. g \in Seq(Record) /\ Len(g) = k /\ \A i \in 1..k : g[i] = f[i]
  BY <1>1, SubSeqProperties
<1>. HIDE DEF g
<1>3. DOMAIN g = 1..k
  BY <1>2
<1>4. /\ \A i \in 1..k : LineVerifies(g, i) <=> LineVerifies(f, i)
      /\ IntactTrials(g) \cap 1..k = IntactTrials(f) \cap 1..k
  BY <1>1, <1>2, SameLines, IntactStart
<1>5. IntactTrials(g) \subseteq 1..k
  BY <1>3 DEF IntactTrials
<1>6. AllVerify(f) => AllVerify(g)
  BY <1>1, <1>3, <1>4 DEF AllVerify
<1>. QED BY <1>2, <1>4, <1>5, <1>6 DEF g

\* An intact beginning stays one, whatever is added or cut.
LEMMA StillFirst ==
    ASSUME NEW f \in Seq(Record), NEW g \in Seq(Record), NEW n \in 0..Len(f), IntactTrials(f) = 1..n,
           \/ \E x \in Record : g = Append(f, x)
           \/ \E k \in 0..Len(f) : g = SubSeq(f, 1, k)
    PROVE  \E m \in 0..Len(g) : IntactTrials(g) = 1..m
<1>1. ASSUME NEW x \in Record, g = Append(f, x)
      PROVE  \E m \in 0..Len(g) : IntactTrials(g) = 1..m
  <2>1. /\ Len(g) = Len(f) + 1 /\ Len(f) \in Nat
        /\ \/ IntactTrials(g) = 1..n
           \/ IntactTrials(g) = 1..(Len(f) + 1)
    BY <1>1, Grown
  <2>. QED BY <2>1
<1>2. ASSUME NEW k \in 0..Len(f), g = SubSeq(f, 1, k)
      PROVE  \E m \in 0..Len(g) : IntactTrials(g) = 1..m
  <2>1. Len(g) = k /\ IntactTrials(g) = 1..n \cap 1..k
    BY <1>2, Shortened
  <2>2. CASE n <= k
    <3>1. IntactTrials(g) = 1..n /\ n \in 0..Len(g)
      BY <2>1, <2>2
    <3>. QED BY <3>1
  <2>3. CASE ~ (n <= k)
    <3>1. IntactTrials(g) = 1..k /\ k \in 0..Len(g)
      BY <2>1, <2>3
    <3>. QED BY <3>1
  <2>. QED BY <2>2, <2>3
<1>. QED BY <1>1, <1>2

----------------------------------------------------------------------------
(* The invariant is inductive.                                             *)

Memory == [pc : PCs, want : Entry, snap : Seq(Entry)]

LEMMA RequestsType ==
    ASSUME NEW s \in Seq(Entry)
    PROVE  Requests(s) \subseteq Entry
<1>1. Len(s) + 1 \in Nat /\ Len(s) \in Nat /\ DOMAIN s \subseteq Nat
  OBVIOUS
<1>. QED BY <1>1 DEF Requests, Entry, TrialKinds, TerminalKinds

LEMMA IdleType == Idle \in Memory /\ Idle.pc = "idle"
  BY DEF Idle, Memory, PCs, Entry, TrialKinds, TerminalKinds

LEMMA NoAnchorType == NoAnchor \in Anchor
  BY DEF NoAnchor, Anchor

LEMMA InitRegistry == Init => RegistryInv
<1>. SUFFICES ASSUME Init PROVE RegistryInv
  OBVIOUS
<1>1. TypeOK
  <2>1. anchor \in Anchor
    BY NoAnchorType DEF Init
  <2>2. mem \in [Processes -> Memory]
    BY IdleType DEF Init
  <2>3. /\ file \in Seq(Record) /\ lock \in Processes \cup {Nobody}
        /\ crashes \in Nat /\ rollbacks \in Nat
    BY DEF Init
  <2>4. torn \in BOOLEAN
    BY Zenon DEF Init
  <2>. QED BY <2>1, <2>2, <2>3, <2>4, Zenon DEF TypeOK, Memory
<1>2. Locked /\ SealStays
  BY IdleType DEF Init, Locked, SealStays, NoAnchor
<1>4. Operations
  <2>1. \A p \in Processes : mem[p].pc = "idle"
    BY IdleType DEF Init
  <2>. QED BY <2>1 DEF Operations, Operation
<1>3. IntactTrials(file) = 1..0 /\ 0 \in 0..Len(file)
  BY DEF Init, IntactTrials
<1>. QED BY <1>1, <1>2, <1>3, <1>4 DEF RegistryInv, IntactFirst

Step(p) ==
    \/ Begin(p) \/ CheckSize(p) \/ SizeChanged(p) \/ WriteSome(p) \/ WriteRest(p)
    \/ CreateAnchor(p) \/ WriteAnchor(p) \/ Return(p) \/ Crash(p)

\* Nobody else has an operation in progress.
LEMMA OthersIdle ==
    ASSUME RegistryInv, NEW p \in Processes, Step(p), NEW q \in Processes \ {p}
    PROVE  mem'[q] = mem[q] /\ mem[q].pc = "idle"
<1>1. mem \in [Processes -> Memory] /\ p # Nobody /\ q # Nobody
      /\ (mem[p].pc # "idle" => lock = p) /\ (mem[q].pc # "idle" => lock = q)
  BY RegistryBounds DEF RegistryInv, TypeOK, Memory, Locked
<1>2. lock = Nobody \/ mem[p].pc # "idle"
  BY DEF Step, Begin, CheckSize, SizeChanged, WriteSome, WriteRest, CreateAnchor, WriteAnchor, Return, Crash
<1>3. mem'[q] = mem[q]
  BY <1>1 DEF Step, Begin, CheckSize, SizeChanged, WriteSome, WriteRest, CreateAnchor, WriteAnchor,
              Return, Crash, Release
<1>. QED BY <1>1, <1>2, <1>3

\* So the invariant is kept when the types, the mover and the file are right.
LEMMA OneMover ==
    ASSUME RegistryInv, NEW p \in Processes, Step(p), TypeOK', Operation(mem[p])', SealStays',
           IntactFirst', mem'[p].pc # "idle" => lock' = p
    PROVE  RegistryInv'
<1>1. \A q \in Processes \ {p} : mem'[q] = mem[q] /\ mem[q].pc = "idle"
  BY OthersIdle
<1>2. Operations'
  BY <1>1 DEF Operations, Operation
<1>3. Locked'
  BY <1>1 DEF Locked
<1>. QED BY <1>2, <1>3 DEF RegistryInv

\* A change of the program counter alone.
LEMMA CounterType ==
    ASSUME mem \in [Processes -> Memory], NEW p \in Processes, NEW c \in PCs,
           mem' = [mem EXCEPT ![p].pc = c]
    PROVE  /\ mem' \in [Processes -> Memory]
           /\ mem'[p].pc = c /\ mem'[p].want = mem[p].want /\ mem'[p].snap = mem[p].snap
<1>1. mem[p] \in Memory
  OBVIOUS
<1>2. [mem[p] EXCEPT !.pc = c] \in Memory
  BY <1>1 DEF Memory
<1>3. mem'[p] = [mem[p] EXCEPT !.pc = c]
  BY <1>1
<1>. QED BY <1>1, <1>2, <1>3 DEF Memory

LEMMA ReleaseType ==
    ASSUME mem \in [Processes -> Memory], NEW p \in Processes, Release(p)
    PROVE  mem' \in [Processes -> Memory] /\ mem'[p] = Idle /\ lock' = Nobody
  BY IdleType DEF Release

\* The operation that begins has verified an open log and asks for what it allows.
LEMMA BeginKeeps ==
    ASSUME RegistryInv, NEW p \in Processes, Begin(p)
    PROVE  RegistryInv'
<1>1. /\ file \in Seq(Record) /\ mem \in [Processes -> Memory] /\ ~ torn /\ anchor = NoAnchor
      /\ AllVerify(file) /\ ~ Frozen(Entries(file))
  BY DEF RegistryInv, TypeOK, Memory, Begin, Verifies, AnchorVerifies, AllVerify
<1>. DEFINE s == Entries(file)
<1>2. s \in Seq(Entry) /\ Len(s) = Len(file) /\ AllTrials(s)
  BY <1>1, EntriesOf, OpenMeansTrials DEF AllTrials
<1>. HIDE DEF s
<1>3. PICK e \in Requests(s) : mem' = [mem EXCEPT ![p] = [pc |-> "locked", want |-> e, snap |-> s]]
  BY DEF Begin, s
<1>. DEFINE m == [pc |-> "locked", want |-> e, snap |-> s]
<1>4. m \in Memory /\ m.pc = "locked" /\ m.want = e /\ m.snap = s
  BY <1>2, RequestsType DEF Memory, PCs
<1>. HIDE DEF m
<1>5. mem' \in [Processes -> Memory] /\ mem'[p] = m
  BY <1>1, <1>3, <1>4 DEF m
<1>6. /\ file' = file /\ torn' = torn /\ anchor' = anchor /\ lock' = p
      /\ crashes' = crashes /\ rollbacks' = rollbacks
  BY DEF Begin
<1>7. TypeOK'
  BY <1>5, <1>6 DEF RegistryInv, TypeOK, Memory
<1>8. Operation(mem[p])'
  BY <1>1, <1>2, <1>4, <1>5, <1>6 DEF Operation
<1>9. SealStays' /\ IntactFirst'
  BY <1>6 DEF RegistryInv, SealStays, IntactFirst
<1>. QED BY <1>6, <1>7, <1>8, <1>9, OneMover DEF Step

\* The steps that write nothing.
LEMMA QuietKeeps ==
    ASSUME RegistryInv, NEW p \in Processes, CheckSize(p) \/ SizeChanged(p) \/ Return(p) \/ Crash(p)
    PROVE  RegistryInv'
<1>1. mem \in [Processes -> Memory] /\ Operation(mem[p]) /\ lock \in Processes \cup {Nobody}
      /\ (mem[p].pc # "idle" => lock = p) /\ crashes \in Nat
  BY DEF RegistryInv, TypeOK, Memory, Locked, Operations
<1>2. /\ file' = file /\ torn' = torn /\ anchor' = anchor /\ rollbacks' = rollbacks
      /\ crashes' \in Nat
  BY <1>1 DEF CheckSize, SizeChanged, Return, Crash
<1>3. SealStays' /\ IntactFirst'
  BY <1>2 DEF RegistryInv, SealStays, IntactFirst
<1>4. CASE CheckSize(p)
  <2>1. mem[p].pc = "locked" /\ mem' = [mem EXCEPT ![p].pc = "sized"] /\ lock' = lock /\ "sized" \in PCs
    BY <1>4 DEF CheckSize, PCs
  <2>2. /\ mem' \in [Processes -> Memory] /\ mem'[p].pc = "sized"
        /\ mem'[p].want = mem[p].want /\ mem'[p].snap = mem[p].snap
    BY <1>1, <2>1, CounterType
  <2>3. TypeOK'
    BY <1>2, <2>1, <2>2 DEF RegistryInv, TypeOK, Memory
  <2>4. Operation(mem[p])'
    BY <1>1, <1>2, <2>1, <2>2 DEF Operation
  <2>. QED BY <1>1, <1>3, <1>4, <2>1, <2>3, <2>4, OneMover DEF Step
<1>5. CASE SizeChanged(p) \/ Return(p) \/ Crash(p)
  <2>1. mem' \in [Processes -> Memory] /\ mem'[p] = Idle /\ lock' = Nobody
    BY <1>1, <1>5, ReleaseType DEF SizeChanged, Return, Crash
  <2>2. mem'[p].pc = "idle"
    BY <2>1, IdleType
  <2>3. TypeOK'
    BY <1>2, <2>1 DEF RegistryInv, TypeOK, Memory
  <2>4. Operation(mem[p])'
    BY <2>2 DEF Operation
  <2>. QED BY <1>3, <1>5, <2>2, <2>3, <2>4, OneMover DEF Step
<1>. QED BY <1>4, <1>5

LEMMA FragmentType == [entry |-> [kind |-> "FRAGMENT", ref |-> 0], before |-> <<>>] \in Record
<1>1. [kind |-> "FRAGMENT", ref |-> 0] \in Entry
  BY DEF Entry
<1>2. <<>> \in Seq(Entry)
  OBVIOUS
<1>. QED BY <1>1, <1>2 DEF Record

\* The line that a write ends with: the one asked for, if it still follows the
\* part of it that was written.
LEMMA LineType ==
    ASSUME RegistryInv, NEW p \in Processes, WriteRest(p)
    PROVE  \E line \in Record :
              /\ file' = Append(file, line)
              /\ IF torn THEN line.entry = mem[p].want /\ line.before = mem[p].snap
                 ELSE line.entry.kind = "FRAGMENT"
<1>1. mem[p] \in Memory
  BY DEF RegistryInv, TypeOK, Memory
<1>. DEFINE asked == [entry |-> mem[p].want, before |-> mem[p].snap]
            rest == [entry |-> [kind |-> "FRAGMENT", ref |-> 0], before |-> <<>>]
<1>2. asked \in Record /\ asked.entry = mem[p].want /\ asked.before = mem[p].snap
  BY <1>1 DEF Memory, Record
<1>3. rest \in Record /\ rest.entry.kind = "FRAGMENT"
  BY FragmentType
<1>4. file' = Append(file, IF torn THEN asked ELSE rest)
  BY DEF WriteRest
<1>. HIDE DEF asked, rest
<1>. QED BY <1>2, <1>3, <1>4

\* The steps that write a line.
LEMMA LineKeeps ==
    ASSUME RegistryInv, NEW p \in Processes, WriteSome(p) \/ WriteRest(p)
    PROVE  RegistryInv'
<1>1. /\ mem \in [Processes -> Memory] /\ Operation(mem[p]) /\ lock \in Processes \cup {Nobody}
      /\ (mem[p].pc # "idle" => lock = p) /\ file \in Seq(Record) /\ Len(file) \in Nat
  BY DEF RegistryInv, TypeOK, Memory, Locked, Operations
<1>2. anchor' = anchor /\ rollbacks' = rollbacks /\ crashes' = crashes /\ lock' = lock
  BY DEF WriteSome, WriteRest
<1>3. CASE WriteSome(p)
  <2>1. /\ mem[p].pc = "sized" /\ mem' = [mem EXCEPT ![p].pc = "writing"] /\ "writing" \in PCs
        /\ torn' = TRUE /\ file' = file
    BY <1>3 DEF WriteSome, PCs
  <2>2. /\ mem' \in [Processes -> Memory] /\ mem'[p].pc = "writing"
        /\ mem'[p].want = mem[p].want /\ mem'[p].snap = mem[p].snap
    BY <1>1, <2>1, CounterType
  <2>3. TypeOK'
    BY <1>2, <2>1, <2>2 DEF RegistryInv, TypeOK, Memory
  <2>4. anchor = NoAnchor
    BY <1>1, <2>1 DEF Operation
  <2>5. Operation(mem[p])'
    BY <1>1, <1>2, <2>1, <2>2 DEF Operation
  <2>6. SealStays' /\ IntactFirst'
    BY <1>2, <2>1, <2>4 DEF RegistryInv, SealStays, IntactFirst
  <2>. QED BY <1>1, <1>2, <1>3, <2>1, <2>3, <2>5, <2>6, OneMover DEF Step
<1>4. CASE WriteRest(p)
  <2>1. /\ mem[p].pc = "writing" /\ torn' = FALSE
        /\ mem' = [mem EXCEPT ![p].pc = IF IsTerminal(mem[p].want) THEN "written" ELSE "done"]
    BY <1>4 DEF WriteRest
  <2>2. (IF IsTerminal(mem[p].want) THEN "written" ELSE "done") \in PCs
    BY DEF PCs
  <2>3. /\ mem' \in [Processes -> Memory]
        /\ mem'[p].pc = IF IsTerminal(mem[p].want) THEN "written" ELSE "done"
        /\ mem'[p].want = mem[p].want /\ mem'[p].snap = mem[p].snap
    BY <1>1, <2>1, <2>2, CounterType
  <2>4. PICK line \in Record : file' = Append(file, line)
    BY <1>4, LineType
  <2>5. file' \in Seq(Record) /\ Len(file') = Len(file) + 1
    BY <1>1, <2>4
  <2>6. TypeOK'
    BY <1>2, <2>1, <2>3, <2>5 DEF RegistryInv, TypeOK, Memory
  <2>7. anchor = NoAnchor /\ Len(file) <= Len(mem[p].snap) /\ mem[p].snap \in Seq(Entry)
    BY <1>1, <2>1 DEF Operation, Memory
  <2>8. Len(file') <= Len(mem[p].snap) + 1
    BY <1>1, <2>5, <2>7
  <2>9. Operation(mem[p])'
    BY <1>1, <1>2, <2>1, <2>3, <2>7, <2>8 DEF Operation
  <2>10. SealStays'
    BY <1>2, <2>1, <2>7 DEF SealStays, NoAnchor
  <2>11. IntactFirst'
    <3>1. PICK n \in 0..Len(file) : IntactTrials(file) = 1..n
      BY DEF RegistryInv, IntactFirst
    <3>2. \E m \in 0..Len(file') : IntactTrials(file') = 1..m
      BY <1>1, <2>4, <2>5, <3>1, StillFirst
    <3>. QED BY <3>2 DEF IntactFirst
  <2>. QED BY <1>1, <1>2, <1>4, <2>1, <2>6, <2>9, <2>10, <2>11, OneMover DEF Step
<1>. QED BY <1>3, <1>4

\* The steps that write the seal.
LEMMA SealKeeps ==
    ASSUME RegistryInv, NEW p \in Processes, CreateAnchor(p) \/ WriteAnchor(p)
    PROVE  RegistryInv'
<1>1. /\ mem \in [Processes -> Memory] /\ mem[p] \in Memory /\ Operation(mem[p])
      /\ lock \in Processes \cup {Nobody}
      /\ (mem[p].pc # "idle" => lock = p)
  BY DEF RegistryInv, TypeOK, Memory, Locked, Operations
<1>2. /\ rollbacks' = rollbacks /\ crashes' = crashes /\ lock' = lock /\ file' = file /\ torn' = torn
  BY DEF CreateAnchor, WriteAnchor
<1>3. IntactFirst'
  BY <1>2 DEF RegistryInv, IntactFirst
<1>4. CASE CreateAnchor(p)
  <2>1. /\ mem[p].pc = "written" /\ mem' = [mem EXCEPT ![p].pc = "anchoring"] /\ "anchoring" \in PCs
        /\ anchor' = [state |-> "torn", head |-> <<>>]
    BY <1>4 DEF CreateAnchor, PCs
  <2>2. /\ mem' \in [Processes -> Memory] /\ mem'[p].pc = "anchoring"
        /\ mem'[p].want = mem[p].want /\ mem'[p].snap = mem[p].snap
    BY <1>1, <2>1, CounterType
  <2>3. anchor' \in Anchor /\ anchor'.state = "torn"
    BY <2>1 DEF Anchor
  <2>4. TypeOK'
    BY <1>2, <2>2, <2>3 DEF RegistryInv, TypeOK, Memory
  <2>5. Operation(mem[p])' /\ SealStays'
    BY <1>1, <1>2, <2>1, <2>2, <2>3 DEF Operation, SealStays
  <2>. QED BY <1>1, <1>2, <1>3, <1>4, <2>1, <2>4, <2>5, OneMover DEF Step
<1>5. CASE WriteAnchor(p)
  <2>. DEFINE head == Append(mem[p].snap, mem[p].want)
  <2>1. /\ mem[p].pc = "anchoring" /\ mem' = [mem EXCEPT ![p].pc = "done"] /\ "done" \in PCs
        /\ anchor' = [state |-> "sealed", head |-> head]
    BY <1>5 DEF WriteAnchor, PCs
  <2>2. mem' \in [Processes -> Memory] /\ mem'[p].pc = "done"
    BY <1>1, <2>1, CounterType
  <2>3. head \in Seq(Entry) /\ Len(head) = Len(mem[p].snap) + 1
    BY <1>1 DEF Memory
  <2>. HIDE DEF head
  <2>4. anchor' \in Anchor /\ anchor'.state = "sealed" /\ anchor'.head = head
    BY <2>1, <2>3 DEF Anchor
  <2>5. TypeOK'
    BY <1>2, <2>2, <2>4 DEF RegistryInv, TypeOK, Memory
  <2>6. Operation(mem[p])' /\ SealStays'
    BY <1>1, <1>2, <2>1, <2>2, <2>3, <2>4 DEF Operation, SealStays
  <2>. QED BY <1>1, <1>2, <1>3, <1>5, <2>1, <2>5, <2>6, OneMover DEF Step
<1>. QED BY <1>4, <1>5

LEMMA RollBackKeeps ==
    ASSUME RegistryInv, RollBack
    PROVE  RegistryInv'
<1>1. file \in Seq(Record) /\ Len(file) \in Nat /\ rollbacks \in Nat
  BY DEF RegistryInv, TypeOK
<1>2. PICK k \in 0..Len(file) : file' = SubSeq(file, 1, k)
  BY DEF RollBack
<1>3. /\ torn' = FALSE /\ anchor' = anchor /\ lock' = lock /\ mem' = mem /\ crashes' = crashes
      /\ rollbacks' \in Nat
  BY <1>1 DEF RollBack
<1>4. /\ file' \in Seq(Record) /\ Len(file') = k /\ k \in Nat /\ k <= Len(file)
      /\ (AllVerify(file) => AllVerify(file'))
  BY <1>1, <1>2, Shortened
<1>5. TypeOK'
  BY <1>3, <1>4 DEF RegistryInv, TypeOK
<1>6. ASSUME NEW q \in Processes PROVE Operation(mem[q])'
  <2>1. Operation(mem[q]) /\ Len(mem[q].snap) \in Nat
    BY DEF RegistryInv, Operations, TypeOK
  <2>2. \A n \in Nat : Len(file) <= n => Len(file') <= n
    BY <1>1, <1>4
  <2>. QED BY <1>3, <1>4, <2>1, <2>2 DEF Operation
<1>7. SealStays'
  <2>1. anchor \in Anchor
    BY DEF RegistryInv, TypeOK
  <2>2. Len(anchor.head) \in Nat
    BY <2>1 DEF Anchor
  <2>. QED BY <1>1, <1>3, <1>4, <2>2 DEF RegistryInv, SealStays
<1>8. IntactFirst'
  <2>1. PICK n \in 0..Len(file) : IntactTrials(file) = 1..n
    BY DEF RegistryInv, IntactFirst
  <2>2. \E m \in 0..Len(file') : IntactTrials(file') = 1..m
    BY <1>1, <1>2, <1>4, <2>1, StillFirst
  <2>. QED BY <2>2 DEF IntactFirst
<1>9. Locked' /\ Operations'
  BY <1>3, <1>6 DEF RegistryInv, Locked, Operations
<1>. QED BY <1>5, <1>7, <1>8, <1>9 DEF RegistryInv

LEMMA StepRegistry == RegistryInv /\ [Next]_vars => RegistryInv'
<1>. SUFFICES ASSUME RegistryInv, [Next]_vars PROVE RegistryInv'
  OBVIOUS
<1>1. CASE UNCHANGED vars
  BY <1>1 DEF vars, RegistryInv, TypeOK, Locked, Operations, Operation, SealStays, IntactFirst
<1>2. CASE RollBack
  BY <1>2, RollBackKeeps
<1>3. ASSUME NEW p \in Processes, Step(p) PROVE RegistryInv'
  BY <1>3, BeginKeeps, QuietKeeps, LineKeeps, SealKeeps DEF Step
<1>. QED BY <1>1, <1>2, <1>3 DEF Next, Step

\* The types, and the rest of the invariant, hold for any number of processes.
THEOREM TypeCorrect == Spec => []TypeOK
<1>1. RegistryInv => TypeOK
  BY DEF RegistryInv
<1>. QED BY InitRegistry, StepRegistry, <1>1, PTL DEF Spec

\* However many processes die however often in the middle of a line, none extends
\* a torn line: whoever has checked the size has read a file that was not torn,
\* and only the holder of the lock could have torn it since.
THEOREM TornLinesStay == Spec => TornLineNeverExtended
<1>. DEFINE Stays == torn /\ (\A p \in Processes : mem[p].pc # "writing")
                     => \A p \in Processes : mem'[p].pc # "writing"
<1>1. RegistryInv /\ [Next]_vars => [Stays]_vars
  <2>. SUFFICES ASSUME RegistryInv, Next, torn, NEW q \in Processes,
                       mem[q].pc # "writing", mem'[q].pc = "writing"
                PROVE  FALSE
    BY DEF vars
  <2>1. mem \in [Processes -> Memory] /\ Operation(mem[q])
    BY DEF RegistryInv, TypeOK, Memory, Operations
  <2>2. CASE RollBack
    BY <2>2 DEF RollBack
  <2>3. ASSUME NEW p \in Processes, Step(p) PROVE FALSE
    <3>1. p = q
      BY <2>3, OthersIdle
    <3>2. WriteSome(q)
      <4>1. mem[q] \in Memory
        BY <2>1
      <4>2. CASE Begin(q)
        BY <2>1, <4>2 DEF Begin
      <4>3. CASE CheckSize(q) \/ CreateAnchor(q) \/ WriteAnchor(q)
        BY <2>1, <4>1, <4>3 DEF CheckSize, CreateAnchor, WriteAnchor, Memory
      <4>4. CASE WriteRest(q)
        BY <2>1, <4>1, <4>4 DEF WriteRest, Memory
      <4>5. CASE SizeChanged(q) \/ Return(q) \/ Crash(q)
        BY <2>1, <4>5, IdleType DEF SizeChanged, Return, Crash, Release
      <4>. QED BY <2>3, <3>1, <4>2, <4>3, <4>4, <4>5 DEF Step
    <3>3. mem[q].pc = "sized"
      BY <3>2 DEF WriteSome
    <3>. QED BY <2>1, <3>3 DEF Operation
  <2>. QED BY <2>2, <2>3 DEF Next, Step
<1>. QED BY InitRegistry, StepRegistry, <1>1, PTL DEF Spec, TornLineNeverExtended

----------------------------------------------------------------------------
(* The registry implements TrialLog.                                       *)

Trusted == Verifies \/ InFlight
Outcome == IF anchor.state = "sealed" THEN Last(anchor.head) ELSE NoOutcome
Unchanged == Attempts(file') = Attempts(file) /\ Outcome' = Outcome /\ Trusted' = Trusted

\* The operation m is in flight.
Flies(m) ==
    /\ AllVerify(file)
    /\ \/ m.pc = "writing" /\ torn /\ anchor = NoAnchor /\ Entries(file) = m.snap
       \/ /\ m.pc \in {"written", "anchoring"} /\ ~ torn
          /\ Entries(file) = Append(m.snap, m.want)
          /\ anchor.state = IF m.pc = "written" THEN "absent" ELSE "torn"

LEMMA InFlightIs == InFlight <=> \E p \in Processes : Flies(mem[p])
  BY DEF InFlight, Flies, AllVerify

LEMMA VerifiesIs == Verifies <=> ~ torn /\ AnchorVerifies /\ AllVerify(file)
  BY DEF Verifies, AllVerify

LEMMA OnlyOneFlies ==
    ASSUME RegistryInv, NEW p \in Processes, Step(p)
    PROVE  (InFlight <=> Flies(mem[p])) /\ (InFlight' <=> Flies(mem[p])')
<1>1. \A q \in Processes \ {p} : mem'[q] = mem[q] /\ mem[q].pc = "idle"
  BY OthersIdle
<1>2. \A q \in Processes \ {p} : ~ Flies(mem[q]) /\ ~ Flies(mem[q])'
  BY <1>1 DEF Flies
<1>3. InFlight <=> \E q \in Processes : Flies(mem[q])
  BY InFlightIs
<1>4. InFlight' <=> \E q \in Processes : Flies(mem[q])'
  BY DEF InFlight, Flies, AllVerify
<1>. QED BY <1>2, <1>3, <1>4

LEMMA PrefixIs ==
    ASSUME NEW S, NEW s \in Seq(S), NEW t \in Seq(S), Len(s) <= Len(t), \A i \in 1..Len(s) : s[i] = t[i]
    PROVE  Log!IsPrefix(s, t)
<1>. DEFINE n == Len(s)
            x == SubSeq(s, 1, n)
            y == SubSeq(t, 1, n)
<1>1. n \in Nat /\ Len(t) \in Nat /\ n <= Len(t) /\ \A i \in 1..n : s[i] \in S /\ t[i] \in S /\ s[i] = t[i]
  OBVIOUS
<1>. HIDE DEF n
<1>2. x \in Seq(S) /\ Len(x) = n /\ \A i \in 1..n : x[i] = s[i]
  BY <1>1, SubSeqProperties
<1>3. y \in Seq(S) /\ Len(y) = n /\ \A i \in 1..n : y[i] = t[i]
  BY <1>1, SubSeqProperties
<1>. HIDE DEF x, y
<1>4. x = y
  BY <1>1, <1>2, <1>3, SeqEqual
<1>. QED BY <1>1, <1>4 DEF Log!IsPrefix, n, x, y

\* The trials of a file whose intact beginning stays or is cut.
LEMMA AttemptsCut ==
    ASSUME NEW f \in Seq(Record), NEW n \in 0..Len(f), IntactTrials(f) = 1..n,
           NEW g \in Seq(Record), NEW m \in 0..Len(g), IntactTrials(g) = 1..m,
           m <= n, \A i \in 1..m : g[i] = f[i]
    PROVE  Log!IsPrefix(Attempts(g), Attempts(f))
<1>1. /\ Attempts(f) \in Seq(TrialKinds) /\ Len(Attempts(f)) = n
      /\ \A i \in 1..n : Attempts(f)[i] = f[i].entry.kind
  BY AttemptsOf
<1>2. /\ Attempts(g) \in Seq(TrialKinds) /\ Len(Attempts(g)) = m
      /\ \A i \in 1..m : Attempts(g)[i] = g[i].entry.kind
  BY AttemptsOf
<1>3. \A i \in 1..m : i \in 1..n
  OBVIOUS
<1>4. \A i \in 1..m : Attempts(g)[i] = Attempts(f)[i]
  BY <1>1, <1>2, <1>3
<1>. QED BY <1>1, <1>2, <1>4, PrefixIs

LEMMA AttemptsSelf ==
    ASSUME RegistryInv
    PROVE  Log!IsPrefix(Attempts(file), Attempts(file))
<1>1. PICK n \in 0..Len(file) : IntactTrials(file) = 1..n
  BY DEF RegistryInv, IntactFirst
<1>2. file \in Seq(Record) /\ n <= n
  BY DEF RegistryInv, TypeOK
<1>. QED BY <1>1, <1>2, AttemptsCut

\* Damage is all that TrialLog asks of a step that loses the trust.
LEMMA Damaged ==
    ASSUME ~ Trusted', Log!IsPrefix(Attempts(file'), Attempts(file)),
           anchor.state # "sealed" \/ anchor' = anchor
    PROVE  Log!Next
<1>1. Log!Damage
  BY DEF Log!Damage, Trusted, Outcome
<1>. QED BY <1>1 DEF Log!Next

Refines == Log!Next \/ Unchanged

\* A step that writes nothing: what verified still does, and nothing flies.
LEMMA QuietRefines ==
    ASSUME RegistryInv, NEW p \in Processes,
           Begin(p) \/ CheckSize(p) \/ SizeChanged(p) \/ Return(p) \/ Crash(p)
    PROVE  Refines
<1>1. mem \in [Processes -> Memory] /\ mem[p] \in Memory
  BY DEF RegistryInv, TypeOK, Memory
<1>2. file' = file /\ torn' = torn /\ anchor' = anchor
  BY DEF Begin, CheckSize, SizeChanged, Return, Crash
<1>3. mem'[p].pc \in {"locked", "sized", "idle"}
  <2>1. CASE Begin(p)
    BY <1>1, <2>1 DEF Begin
  <2>2. CASE CheckSize(p)
    BY <1>1, <2>2 DEF CheckSize, Memory
  <2>3. CASE SizeChanged(p) \/ Return(p) \/ Crash(p)
    BY <1>1, <2>3, ReleaseType, IdleType DEF SizeChanged, Return, Crash
  <2>. QED BY <2>1, <2>2, <2>3
<1>4. ~ InFlight'
  BY <1>3, OnlyOneFlies DEF Step, Flies
<1>5. Verifies' <=> Verifies
  BY <1>2 DEF Verifies, AnchorVerifies
<1>6. CASE Verifies
  <2>1. Attempts(file') = Attempts(file) /\ Outcome' = Outcome
    BY <1>2 DEF Outcome
  <2>2. Trusted' = Trusted
    BY <1>5, <1>6 DEF Trusted
  <2>. QED BY <2>1, <2>2 DEF Refines, Unchanged
<1>7. CASE ~ Verifies
  <2>1. ~ Trusted'
    BY <1>4, <1>5, <1>7 DEF Trusted
  <2>. QED BY <1>2, <2>1, AttemptsSelf, Damaged DEF Refines
<1>. QED BY <1>6, <1>7

\* A log of trials is not frozen.
LEMMA TrialsAreOpen ==
    ASSUME NEW s \in Seq(Entry), AllTrials(s)
    PROVE  ~ Frozen(s)
<1>1. s # <<>> => Len(s) \in 1..Len(s) /\ DOMAIN s = 1..Len(s)
  OBVIOUS
<1>. QED BY <1>1 DEF Frozen, Last, IsTerminal, AllTrials, TrialKinds, TerminalKinds

LEMMA WriteSomeRefines ==
    ASSUME RegistryInv, NEW p \in Processes, WriteSome(p)
    PROVE  Refines
<1>1. /\ mem \in [Processes -> Memory] /\ mem[p] \in Memory /\ Operation(mem[p])
  BY DEF RegistryInv, TypeOK, Memory, Operations
<1>2. /\ file' = file /\ torn' = TRUE /\ anchor' = anchor /\ mem[p].pc = "sized"
      /\ mem' = [mem EXCEPT ![p].pc = "writing"] /\ "writing" \in PCs
  BY DEF WriteSome, PCs
<1>3. mem'[p].pc = "writing" /\ mem'[p].snap = mem[p].snap
  BY <1>1, <1>2, CounterType
<1>4. ~ Verifies'
  BY <1>2 DEF Verifies
<1>5. ~ torn /\ anchor = NoAnchor /\ AllVerify(file) /\ AllTrials(mem[p].snap) /\ mem[p].snap \in Seq(Entry)
  BY <1>1, <1>2 DEF Operation, Memory
<1>6. CASE Flies(mem[p])'
  <2>1. Entries(file) = mem[p].snap
    BY <1>2, <1>3, <1>6 DEF Flies
  <2>2. ~ Frozen(Entries(file))
    BY <1>5, <2>1, TrialsAreOpen
  <2>3. Verifies
    BY <1>5, <2>2, VerifiesIs DEF AnchorVerifies
  <2>4. InFlight'
    BY <1>6, OnlyOneFlies DEF Step
  <2>5. Trusted' = Trusted
    BY <2>3, <2>4 DEF Trusted
  <2>6. Attempts(file') = Attempts(file) /\ Outcome' = Outcome
    BY <1>2 DEF Outcome
  <2>. QED BY <2>5, <2>6 DEF Refines, Unchanged
<1>7. CASE ~ Flies(mem[p])'
  <2>1. ~ Trusted'
    BY <1>4, <1>7, OnlyOneFlies DEF Step, Trusted
  <2>. QED BY <1>2, <2>1, AttemptsSelf, Damaged DEF Refines
<1>. QED BY <1>6, <1>7

\* The line asked for verifies where it was meant to be written.
LEMMA AskedLineVerifies ==
    ASSUME NEW f \in Seq(Record), NEW line \in Record, AllVerify(f),
           AllTrials(Entries(f)), line.before = Entries(f), line.entry \in Requests(Entries(f))
    PROVE  AllVerify(Append(f, line))
<1>. DEFINE g == Append(f, line)
            n == Len(f)
<1>1. /\ g \in Seq(Record) /\ Len(g) = n + 1 /\ g[n + 1] = line /\ n \in Nat
      /\ \A i \in 1..n : g[i] = f[i]
      /\ \A i \in 1..n : LineVerifies(g, i) <=> LineVerifies(f, i)
      /\ SubSeq(g, 1, n) = f
  BY Grown
<1>2. /\ Entries(f) \in Seq(Entry) /\ Len(Entries(f)) = n /\ DOMAIN Entries(f) = 1..n
      /\ \A i \in 1..n : Entries(f)[i] = f[i].entry
  BY EntriesOf
<1>3. DOMAIN f = 1..n
  OBVIOUS
<1>. HIDE DEF g, n
<1>4. \A i \in 1..n : f[i].entry.kind \in TrialKinds
  BY <1>2 DEF AllTrials
<1>5. (n + 1) - 1 = n /\ (n + 1 > 1 => n \in 1..n)
  BY <1>1
<1>6. line.before = Entries(SubSeq(g, 1, (n + 1) - 1))
  BY <1>1, <1>5
<1>7. n + 1 > 1 => ~ IsTerminal(g[(n + 1) - 1].entry)
  BY <1>1, <1>4, <1>5 DEF IsTerminal, TrialKinds, TerminalKinds
<1>8. \/ line.entry.kind \in TrialKinds /\ line.entry.ref = n + 1
      \/ line.entry.kind = "SELECTION" /\ line.entry.ref \in 1..n /\ f[line.entry.ref].entry.kind = "SUCCESS"
      \/ line.entry.kind = "REJECTION" /\ line.entry.ref = n /\ Entries(f) # <<>>
  BY <1>2 DEF Requests
<1>9. Entries(f) # <<>> => n >= 1
  BY <1>2
<1>10. \/ line.entry.kind \in TrialKinds /\ line.entry.ref = n + 1
       \/ /\ line.entry.kind = "SELECTION" /\ line.entry.ref \in 1..((n + 1) - 1)
          /\ g[line.entry.ref].entry.kind = "SUCCESS"
       \/ line.entry.kind = "REJECTION" /\ line.entry.ref = (n + 1) - 1 /\ line.entry.ref >= 1
  BY <1>1, <1>5, <1>8, <1>9
<1>11. LineVerifies(g, n + 1)
  BY <1>1, <1>6, <1>7, <1>10 DEF LineVerifies
<1>12. \A i \in 1..n : LineVerifies(g, i)
  BY <1>1, <1>3 DEF AllVerify
<1>13. \A i \in DOMAIN g : i \in 1..n \/ i = n + 1
  BY <1>1
<1>14. AllVerify(g)
  BY <1>11, <1>12, <1>13 DEF AllVerify
<1>. QED BY <1>14 DEF g

\* Any other line breaks the chain.
LEMMA OtherLineBreaks ==
    ASSUME NEW f \in Seq(Record), NEW line \in Record,
           line.before # Entries(f) \/ line.entry.kind = "FRAGMENT"
    PROVE  /\ ~ AllVerify(Append(f, line))
           /\ Attempts(Append(f, line)) = Attempts(f)
<1>. DEFINE g == Append(f, line)
            n == Len(f)
<1>1. /\ g \in Seq(Record) /\ Len(g) = n + 1 /\ g[n + 1] = line /\ n \in Nat
      /\ \A i \in 1..n : g[i] = f[i]
      /\ SubSeq(g, 1, n) = f
      /\ ~ (LineVerifies(g, n + 1) /\ line.entry.kind \in TrialKinds)
            => IntactTrials(g) = IntactTrials(f)
  BY Grown
<1>2. DOMAIN f = 1..n
  OBVIOUS
<1>. HIDE DEF g, n
<1>3. (n + 1) - 1 = n /\ n + 1 \in DOMAIN g
  BY <1>1
<1>4. ~ LineVerifies(g, n + 1)
  BY <1>1, <1>3 DEF LineVerifies, TrialKinds
<1>5. IntactTrials(g) = IntactTrials(f) /\ IntactTrials(f) \subseteq 1..n
  BY <1>1, <1>2, <1>4 DEF IntactTrials
<1>6. Attempts(g) = Attempts(f)
  BY <1>1, <1>5 DEF Attempts
<1>. QED BY <1>3, <1>4, <1>6 DEF AllVerify, g

LEMMA EntriesGrow ==
    ASSUME NEW f \in Seq(Record), NEW line \in Record
    PROVE  Entries(Append(f, line)) = Append(Entries(f), line.entry)
<1>. DEFINE g == Append(f, line)
            s == Append(Entries(f), line.entry)
            n == Len(f)
<1>1. g \in Seq(Record) /\ Len(g) = n + 1 /\ g[n + 1] = line /\ n \in Nat /\ \A i \in 1..n : g[i] = f[i]
  BY Grown
<1>2. /\ Entries(f) \in Seq(Entry) /\ Len(Entries(f)) = n
      /\ \A i \in 1..n : Entries(f)[i] = f[i].entry
  BY EntriesOf
<1>3. line.entry \in Entry
  BY DEF Record
<1>4. s \in Seq(Entry) /\ Len(s) = n + 1 /\ s[n + 1] = line.entry
      /\ \A i \in 1..n : s[i] = Entries(f)[i]
  BY <1>2, <1>3
<1>. HIDE DEF g, s, n
<1>5. \A i \in 1..Len(s) : g[i].entry = s[i]
  <2>1. \A i \in 1..(n + 1) : i \in 1..n \/ i = n + 1
    BY <1>1
  <2>. QED BY <1>1, <1>2, <1>4, <2>1
<1>6. Entries(g) = s
  BY <1>1, <1>4, <1>5, SameEntries
<1>. QED BY <1>6 DEF g, s

\* The write completes the line it began on top of the log it read: a trial is
\* an attempt, a terminal line is in flight until it has its seal.  Any other
\* line is damage that every later reading finds.
LEMMA WriteRestRefines ==
    ASSUME RegistryInv, NEW p \in Processes, WriteRest(p)
    PROVE  Refines
<1>1. /\ mem \in [Processes -> Memory] /\ mem[p] \in Memory /\ Operation(mem[p])
      /\ file \in Seq(Record) /\ mem[p].snap \in Seq(Entry) /\ mem[p].want \in Entry
  BY DEF RegistryInv, TypeOK, Memory, Operations
<1>2. /\ torn' = FALSE /\ anchor' = anchor /\ mem[p].pc = "writing"
      /\ mem' = [mem EXCEPT ![p].pc = IF IsTerminal(mem[p].want) THEN "written" ELSE "done"]
  BY DEF WriteRest
<1>3. (IF IsTerminal(mem[p].want) THEN "written" ELSE "done") \in PCs
  BY DEF PCs
<1>4. /\ mem'[p].pc = IF IsTerminal(mem[p].want) THEN "written" ELSE "done"
      /\ mem'[p].want = mem[p].want /\ mem'[p].snap = mem[p].snap
  BY <1>1, <1>2, <1>3, CounterType
<1>5. /\ anchor = NoAnchor /\ AllVerify(file) /\ AllTrials(mem[p].snap)
      /\ mem[p].want \in Requests(mem[p].snap)
  BY <1>1, <1>2 DEF Operation
<1>6. PICK line \in Record : /\ file' = Append(file, line)
                             /\ IF torn THEN line.entry = mem[p].want /\ line.before = mem[p].snap
                                ELSE line.entry.kind = "FRAGMENT"
  BY LineType
<1>7. Outcome' = Outcome /\ anchor.state = "absent"
  BY <1>2, <1>5 DEF Outcome, NoAnchor
<1>8. (InFlight <=> Flies(mem[p])) /\ (InFlight' <=> Flies(mem[p])')
  BY OnlyOneFlies DEF Step
<1>9. CASE torn /\ Entries(file) = mem[p].snap
  <2>1. line.entry = mem[p].want /\ line.before = Entries(file)
    BY <1>6, <1>9
  <2>2. AllVerify(file')
    BY <1>1, <1>5, <1>6, <1>9, <2>1, AskedLineVerifies
  <2>3. Entries(file') = Append(mem[p].snap, mem[p].want)
    BY <1>1, <1>6, <1>9, <2>1, EntriesGrow
  <2>4. Flies(mem[p])
    BY <1>2, <1>5, <1>9 DEF Flies
  <2>5. Trusted
    BY <1>8, <2>4 DEF Trusted
  <2>6. CASE IsTerminal(mem[p].want)
    <3>1. Flies(mem[p])'
      BY <1>2, <1>4, <1>7, <2>2, <2>3, <2>6 DEF Flies
    <3>2. Trusted'
      BY <1>8, <3>1 DEF Trusted
    <3>3. line.entry.kind \notin TrialKinds
      BY <2>1, <2>6 DEF IsTerminal, TrialKinds, TerminalKinds
    <3>4. IntactTrials(file') = IntactTrials(file) /\ IntactTrials(file) \subseteq 1..Len(file)
          /\ \A i \in 1..Len(file) : file'[i] = file[i]
      <4>1. DOMAIN file = 1..Len(file)
        BY <1>1
      <4>2. IntactTrials(file) \subseteq DOMAIN file
        BY DEF IntactTrials
      <4>. QED BY <1>1, <1>6, <3>3, <4>1, <4>2, Grown
    <3>5. Attempts(file') = Attempts(file)
      BY <3>4 DEF Attempts
    <3>. QED BY <1>7, <2>5, <3>2, <3>5 DEF Refines, Unchanged, Trusted
  <2>7. CASE ~ IsTerminal(mem[p].want)
    <3>1. mem[p].want.kind \in TrialKinds
      BY <1>5, <2>7 DEF Requests, IsTerminal, TerminalKinds
    <3>. DEFINE f == file
                n == Len(file)
                g == file'
                a == Attempts(file)
                b == Append(Attempts(file), mem[p].want.kind)
    <3>2. /\ g \in Seq(Record) /\ Len(g) = n + 1 /\ n \in Nat /\ g[n + 1] = line
          /\ \A i \in 1..n : g[i] = file[i]
      BY <1>1, <1>6, Grown
    <3>3. AllTrials(Append(mem[p].snap, mem[p].want))
      <4>1. /\ Append(mem[p].snap, mem[p].want) \in Seq(Entry)
            /\ \A i \in DOMAIN Append(mem[p].snap, mem[p].want) :
                  \/ i \in DOMAIN mem[p].snap /\ Append(mem[p].snap, mem[p].want)[i] = mem[p].snap[i]
                  \/ Append(mem[p].snap, mem[p].want)[i] = mem[p].want
        BY <1>1
      <4>. QED BY <1>5, <3>1, <4>1 DEF AllTrials
    <3>4. Append(mem[p].snap, mem[p].want) \in Seq(Entry)
      BY <1>1
    <3>5. ~ Frozen(Entries(file')) /\ ~ Frozen(Entries(file))
      BY <1>1, <1>5, <1>9, <2>3, <3>3, <3>4, TrialsAreOpen
    <3>6. IntactTrials(file) = 1..n /\ IntactTrials(g) = 1..(n + 1)
      BY <1>1, <1>5, <2>2, <3>2, <3>5, OpenIsIntact
    <3>7. /\ a \in Seq(TrialKinds) /\ Len(a) = n /\ \A i \in 1..n : a[i] = file[i].entry.kind
      BY <1>1, <3>2, <3>6, AttemptsOf
    <3>8. /\ Attempts(g) \in Seq(TrialKinds) /\ Len(Attempts(g)) = n + 1
          /\ \A i \in 1..(n + 1) : Attempts(g)[i] = g[i].entry.kind
      <4>1. n + 1 \in 0..Len(g)
        BY <3>2
      <4>. QED BY <3>2, <3>6, <4>1, AttemptsOf
    <3>9. /\ b \in Seq(TrialKinds) /\ Len(b) = n + 1 /\ b[n + 1] = mem[p].want.kind
          /\ \A i \in 1..n : b[i] = a[i]
      BY <3>1, <3>2, <3>7
    <3>. HIDE DEF n, g, a, b
    <3>10. \A i \in 1..(n + 1) : Attempts(g)[i] = b[i]
      <4>1. \A i \in 1..(n + 1) : i \in 1..n \/ i = n + 1
        BY <3>2
      <4>. QED BY <2>1, <3>2, <3>7, <3>8, <3>9, <4>1
    <3>11. Attempts(g) = b
      BY <3>8, <3>9, <3>10, SeqEqual
    <3>12. Attempts(file') = Append(Attempts(file), mem[p].want.kind)
      BY <3>11 DEF g, b
    <3>13. Verifies'
      BY <1>2, <1>5, <2>2, <3>5 DEF Verifies, AnchorVerifies, AllVerify
    <3>14. Log!Open /\ Trusted'
      BY <1>7, <2>5, <3>13 DEF Log!Open, Trusted, Outcome
    <3>15. Log!Attempt
      BY <1>7, <2>5, <3>1, <3>12, <3>14 DEF Log!Attempt, Trusted, Outcome, TrialKinds
    <3>. QED BY <3>15 DEF Log!Next, Refines
  <2>. QED BY <2>6, <2>7
<1>10. CASE ~ (torn /\ Entries(file) = mem[p].snap)
  <2>1. line.before # Entries(file) \/ line.entry.kind = "FRAGMENT"
    BY <1>6, <1>10
  <2>2. ~ AllVerify(file') /\ Attempts(file') = Attempts(file)
    BY <1>1, <1>6, <2>1, OtherLineBreaks
  <2>3. ~ Verifies' /\ ~ Flies(mem[p])'
    BY <2>2 DEF Verifies, Flies, AllVerify
  <2>4. ~ Trusted'
    BY <1>8, <2>3 DEF Trusted
  <2>. QED BY <1>2, <2>2, <2>4, AttemptsSelf, Damaged DEF Refines
<1>. QED BY <1>9, <1>10

LEMMA CreateAnchorRefines ==
    ASSUME RegistryInv, NEW p \in Processes, CreateAnchor(p)
    PROVE  Refines
<1>1. mem \in [Processes -> Memory] /\ mem[p] \in Memory
  BY DEF RegistryInv, TypeOK, Memory
<1>2. /\ file' = file /\ torn' = torn /\ mem[p].pc = "written" /\ anchor = NoAnchor
      /\ mem' = [mem EXCEPT ![p].pc = "anchoring"] /\ "anchoring" \in PCs
      /\ anchor' = [state |-> "torn", head |-> <<>>]
  BY DEF CreateAnchor, PCs
<1>3. /\ mem'[p].pc = "anchoring" /\ mem'[p].want = mem[p].want /\ mem'[p].snap = mem[p].snap
  BY <1>1, <1>2, CounterType
<1>4. anchor.state = "absent" /\ anchor'.state = "torn"
  BY <1>2 DEF NoAnchor
<1>5. (InFlight <=> Flies(mem[p])) /\ (InFlight' <=> Flies(mem[p])')
  BY OnlyOneFlies DEF Step
<1>6. Flies(mem[p])' => Flies(mem[p])
  BY <1>2, <1>3, <1>4 DEF Flies
<1>7. ~ Verifies'
  BY <1>4 DEF Verifies, AnchorVerifies, NoAnchor
<1>8. CASE Flies(mem[p])'
  <2>1. Trusted /\ Trusted'
    BY <1>5, <1>6, <1>8 DEF Trusted
  <2>2. Attempts(file') = Attempts(file) /\ Outcome' = Outcome
    BY <1>2, <1>4 DEF Outcome
  <2>. QED BY <2>1, <2>2 DEF Refines, Unchanged, Trusted
<1>9. CASE ~ Flies(mem[p])'
  <2>1. ~ Trusted'
    BY <1>5, <1>7, <1>9 DEF Trusted
  <2>. QED BY <1>2, <1>4, <2>1, AttemptsSelf, Damaged DEF Refines
<1>. QED BY <1>8, <1>9

\* The seal of a log that is still what the operation read and wrote freezes it.
LEMMA WriteAnchorRefines ==
    ASSUME RegistryInv, NEW p \in Processes, WriteAnchor(p)
    PROVE  Refines
<1>. DEFINE head == Append(mem[p].snap, mem[p].want)
            w == mem[p].want
            s == mem[p].snap
<1>1. /\ mem \in [Processes -> Memory] /\ mem[p] \in Memory /\ Operation(mem[p])
      /\ file \in Seq(Record) /\ s \in Seq(Entry) /\ w \in Entry
  BY DEF RegistryInv, TypeOK, Memory, Operations
<1>2. /\ file' = file /\ torn' = torn /\ mem[p].pc = "anchoring"
      /\ mem' = [mem EXCEPT ![p].pc = "done"] /\ "done" \in PCs
      /\ anchor' = [state |-> "sealed", head |-> head]
  BY DEF WriteAnchor, PCs
<1>3. mem'[p].pc = "done"
  BY <1>1, <1>2, CounterType
<1>4. /\ anchor.state = "torn" /\ ~ torn /\ AllTrials(s) /\ w \in Requests(s) /\ IsTerminal(w)
  BY <1>1, <1>2 DEF Operation
<1>5. head \in Seq(Entry) /\ Len(head) = Len(s) + 1 /\ head[Len(head)] = w /\ head # <<>>
      /\ DOMAIN s = 1..Len(s) /\ Len(s) \in Nat
      /\ \A i \in 1..Len(s) : head[i] = s[i]
  BY <1>1
<1>. HIDE DEF head, w, s
<1>6. anchor'.state = "sealed" /\ anchor'.head = head
  BY <1>2
<1>7. (InFlight <=> Flies(mem[p])) /\ ~ InFlight'
  BY <1>3, OnlyOneFlies DEF Step, Flies
<1>8. CASE Flies(mem[p])
  <2>1. AllVerify(file) /\ Entries(file) = head
    BY <1>2, <1>8 DEF Flies, head
  <2>2. Frozen(head)
    BY <1>4, <1>5 DEF Frozen, Last
  <2>3. Verifies'
    BY <1>2, <1>4, <2>1, <2>2 DEF Verifies, AnchorVerifies, AllVerify
  <2>4. Trusted /\ Trusted'
    BY <1>7, <1>8, <2>3 DEF Trusted
  <2>5. Outcome = NoOutcome /\ Outcome' = w
    BY <1>4, <1>5, <1>6 DEF Outcome, Last
  <2>6. Attempts(file') = Attempts(file)
    BY <1>2
  <2>7. /\ Len(file) = Len(s) + 1 /\ \A i \in 1..Len(file) : file[i].entry = head[i]
    BY <1>1, <1>5, <2>1, EntriesOf
  <2>8. IntactTrials(file) = 1..Len(s)
    <3>1. \A i \in 1..Len(s) : LineVerifies(file, i) /\ file[i].entry.kind \in TrialKinds
      <4>1. \A i \in 1..Len(s) : i \in 1..Len(file) /\ i \in DOMAIN file
        BY <1>1, <1>5, <2>7
      <4>. QED BY <1>4, <1>5, <2>1, <2>7, <4>1 DEF AllVerify, AllTrials
    <3>2. file[Len(s) + 1].entry.kind \notin TrialKinds
      BY <1>4, <1>5, <2>7 DEF IsTerminal, TrialKinds, TerminalKinds
    <3>3. DOMAIN file = 1..(Len(s) + 1)
      BY <1>1, <2>7
    <3>4. \A i \in DOMAIN file : i \in 1..Len(s) \/ i = Len(s) + 1
      BY <1>5, <3>3
    <3>5. Len(s) + 1 \notin IntactTrials(file)
      BY <1>5, <3>2 DEF IntactTrials
    <3>6. \A i \in 1..Len(s) : i \in IntactTrials(file)
      <4>1. \A i \in 1..Len(s) : i \in DOMAIN file /\ \A j \in 1..i : j \in 1..Len(s)
        BY <1>5, <3>3
      <4>. QED BY <3>1, <4>1 DEF IntactTrials
    <3>7. IntactTrials(file) \subseteq DOMAIN file
      BY DEF IntactTrials
    <3>. QED BY <3>4, <3>5, <3>6, <3>7
  <2>9. /\ Attempts(file) \in Seq(TrialKinds) /\ Len(Attempts(file)) = Len(s)
        /\ DOMAIN Attempts(file) = 1..Len(s)
        /\ \A i \in 1..Len(s) : Attempts(file)[i] = s[i].kind
    <3>1. Len(s) \in 0..Len(file) /\ \A i \in 1..Len(s) : i \in 1..Len(file)
      BY <1>5, <2>7
    <3>2. /\ Attempts(file) \in Seq(TrialKinds) /\ Len(Attempts(file)) = Len(s)
          /\ DOMAIN Attempts(file) = 1..Len(s)
          /\ \A i \in 1..Len(s) : Attempts(file)[i] = file[i].entry.kind
      BY <1>1, <2>8, <3>1, AttemptsOf
    <3>. QED BY <1>5, <2>7, <3>1, <3>2
  <2>10. Log!Open
    BY <2>4, <2>5 DEF Log!Open, Trusted, Outcome
  <2>11. \/ w.kind = "SELECTION" /\ w.ref \in 1..Len(s) /\ s[w.ref].kind = "SUCCESS"
         \/ w.kind = "REJECTION" /\ w.ref = Len(s) /\ s # <<>>
    BY <1>4, <1>5 DEF Requests, IsTerminal, TrialKinds, TerminalKinds
  <2>12. w = [kind |-> w.kind, ref |-> w.ref]
    BY <1>1 DEF Entry, w
  <2>13. CASE w.kind = "SELECTION" /\ w.ref \in 1..Len(s) /\ s[w.ref].kind = "SUCCESS"
    <3>1. w.ref \in DOMAIN Attempts(file) /\ Attempts(file)[w.ref] = "SUCCESS"
      BY <2>9, <2>13
    <3>2. Outcome' = [kind |-> "SELECTION", ref |-> w.ref]
      BY <2>5, <2>12, <2>13
    <3>3. Log!Select
      BY <2>4, <2>6, <2>10, <3>1, <3>2 DEF Log!Select, Trusted, Outcome
    <3>. QED BY <3>3 DEF Log!Next, Refines
  <2>14. CASE w.kind = "REJECTION" /\ w.ref = Len(s) /\ s # <<>>
    <3>1. Outcome' = [kind |-> "REJECTION", ref |-> Len(Attempts(file))]
      BY <2>5, <2>9, <2>12, <2>14
    <3>2. Attempts(file) # <<>>
      <4>1. Len(s) # 0
        BY <1>1, <2>14, EmptySeq
      <4>2. Len(<<>>) = 0
        OBVIOUS
      <4>. QED BY <2>9, <4>1, <4>2
    <3>3. Log!RejectAll
      BY <2>4, <2>6, <2>10, <3>1, <3>2 DEF Log!RejectAll, Trusted, Outcome
    <3>. QED BY <3>3 DEF Log!Next, Refines
  <2>. QED BY <2>11, <2>13, <2>14
<1>9. CASE ~ Flies(mem[p])
  <2>1. ~ Verifies'
    <3>. SUFFICES ASSUME Verifies' PROVE FALSE
      OBVIOUS
    <3>1. AllVerify(file) /\ anchor' # NoAnchor
      BY <1>2, <1>6 DEF Verifies, AllVerify, NoAnchor
    <3>2. anchor' = [state |-> "sealed", head |-> Entries(file)]
      BY <1>2, <3>1 DEF Verifies, AnchorVerifies
    <3>3. Entries(file) = head
      BY <1>6, <3>2
    <3>. QED BY <1>2, <1>4, <1>9, <3>1, <3>3 DEF Flies, head
  <2>2. ~ Trusted'
    BY <1>7, <2>1 DEF Trusted
  <2>. QED BY <1>2, <1>4, <2>2, AttemptsSelf, Damaged DEF Refines
<1>. QED BY <1>8, <1>9

LEMMA RollBackRefines ==
    ASSUME RegistryInv, RollBack
    PROVE  Refines
<1>1. /\ file \in Seq(Record) /\ Len(file) \in Nat /\ anchor \in Anchor /\ torn \in BOOLEAN
  BY DEF RegistryInv, TypeOK
<1>2. PICK k \in 0..Len(file) : (torn \/ k < Len(file)) /\ file' = SubSeq(file, 1, k)
  BY DEF RollBack
<1>3. torn' = FALSE /\ anchor' = anchor /\ mem' = mem /\ Outcome' = Outcome
  BY DEF RollBack, Outcome
<1>4. PICK n \in 0..Len(file) : IntactTrials(file) = 1..n
  BY DEF RegistryInv, IntactFirst
<1>5. /\ file' \in Seq(Record) /\ Len(file') = k
      /\ \A i \in 1..k : file'[i] = file[i]
      /\ IntactTrials(file') = IntactTrials(file) \cap 1..k
  BY <1>1, <1>2, Shortened
<1>6. PICK m \in 0..k : m <= n /\ IntactTrials(file') = 1..m
  <2>1. CASE n <= k
    <3>1. n \in 0..k /\ n <= n /\ 1..n \cap 1..k = 1..n
      BY <2>1
    <3>. QED BY <1>4, <1>5, <3>1
  <2>2. CASE ~ (n <= k)
    <3>1. k \in 0..k /\ k <= n /\ 1..n \cap 1..k = 1..k
      BY <2>2
    <3>. QED BY <1>4, <1>5, <3>1
  <2>. QED BY <2>1, <2>2
<1>7. Log!IsPrefix(Attempts(file'), Attempts(file))
  <2>1. m \in 0..Len(file') /\ \A i \in 1..m : file'[i] = file[i]
    BY <1>5
  <2>. QED BY <1>1, <1>4, <1>5, <1>6, <2>1, AttemptsCut
<1>8. CASE anchor.state = "sealed"
  <2>1. ~ torn /\ Len(file) <= Len(anchor.head) /\ Len(anchor.head) \in Nat
    BY <1>1, <1>8 DEF RegistryInv, SealStays, NoAnchor, Anchor
  <2>2. Len(file') < Len(anchor.head)
    BY <1>1, <1>2, <1>5, <2>1
  <2>3. Len(Entries(file')) = Len(file')
    BY <1>5, EntriesOf
  <2>4. Entries(file') # anchor.head
    BY <1>5, <2>1, <2>2, <2>3
  <2>5. ~ Verifies'
    BY <1>3, <1>8, <2>4 DEF Verifies, AnchorVerifies, NoAnchor
  <2>6. ~ InFlight'
    BY <1>3, <1>8 DEF InFlight, NoAnchor
  <2>7. ~ Trusted'
    BY <2>5, <2>6 DEF Trusted
  <2>. QED BY <1>3, <1>7, <2>7, Damaged DEF Refines
<1>9. CASE anchor.state # "sealed"
  <2>1. CASE Trusted'
    <3>1. Outcome = NoOutcome
      BY <1>9 DEF Outcome
    <3>2. Log!UndetectedRollback
      BY <1>3, <1>7, <2>1, <3>1 DEF Log!UndetectedRollback, Trusted, Outcome
    <3>. QED BY <3>2 DEF Log!Next, Refines
  <2>2. CASE ~ Trusted'
    BY <1>7, <1>9, <2>2, Damaged DEF Refines
  <2>. QED BY <2>1, <2>2
<1>. QED BY <1>8, <1>9

LEMMA InitRefines == Init => Log!Init
<1>. SUFFICES ASSUME Init PROVE Log!Init
  OBVIOUS
<1>1. file = <<>> /\ file \in Seq(Record) /\ torn = FALSE /\ anchor = NoAnchor /\ anchor.state = "absent"
  BY DEF Init, NoAnchor
<1>2. IntactTrials(file) = 1..0 /\ 0 \in 0..Len(file) /\ DOMAIN file = {}
  BY <1>1 DEF IntactTrials
<1>3. Attempts(file) = <<>>
  <2>1. Attempts(file) \in Seq(TrialKinds) /\ Len(Attempts(file)) = 0
    BY <1>1, <1>2, AttemptsOf
  <2>. QED BY <2>1, EmptySeq
<1>4. Entries(file) = <<>>
  <2>1. Entries(file) \in Seq(Entry) /\ Len(Entries(file)) = 0
    BY <1>1, EntriesOf
  <2>. QED BY <2>1, EmptySeq
<1>5. Verifies
  BY <1>1, <1>2, <1>4 DEF Verifies, AnchorVerifies, Frozen
<1>. QED BY <1>1, <1>3, <1>5 DEF Log!Init

\* The registry keeps TrialLog's promise: under any number of processes, crashes
\* at every system call and rollbacks of the file, the log it vouches for only
\* grows, is frozen once by one outcome over a trial it holds, and a rollback of
\* a sealed log is always found.
THEOREM Implements == Spec => ImplementsTrialLog
<1>1. RegistryInv /\ [Next]_vars => Refines
  <2>. SUFFICES ASSUME RegistryInv, [Next]_vars PROVE Refines
    OBVIOUS
  <2>1. CASE UNCHANGED vars
    BY <2>1 DEF vars, Refines, Unchanged, Outcome, Trusted, Verifies, AnchorVerifies, InFlight
  <2>2. CASE RollBack
    BY <2>2, RollBackRefines
  <2>3. ASSUME NEW p \in Processes, Step(p) PROVE Refines
    BY <2>3, QuietRefines, WriteSomeRefines, WriteRestRefines, CreateAnchorRefines,
       WriteAnchorRefines DEF Step
  <2>. QED BY <2>1, <2>2, <2>3 DEF Next, Step
<1>2. RegistryInv /\ [Next]_vars
        => [Log!Next]_<<Attempts(file), IF anchor.state = "sealed" THEN Last(anchor.head) ELSE NoOutcome,
                        Verifies \/ InFlight>>
  BY <1>1 DEF Refines, Unchanged, Outcome, Trusted
<1>. QED BY <1>2, InitRegistry, InitRefines, StepRegistry, PTL DEF Spec, ImplementsTrialLog, Log!Spec

====
