----------------------- MODULE ConversionFallbackProofs -----------------------
(***************************************************************************)
(* Proofs about ConversionFallback for any files, any number of primes at  *)
(* once and any bound: the types, how far the cache outgrows its bound,    *)
(* and that a snapshot with the file's stamp has the file's text.          *)
(***************************************************************************)
EXTENDS Requests, FiniteSetTheorems, TLAPS

LEMMA PrimeTypes ==
    ASSUME FallbackTypeOK, NEW p \in Primes
    PROVE  /\ prime[p] \in Prime
           /\ prime[p].url \in Urls /\ prime[p].stamp \in Tick /\ prime[p].text \in Tick
           /\ disk[prime[p].url] \in Tick
  BY DEF FallbackTypeOK, Prime

LEMMA TickFacts ==
    ASSUME FallbackAssumption
    PROVE  Missing \in Tick /\ Tick \subseteq Nat
  BY DEF FallbackAssumption, Missing, Tick

\* ReadText, one prime at a time.
LEMMA ReadAt ==
    ASSUME FallbackTypeOK, NEW p \in Primes, ReadText(p)
    PROVE  /\ prime' \in [Primes -> Prime]
           /\ \A q \in Primes \ {p} : prime'[q] = prime[q]
           /\ prime'[p].url = prime[p].url /\ prime'[p].stamp = prime[p].stamp
           /\ prime'[p].text = disk[prime[p].url]
           /\ prime'[p].pc \in {"read", "failed"}
           /\ prime'[p].pc = "read" => disk[prime[p].url] # Missing
           /\ prime[p].pc = "probed"
  <1> DEFINE text == disk[prime[p].url]
             pc   == IF text = Missing THEN "failed" ELSE "read"
             read == [prime[p] EXCEPT !.pc = pc, !.text = text]
  <1>1. text \in Tick /\ pc \in {"failed", "read"} /\ (pc = "read" => text # Missing)
    BY PrimeTypes
  <1>2. prime' = [prime EXCEPT ![p] = read] /\ prime[p].pc = "probed"
    BY DEF ReadText
  <1>3. prime[p] \in Prime
    BY DEF FallbackTypeOK
  <1> HIDE DEF text, pc
  <1>4. /\ read \in Prime /\ read.pc = pc /\ read.text = text
        /\ read.url = prime[p].url /\ read.stamp = prime[p].stamp
    BY <1>1, <1>3 DEF Prime
  <1> HIDE DEF read
  <1>5. /\ prime' \in [Primes -> Prime] /\ prime'[p] = read
        /\ \A q \in Primes \ {p} : prime'[q] = prime[q]
    BY <1>2, <1>4 DEF FallbackTypeOK
  <1> QED
    BY <1>1, <1>2, <1>4, <1>5 DEF text

\* Converts, one prime at a time.
LEMMA ConvertsAt ==
    ASSUME FallbackAssumption, FallbackTypeOK, NEW p \in Primes, Converts(p)
    PROVE  /\ prime' \in [Primes -> Prime]
           /\ \A q \in Primes \ {p} : prime'[q] = prime[q]
           /\ prime'[p].pc = "idle" /\ prime'[p].stamp = Missing
  <1> DEFINE done == [prime[p] EXCEPT !.pc = "idle", !.stamp = Missing, !.text = Missing]
  <1>1. prime' = [prime EXCEPT ![p] = done]
    BY DEF Converts
  <1>2. prime[p] \in Prime
    BY DEF FallbackTypeOK
  <1>3. done \in Prime /\ done.pc = "idle" /\ done.stamp = Missing
    BY <1>2, TickFacts DEF Prime
  <1> HIDE DEF done
  <1> QED
    BY <1>1, <1>3 DEF FallbackTypeOK

-----------------------------------------------------------------------------
(* Types *)

LEMMA FallbackTypeInit ==
    ASSUME FallbackAssumption, FallbackInit
    PROVE  FallbackTypeOK
  <1>1. disk \in [Urls -> Tick] /\ clock \in Tick /\ snapshot \in [Urls -> Pair]
    BY TickFacts DEF FallbackInit, NoSnapshots, Pair, Missing
  <1>2. prime \in [Primes -> Prime] /\ \A p \in Primes : prime[p].pc = "idle"
    BY TickFacts DEF FallbackInit, Prime
  <1> QED
    BY <1>1, <1>2 DEF FallbackInit, FallbackTypeOK

LEMMA FallbackTypeStep ==
    ASSUME FallbackAssumption, FallbackTypeOK, [FallbackNext]_vars
    PROVE  FallbackTypeOK'
  <1>1. ASSUME NEW u \in Urls, WriteFile(u) \/ DeleteFile(u)
        PROVE  FallbackTypeOK'
    <2>1. clock' \in Tick /\ disk' \in [Urls -> Tick]
      BY <1>1, TickFacts DEF WriteFile, DeleteFile, FallbackTypeOK, FallbackAssumption, Tick,
                             Missing
    <2> QED
      BY <1>1, <2>1 DEF WriteFile, DeleteFile, FallbackTypeOK
  <1>2. ASSUME NEW p \in Primes, NEW u \in Urls, ProbeStamp(p, u)
        PROVE  FallbackTypeOK'
    <2> DEFINE probed == [pc |-> "probed", url |-> u, stamp |-> disk[u], text |-> Missing]
    <2>1. probed \in Prime
      BY TickFacts DEF FallbackTypeOK, Prime
    <2>2. prime' = [prime EXCEPT ![p] = probed]
      BY <1>2 DEF ProbeStamp
    <2>3. prime' \in [Primes -> Prime]
      BY <2>1, <2>2 DEF FallbackTypeOK
    <2>4. \A q \in Primes : prime'[q].pc \in {"read", "cleared"} => prime'[q] = prime[q]
      BY <2>2 DEF FallbackTypeOK
    <2> QED
      BY <1>2, <2>3, <2>4 DEF ProbeStamp, FallbackTypeOK
  <1>3. ASSUME NEW p \in Primes, SkipFresh(p) \/ Converts(p)
        PROVE  FallbackTypeOK'
    <2>1. CASE SkipFresh(p)
      BY <2>1 DEF SkipFresh, FallbackTypeOK, Prime
    <2>2. CASE Converts(p)
      BY <2>2, ConvertsAt DEF Converts, FallbackTypeOK
    <2> QED
      BY <1>3, <2>1, <2>2
  <1>4. ASSUME NEW p \in Primes, ReadText(p)
        PROVE  FallbackTypeOK'
    BY <1>4, ReadAt DEF ReadText, FallbackTypeOK
  <1>5. ASSUME NEW p \in Primes, ClearAtBound(p)
        PROVE  FallbackTypeOK'
    <2>1. prime' \in [Primes -> Prime]
      BY <1>5 DEF ClearAtBound, FallbackTypeOK, Prime
    <2>2. \A q \in Primes : prime'[q].pc \in {"read", "cleared"} =>
             prime[q].pc \in {"read", "cleared"} /\ prime'[q].text = prime[q].text
      BY <1>5 DEF ClearAtBound, FallbackTypeOK, Prime
    <2>3. cache' \subseteq cache /\ (cache' = {} \/ snapshot' = snapshot)
      BY <1>5 DEF ClearAtBound
    <2>4. snapshot' \in [Urls -> Pair]
      BY <1>5, TickFacts DEF ClearAtBound, NoSnapshots, FallbackTypeOK, Pair
    <2> QED
      BY <1>5, <2>1, <2>2, <2>3, <2>4 DEF ClearAtBound, FallbackTypeOK
  <1>6. ASSUME NEW p \in Primes, InsertSnapshot(p)
        PROVE  FallbackTypeOK'
    <2> DEFINE pair == [stamp |-> prime[p].stamp, text |-> prime[p].text]
    <2>1. pair \in Pair /\ pair.text # Missing
      BY <1>6, PrimeTypes DEF InsertSnapshot, FallbackTypeOK, Pair
    <2>2. snapshot' = [snapshot EXCEPT ![prime[p].url] = pair]
      BY <1>6 DEF InsertSnapshot
    <2>3. /\ prime' \in [Primes -> Prime]
          /\ \A q \in Primes : prime'[q].pc \in {"read", "cleared"} => prime'[q] = prime[q]
      BY <1>6 DEF InsertSnapshot, FallbackTypeOK, Prime
    <2>4. snapshot' \in [Urls -> Pair] /\ \A u \in cache' : snapshot'[u].text # Missing
      BY <1>6, <2>1, <2>2, PrimeTypes DEF InsertSnapshot, FallbackTypeOK
    <2>5. cache' \subseteq Urls
      BY <1>6, PrimeTypes DEF InsertSnapshot, FallbackTypeOK
    <2> QED
      BY <1>6, <2>3, <2>4, <2>5 DEF InsertSnapshot, FallbackTypeOK
  <1>7. CASE UNCHANGED vars
    BY <1>7 DEF vars, FallbackTypeOK
  <1> QED
    BY <1>1, <1>2, <1>3, <1>4, <1>5, <1>6, <1>7 DEF FallbackNext

\* The types, and that neither a missing file nor a failed read ever passes
\* for a text, in the cache or on its way there.
THEOREM FallbackTypes == FallbackSpec => []FallbackTypeOK
  <1>1. FallbackInit => FallbackTypeOK
    BY FallbackAssumption, FallbackTypeInit
  <1>2. FallbackTypeOK /\ [FallbackNext]_vars => FallbackTypeOK'
    BY FallbackAssumption, FallbackTypeStep
  <1> QED
    BY <1>1, <1>2, PTL DEF FallbackSpec

-----------------------------------------------------------------------------
(* The bound *)

LEMMA FiniteInserting ==
    ASSUME FallbackAssumption
    PROVE  /\ IsFiniteSet(Inserting) /\ Cardinality(Inserting) \in Nat
           /\ Cardinality(Primes) \in Nat
           /\ Cardinality(Inserting) <= Cardinality(Primes)
  <1>1. Inserting \in SUBSET Primes
    BY DEF Inserting
  <1> QED
    BY <1>1, FS_Subset, FS_CardinalityType DEF FallbackAssumption

SizeInv == IsFiniteSet(cache) /\ SizeBound

LEMMA SizeInit ==
    ASSUME FallbackAssumption, FallbackInit
    PROVE  SizeInv
  <1>1. cache = {} /\ Inserting = {}
    BY DEF FallbackInit, Inserting
  <1>2. IsFiniteSet(cache) /\ Cardinality(cache) = 0 /\ Cardinality(Inserting) = 0
    BY <1>1, FS_EmptySet
  <1> QED
    BY <1>2, FiniteInserting DEF SizeInv, SizeBound, FallbackAssumption

LEMMA SizeStep ==
    ASSUME FallbackAssumption, FallbackTypeOK, SizeInv, [FallbackNext]_vars
    PROVE  SizeInv'
  <1>0. /\ IsFiniteSet(cache) /\ Cardinality(cache) \in Nat
        /\ Cardinality(cache) + Cardinality(Inserting) < Bound + Cardinality(Primes)
        /\ Bound \in Nat \ {0}
    BY FS_CardinalityType DEF SizeInv, SizeBound, FallbackAssumption
  <1>1. ASSUME cache' = cache, Inserting' = Inserting
        PROVE  SizeInv'
    BY <1>1 DEF SizeInv, SizeBound
  <1>2. ASSUME NEW u \in Urls, WriteFile(u) \/ DeleteFile(u)
        PROVE  SizeInv'
    BY <1>1, <1>2 DEF WriteFile, DeleteFile, Inserting
  <1>3. ASSUME NEW p \in Primes, NEW u \in Urls, ProbeStamp(p, u)
        PROVE  SizeInv'
    <2>1. Inserting' = Inserting
      BY <1>3 DEF ProbeStamp, Inserting, FallbackTypeOK
    <2> QED
      BY <1>1, <1>3, <2>1 DEF ProbeStamp
  <1>4. ASSUME NEW p \in Primes, SkipFresh(p) \/ ReadText(p) \/ Converts(p)
        PROVE  SizeInv'
    <2>1. Inserting' = Inserting
      <3>1. CASE ReadText(p)
        BY <3>1, ReadAt DEF Inserting
      <3>2. CASE SkipFresh(p) \/ Converts(p)
        BY <3>2 DEF SkipFresh, Converts, Inserting, FallbackTypeOK, Prime
      <3> QED
        BY <1>4, <3>1, <3>2
    <2> QED
      BY <1>1, <1>4, <2>1 DEF SkipFresh, ReadText, Converts
  <1>5. ASSUME NEW p \in Primes, ClearAtBound(p)
        PROVE  SizeInv'
    <2>1. Inserting' \in SUBSET Primes
      BY DEF Inserting
    <2>2. Cardinality(Inserting') <= Cardinality(Primes) /\ Cardinality(Inserting') \in Nat
      BY <2>1, FS_Subset, FS_CardinalityType DEF FallbackAssumption
    <2>3. Cardinality(Primes) \in Nat
      BY FS_CardinalityType DEF FallbackAssumption
    <2>4. IsFiniteSet(cache') /\ Cardinality(cache') \in Nat /\ Cardinality(cache') < Bound
      <3>1. CASE Breached
        BY <1>0, <1>5, <3>1, FS_EmptySet DEF ClearAtBound
      <3>2. CASE ~Breached
        BY <1>0, <1>5, <3>2 DEF ClearAtBound, Breached
      <3> QED
        BY <3>1, <3>2
    <2> QED
      BY <1>0, <2>2, <2>3, <2>4 DEF SizeInv, SizeBound
  <1>6. ASSUME NEW p \in Primes, InsertSnapshot(p)
        PROVE  SizeInv'
    <2>1. p \in Inserting /\ Inserting' = Inserting \ {p}
      BY <1>6 DEF InsertSnapshot, Inserting, FallbackTypeOK, Prime
    <2>2. Cardinality(Inserting') = Cardinality(Inserting) - 1
      <3>1. IsFiniteSet(Inserting)
        BY FiniteInserting
      <3>2. Cardinality(Inserting \ {p}) = Cardinality(Inserting) - 1
        BY <2>1, <3>1, FS_RemoveElement
      <3> QED
        BY <2>1, <3>2
    <2>3. IsFiniteSet(cache') /\ Cardinality(cache') <= Cardinality(cache) + 1
      <3> DEFINE url == prime[p].url
      <3>1. cache' = cache \cup {url}
        BY <1>6 DEF InsertSnapshot
      <3> HIDE DEF url
      <3>2. /\ IsFiniteSet(cache \cup {url})
            /\ Cardinality(cache \cup {url}) \in {Cardinality(cache), Cardinality(cache) + 1}
        BY <1>0, FS_AddElement
      <3> QED
        BY <1>0, <3>1, <3>2
    <2>4. Cardinality(cache') \in Nat
      BY <2>3, FS_CardinalityType
    <2> QED
      BY <1>0, <2>2, <2>3, <2>4, FiniteInserting DEF SizeInv, SizeBound
  <1>7. CASE UNCHANGED vars
    BY <1>1, <1>7 DEF vars, Inserting
  <1> QED
    BY <1>2, <1>3, <1>4, <1>5, <1>6, <1>7 DEF FallbackNext

\* The cache outgrows its bound by fewer entries than there are primes at
\* once, however many they are: the check and the insertion are two steps.
THEOREM FallbackSize == FallbackSpec => []SizeBound
  <1>1. FallbackInit => SizeInv
    BY FallbackAssumption, SizeInit
  <1>2. FallbackTypeOK /\ SizeInv /\ [FallbackNext]_vars => SizeInv'
    BY FallbackAssumption, SizeStep
  <1>3. SizeInv => SizeBound
    BY DEF SizeInv
  <1> QED
    BY <1>1, <1>2, <1>3, FallbackTypes, PTL DEF FallbackSpec

-----------------------------------------------------------------------------
(* The stamp *)

\* A text with the stamp of the present file is the file's.
Sound(file, stamp, text) == (file # Missing /\ stamp = file) => text = file

\* SnapshotCurrent holds of what is about to be inserted as well, and no
\* stamp is of a write to come.
StampInv ==
    /\ \A u \in Urls : disk[u] <= clock
    /\ \A u \in cache : snapshot[u].stamp <= clock
                        /\ Sound(disk[u], snapshot[u].stamp, snapshot[u].text)
    /\ \A p \in Primes : prime[p].stamp <= clock
    /\ \A p \in Primes : prime[p].pc \in {"read", "cleared"} =>
                         Sound(disk[prime[p].url], prime[p].stamp, prime[p].text)

LEMMA StampInit ==
    ASSUME FallbackInit
    PROVE  StampInv
  BY DEF FallbackInit, StampInv, Missing

\* A write makes every stamp there is another write's.
LEMMA WriteOutdates ==
    ASSUME FallbackAssumption, FallbackTypeOK, NEW w \in Urls, WriteFile(w) \/ DeleteFile(w),
           NEW u \in Urls, NEW stamp \in Tick, NEW text, stamp <= clock,
           Sound(disk[u], stamp, text)
    PROVE  Sound(disk'[u], stamp, text) /\ stamp <= clock'
  <1>1. u # w => disk'[u] = disk[u]
    BY DEF WriteFile, DeleteFile, FallbackTypeOK
  <1>2. disk'[w] = Missing \/ disk'[w] = clock + 1
    BY DEF WriteFile, DeleteFile, FallbackTypeOK
  <1>3. clock \in Nat /\ stamp \in Nat /\ clock' \in {clock, clock + 1}
    BY TickFacts DEF WriteFile, DeleteFile, FallbackTypeOK
  <1> QED
    BY <1>1, <1>2, <1>3 DEF Sound

LEMMA StampStep ==
    ASSUME FallbackAssumption, FallbackTypeOK, StampInv, [FallbackNext]_vars
    PROVE  StampInv'
  <1>1. ASSUME NEW w \in Urls, WriteFile(w) \/ DeleteFile(w)
        PROVE  StampInv'
    <2>1. UNCHANGED <<cache, snapshot, prime>>
      BY <1>1 DEF WriteFile, DeleteFile
    <2>2. ASSUME NEW u \in Urls
          PROVE  disk'[u] <= clock'
      <3>1. clock \in Nat /\ clock' \in {clock, clock + 1} /\ disk[u] \in Nat
        BY <1>1, TickFacts DEF WriteFile, DeleteFile, FallbackTypeOK
      <3>2. disk'[u] \in {disk[u], Missing} \/ (disk'[u] = clock + 1 /\ clock' = clock + 1)
        BY <1>1 DEF WriteFile, DeleteFile, FallbackTypeOK
      <3> QED
        BY <3>1, <3>2 DEF StampInv, Missing
    <2>3. ASSUME NEW u \in cache
          PROVE  /\ snapshot[u].stamp <= clock'
                 /\ Sound(disk'[u], snapshot[u].stamp, snapshot[u].text)
      <3>1. u \in Urls /\ snapshot[u].stamp \in Tick
        BY DEF FallbackTypeOK, Pair
      <3> QED
        BY <1>1, <3>1, WriteOutdates DEF StampInv
    <2>4. ASSUME NEW p \in Primes, prime[p].pc \in {"read", "cleared"}
          PROVE  Sound(disk'[prime[p].url], prime[p].stamp, prime[p].text)
      BY <1>1, <2>4, PrimeTypes, WriteOutdates DEF StampInv
    <2>5. ASSUME NEW p \in Primes
          PROVE  prime[p].stamp <= clock'
      <3>1. clock \in Nat /\ clock' \in {clock, clock + 1} /\ prime[p].stamp \in Nat
        BY <1>1, PrimeTypes, TickFacts DEF WriteFile, DeleteFile, FallbackTypeOK
      <3> QED
        BY <3>1 DEF StampInv
    <2> QED
      BY <2>1, <2>2, <2>3, <2>4, <2>5 DEF StampInv
  <1>2. ASSUME NEW p \in Primes, NEW u \in Urls, ProbeStamp(p, u)
        PROVE  StampInv'
    <2>1. /\ prime'[p].stamp = disk[u] /\ prime'[p].pc = "probed"
          /\ \A q \in Primes \ {p} : prime'[q] = prime[q]
          /\ UNCHANGED <<disk, clock, cache, snapshot>>
      BY <1>2 DEF ProbeStamp, FallbackTypeOK
    <2> QED
      BY <2>1 DEF StampInv
  <1>3. ASSUME NEW p \in Primes, SkipFresh(p) \/ Converts(p)
        PROVE  StampInv'
    <2>1. /\ prime'[p].stamp \in {prime[p].stamp, Missing}
          /\ prime'[p].pc \in {"primed", "idle"}
          /\ \A q \in Primes \ {p} : prime'[q] = prime[q]
          /\ UNCHANGED <<disk, clock, cache, snapshot>>
      <3>1. CASE SkipFresh(p)
        BY <3>1 DEF SkipFresh, FallbackTypeOK, Prime
      <3>2. CASE Converts(p)
        BY <3>2, ConvertsAt DEF Converts
      <3> QED
        BY <1>3, <3>1, <3>2
    <2>2. clock \in Nat
      BY TickFacts DEF FallbackTypeOK
    <2> QED
      BY <2>1, <2>2 DEF StampInv, Missing
  <1>4. ASSUME NEW p \in Primes, ReadText(p)
        PROVE  StampInv'
    <2>1. UNCHANGED <<disk, clock, cache, snapshot>>
      BY <1>4 DEF ReadText
    <2> QED
      BY <1>4, <2>1, ReadAt DEF StampInv, Sound
  <1>5. ASSUME NEW p \in Primes, ClearAtBound(p)
        PROVE  StampInv'
    <2>1. /\ prime'[p].stamp = prime[p].stamp /\ prime'[p].url = prime[p].url
          /\ prime'[p].text = prime[p].text /\ prime[p].pc = "read"
          /\ \A q \in Primes \ {p} : prime'[q] = prime[q]
      BY <1>5 DEF ClearAtBound, FallbackTypeOK, Prime
    <2>2. /\ cache' \subseteq cache /\ (cache' = {} \/ snapshot' = snapshot)
          /\ UNCHANGED <<disk, clock>>
      BY <1>5 DEF ClearAtBound
    <2> QED
      BY <2>1, <2>2 DEF StampInv
  <1>6. ASSUME NEW p \in Primes, InsertSnapshot(p)
        PROVE  StampInv'
    <2>1. /\ prime'[p].stamp = prime[p].stamp /\ prime'[p].pc = "primed"
          /\ \A q \in Primes \ {p} : prime'[q] = prime[q]
          /\ prime[p].pc = "cleared"
          /\ UNCHANGED <<disk, clock>>
      BY <1>6 DEF InsertSnapshot, FallbackTypeOK, Prime
    <2> DEFINE url == prime[p].url
    <2>2. /\ cache' = cache \cup {url}
          /\ snapshot'[url].stamp = prime[p].stamp /\ snapshot'[url].text = prime[p].text
          /\ \A u \in Urls \ {url} : snapshot'[u] = snapshot[u]
      BY <1>6, PrimeTypes DEF InsertSnapshot, FallbackTypeOK
    <2>3. cache \subseteq Urls
      BY DEF FallbackTypeOK
    <2> QED
      BY <2>1, <2>2, <2>3 DEF StampInv
  <1>7. CASE UNCHANGED vars
    BY <1>7 DEF vars, StampInv
  <1> QED
    BY <1>1, <1>2, <1>3, <1>4, <1>5, <1>6, <1>7 DEF FallbackNext

\* The stamp is probed before the text is read, so for any number of primes
\* and writes between them a snapshot with the file's stamp has its text.
THEOREM FallbackSnapshotCurrent == FallbackSpec => []SnapshotCurrent
  <1>1. FallbackInit => StampInv
    BY StampInit
  <1>2. FallbackTypeOK /\ StampInv /\ [FallbackNext]_vars => StampInv'
    BY FallbackAssumption, StampStep
  <1>3. StampInv => SnapshotCurrent
    BY DEF StampInv, SnapshotCurrent, Sound
  <1> QED
    BY <1>1, <1>2, <1>3, FallbackTypes, PTL DEF FallbackSpec

-----------------------------------------------------------------------------
(* The requests beside the cache *)

\* A step of Requests is a step of the cache, but for the clock that
\* StoreInstalls moves.
ClockTicks ==
    /\ clock < MaxClock
    /\ clock' = clock + 1
    /\ UNCHANGED <<disk, cache, snapshot, prime>>

LEMMA RequestsStepsCache ==
    ASSUME [RequestsNext]_requestVars
    PROVE  [FallbackNext]_vars \/ ClockTicks
  <1>1. CASE UNCHANGED requestVars
    BY <1>1 DEF requestVars
  <1>2. ASSUME NEW r \in Requests, NEW shape \in Shapes, NEW u \in Urls, NEW other \in Urls,
               Arrives(r, shape, u, other)
        PROVE  UNCHANGED vars
    BY <1>2 DEF Arrives
  <1>3. ASSUME NEW p \in Primes, PrimeStep(p) \/ Primed(p)
        PROVE  FallbackNext
    <2>1. CASE PrimeStep(p)
      BY <2>1 DEF PrimeStep, FallbackNext
    <2>2. CASE Primed(p)
      BY <2>2 DEF Primed, FallbackNext
    <2> QED
      BY <1>3, <2>1, <2>2
  <1>4. ASSUME NEW r \in Requests,
               \/ PoolConvertsParams(r) \/ HandlerAnswers(r) \/ HandlerFails(r)
               \/ ContentModified(r) \/ Replies(r) \/ PoolReplies(r) \/ Cancelled(r)
        PROVE  UNCHANGED vars
    BY <1>4 DEF PoolConvertsParams, HandlerAnswers, HandlerFails, ContentModified, Replies,
                PoolReplies, Cancelled
  <1>5. CASE DiskMoves
    BY <1>5 DEF DiskMoves, FallbackNext
  <1>6. ASSUME NEW u \in Urls, StoreInstalls(u) \/ StoreRemoves(u)
        PROVE  ClockTicks \/ UNCHANGED vars
    BY <1>6 DEF StoreInstalls, StoreRemoves, ClockTicks
  <1> QED
    BY <1>1, <1>2, <1>3, <1>4, <1>5, <1>6 DEF RequestsNext

\* What holds of the cache does so whatever time it is.
LEMMA TickKeeps ==
    ASSUME FallbackAssumption, FallbackTypeOK, SizeInv, StampInv, ClockTicks
    PROVE  FallbackTypeOK' /\ SizeInv' /\ StampInv'
  <1>1. clock \in Nat /\ clock' = clock + 1 /\ clock' \in Tick
    BY DEF ClockTicks, FallbackTypeOK, FallbackAssumption, Tick
  <1>2. FallbackTypeOK'
    BY <1>1 DEF ClockTicks, FallbackTypeOK
  <1>3. SizeInv'
    BY DEF ClockTicks, SizeInv, SizeBound, Inserting
  <1>4. \A u \in Urls : disk[u] \in Nat /\ disk[u] <= clock
    BY TickFacts DEF FallbackTypeOK, StampInv
  <1>5. \A u \in cache : snapshot[u].stamp \in Nat /\ snapshot[u].stamp <= clock
    BY TickFacts DEF FallbackTypeOK, StampInv, Pair
  <1>6. \A p \in Primes : prime[p].stamp \in Nat /\ prime[p].stamp <= clock
    BY TickFacts, PrimeTypes DEF StampInv
  <1>7. StampInv'
    BY <1>1, <1>4, <1>5, <1>6 DEF ClockTicks, StampInv
  <1> QED
    BY <1>2, <1>3, <1>7

LEMMA CacheInvariant ==
    RequestsSpec => [](FallbackTypeOK /\ SizeInv /\ StampInv)
  <1>1. RequestsInit => FallbackTypeOK /\ SizeInv /\ StampInv
    BY FallbackAssumption, FallbackTypeInit, SizeInit, StampInit DEF RequestsInit
  <1>2. ASSUME FallbackTypeOK, SizeInv, StampInv, [RequestsNext]_requestVars
        PROVE  FallbackTypeOK' /\ SizeInv' /\ StampInv'
    <2>1. CASE [FallbackNext]_vars
      BY <2>1, <1>2, FallbackAssumption, FallbackTypeStep, SizeStep, StampStep
    <2>2. CASE ClockTicks
      BY <2>2, <1>2, FallbackAssumption, TickKeeps
    <2> QED
      BY <2>1, <2>2, <1>2, RequestsStepsCache
  <1> QED
    BY <1>1, <1>2, PTL DEF RequestsSpec

\* The bound holds beside any number of requests that prime, are cancelled
\* and prime again: a cancelled request's closure still counts as a prime.
THEOREM RequestsSize == RequestsSpec => []SizeBound
  <1>1. SizeInv => SizeBound
    BY DEF SizeInv
  <1> QED
    BY <1>1, CacheInvariant, PTL

\* A snapshot with the file's stamp has its text, whatever the store installs
\* and the requests do meanwhile.
THEOREM RequestsSnapshotCurrent == RequestsSpec => []SnapshotCurrent
  <1>1. StampInv => SnapshotCurrent
    BY DEF StampInv, SnapshotCurrent, Sound
  <1> QED
    BY <1>1, CacheInvariant, PTL

-----------------------------------------------------------------------------
(* What a request knows of its document *)

\* A request that is underway.
Flight(pc, shape, url, other, version, doc, seen) ==
    [pc |-> pc, shape |-> shape, url |-> url, other |-> other, version |-> version,
     doc |-> doc, seen |-> seen]

IsFlight(rec) ==
    \E pc, version, doc, seen : \E shape \in Shapes, url, other \in Urls :
        rec = Flight(pc, shape, url, other, version, doc, seen)

\* A request about a document has its version and its text from the probe; a
\* handler that answers while the version is the probed one saw that text,
\* since nothing that is installed later brings an earlier text back.
Anchored(rec) ==
    (rec.pc \in {"params", "handle", "answered"} /\ rec.shape.document) =>
        /\ rec.version \in Tick /\ rec.version <= clock
        /\ rec.version # Missing => rec.doc = Snapshot(rec.url, rec.version)
        /\ rec.doc # NoDocument => rec.doc.url = rec.url
        /\ (rec.pc = "answered" /\ rec.version # Missing /\ documents[rec.url] = rec.version)
              => rec.seen[rec.url] = rec.version

DocumentInv ==
    /\ clock \in Tick
    /\ documents \in [Urls -> Tick]
    /\ \A u \in Urls : documents[u] <= clock
    /\ request = [r \in Requests |-> request[r]]
    /\ \A r \in Requests : \/ request[r] = Rest
                           \/ IsFlight(request[r]) /\ Anchored(request[r])

LEMMA FlightFields ==
    ASSUME NEW pc, NEW shape, NEW url, NEW other, NEW version, NEW doc, NEW seen
    PROVE  LET rec == Flight(pc, shape, url, other, version, doc, seen)
           IN  /\ rec.pc = pc /\ rec.shape = shape /\ rec.url = url /\ rec.other = other
               /\ rec.version = version /\ rec.doc = doc /\ rec.seen = seen
               /\ \A x : /\ [rec EXCEPT !.pc = x] = Flight(x, shape, url, other, version, doc, seen)
                         /\ [rec EXCEPT !.version = x] = Flight(pc, shape, url, other, x, doc, seen)
                         /\ [rec EXCEPT !.doc = x] = Flight(pc, shape, url, other, version, x, seen)
                         /\ [rec EXCEPT !.seen = x] = Flight(pc, shape, url, other, version, doc, x)
               /\ rec # Rest
  BY DEF Flight, Rest

\* Either version of the probe leaves the request with its document's text.
LEMMA ProbedIsAnchored ==
    ASSUME FallbackAssumption, DocumentInv, NEW rec, IsFlight(rec)
    PROVE  /\ IsFlight(Probed(rec)) /\ Anchored(Probed(rec))
           /\ Probed(rec).pc \in {"params", "handle"}
  <1>1. PICK pc, version, doc, seen :
             \E shape \in Shapes, url, other \in Urls :
                 rec = Flight(pc, shape, url, other, version, doc, seen)
    BY DEF IsFlight
  <1>2. PICK shape \in Shapes, url \in Urls, other \in Urls :
             rec = Flight(pc, shape, url, other, version, doc, seen)
    BY <1>1
  <1> DEFINE hop  == rec.shape.pool /\ (rec.shape.resolve \/ Sole # NoDocument)
             next == IF hop THEN "params" ELSE "handle"
             probe == IF rec.shape.document THEN documents[rec.url] ELSE Missing
             resolved == ConversionDocument(rec)
             probed == Flight(next, shape, url, other, probe, resolved, seen)
  <1>3. Probed(rec) = [rec EXCEPT !.pc = next, !.version = probe, !.doc = resolved]
    BY Zenon DEF Probed
  <1>4. next \in {"params", "handle"}
    OBVIOUS
  <1>5. rec.shape = shape /\ rec.url = url
    BY <1>2, FlightFields
  <1>6. shape.document => /\ probe = documents[url] /\ resolved = ForUrl(url)
    BY <1>5 DEF ConversionDocument
  <1> HIDE DEF hop, next, probe, resolved
  <1>7. Probed(rec) = probed
    <2>1. [rec EXCEPT !.pc = next, !.version = probe, !.doc = resolved] =
             [[[rec EXCEPT !.pc = next] EXCEPT !.version = probe] EXCEPT !.doc = resolved]
      OBVIOUS
    <2>2. [rec EXCEPT !.pc = next] = Flight(next, shape, url, other, version, doc, seen)
      BY <1>2, FlightFields
    <2>3. [Flight(next, shape, url, other, version, doc, seen) EXCEPT !.version = probe] =
             Flight(next, shape, url, other, probe, doc, seen)
      BY FlightFields
    <2>4. [Flight(next, shape, url, other, probe, doc, seen) EXCEPT !.doc = resolved] = probed
      BY FlightFields
    <2> QED
      BY <1>3, <2>1, <2>2, <2>3, <2>4
  <1>8. /\ probed.pc = next /\ probed.shape = shape /\ probed.url = url
        /\ probed.version = probe /\ probed.doc = resolved
    BY FlightFields
  <1>9. IsFlight(probed)
    BY DEF IsFlight
  <1> HIDE DEF probed
  <1>10. Anchored(probed)
    <2> SUFFICES ASSUME shape.document
                 PROVE  /\ probe \in Tick /\ probe <= clock
                        /\ probe # Missing => resolved = Snapshot(url, probe)
                        /\ resolved # NoDocument => resolved.url = url
      BY <1>4, <1>8 DEF Anchored
    <2>1. probe \in Tick /\ probe <= clock
      BY <1>6 DEF DocumentInv
    <2>2. probe # Missing => resolved = Snapshot(url, probe)
      BY <1>6 DEF ForUrl, Tracked
    <2>3. resolved \in {Snapshot(url, documents[url]), Snapshot(url, snapshot[url].text), NoDocument}
      BY <1>6 DEF ForUrl
    <2>4. resolved # NoDocument => resolved.url = url
      BY <2>3 DEF Snapshot
    <2> QED
      BY <2>1, <2>2, <2>4
  <1> QED
    BY <1>4, <1>7, <1>8, <1>9, <1>10

\* One request moves, the documents and the clock do not.
LEMMA RequestMoves ==
    ASSUME DocumentInv, NEW r \in Requests, UNCHANGED <<clock, documents>>,
           request' = [request EXCEPT ![r] = request'[r]],
           request'[r] = Rest \/ (IsFlight(request'[r]) /\ Anchored(request'[r]))
    PROVE  DocumentInv'
  <1>1. request = [q \in Requests |-> request[q]]
    BY DEF DocumentInv
  <1>2. /\ request' = [q \in Requests |-> request'[q]]
        /\ \A q \in Requests \ {r} : request'[q] = request[q]
    BY <1>1
  <1>3. ASSUME NEW q \in Requests
        PROVE  request'[q] = Rest \/ (IsFlight(request'[q]) /\ Anchored(request'[q]))
    <2>1. CASE q = r
      BY <2>1
    <2>2. CASE q # r
      <3>1. request'[q] = request[q]
        BY <1>2, <2>2
      <3> QED
        BY <3>1 DEF DocumentInv
    <2> QED
      BY <2>1, <2>2
  <1>4. ASSUME NEW q \in Requests
        PROVE  Anchored(request[q])' = Anchored(request'[q])
    BY DEF Anchored
  <1> QED
    BY <1>2, <1>3, <1>4 DEF DocumentInv, IsFlight

\* Time passes over a request.
LEMMA LaterClock ==
    ASSUME FallbackAssumption, DocumentInv, UNCHANGED <<documents, request>>,
           clock' = clock \/ (clock < MaxClock /\ clock' = clock + 1)
    PROVE  DocumentInv'
  <1>1. clock \in Nat /\ clock' \in Tick /\ clock' >= clock /\ clock' \in Nat
    BY DEF DocumentInv, Tick, FallbackAssumption
  <1>2. ASSUME NEW t \in Tick, t <= clock
        PROVE  t <= clock'
    BY <1>1, <1>2, TickFacts
  <1>3. \A u \in Urls : documents'[u] <= clock'
    BY <1>2 DEF DocumentInv
  <1>4. ASSUME NEW r \in Requests, Anchored(request[r])
        PROVE  Anchored(request[r])'
    BY <1>2, <1>4 DEF Anchored
  <1> QED
    BY <1>1, <1>3, <1>4 DEF DocumentInv, IsFlight

\* A text that is installed is no probed text, and none at all is none.
LEMMA StoreMoves ==
    ASSUME FallbackAssumption, DocumentInv, NEW u \in Urls, StoreInstalls(u) \/ StoreRemoves(u)
    PROVE  DocumentInv'
  <1>1. /\ UNCHANGED request /\ clock \in Nat /\ clock' \in Tick /\ clock' \in Nat
        /\ clock' >= clock /\ documents' \in [Urls -> Tick]
        /\ \A w \in Urls \ {u} : documents'[w] = documents[w]
        /\ documents'[u] = Missing \/ (documents'[u] = clock + 1 /\ clock' = clock + 1)
    BY TickFacts DEF StoreInstalls, StoreRemoves, vars, DocumentInv, Tick, FallbackAssumption
  <1>2. ASSUME NEW t \in Tick, t <= clock
        PROVE  t <= clock' /\ t # clock + 1
    BY <1>1, <1>2, TickFacts
  <1>3. \A w \in Urls : documents'[w] <= clock'
    BY <1>1, <1>2 DEF DocumentInv, Missing
  <1>4. ASSUME NEW r \in Requests, IsFlight(request[r]), Anchored(request[r])
        PROVE  Anchored(request[r])'
    <2>1. request[r].url \in Urls
      BY <1>4, FlightFields DEF IsFlight
    <2>2. ASSUME request[r].pc \in {"params", "handle", "answered"}, request[r].shape.document,
                 request[r].version # Missing, documents'[request[r].url] = request[r].version
          PROVE  documents[request[r].url] = request[r].version
      BY <1>1, <1>2, <1>4, <2>1, <2>2 DEF Anchored
    <2> QED
      BY <1>1, <1>2, <1>4, <2>2 DEF Anchored
  <1> QED
    BY <1>1, <1>3, <1>4 DEF DocumentInv, IsFlight

\* A request that is underway is a flight, with its fields.
LEMMA Underway ==
    ASSUME DocumentInv, NEW r \in Requests, request[r].pc # "idle"
    PROVE  IsFlight(request[r]) /\ Anchored(request[r])
  BY DEF DocumentInv, Rest

LEMMA DocumentStep ==
    ASSUME FallbackAssumption, RequestsAssumption, DocumentInv, [RequestsNext]_requestVars
    PROVE  DocumentInv'
  <1>1. ASSUME NEW r \in Requests, NEW shape \in Shapes, NEW u \in Urls, NEW other \in Urls,
               Arrives(r, shape, u, other)
        PROVE  DocumentInv'
    <2> DEFINE fresh == Flight("prime", shape, u, other, Missing, NoDocument, NothingSeen)
               primes == shape.document /\ ~Tracked(u)
               arrived == IF primes THEN fresh ELSE Probed(fresh)
    <2>1. request' = [request EXCEPT ![r] = arrived] /\ UNCHANGED <<clock, documents>>
      BY <1>1 DEF Arrives, Flight, vars
    <2>2. IsFlight(fresh) /\ fresh.pc = "prime"
      <3>1. fresh.pc = "prime"
        BY FlightFields
      <3>2. IsFlight(fresh)
        BY DEF IsFlight
      <3> QED
        BY <3>1, <3>2
    <2>3. Anchored(fresh)
      BY <2>2 DEF Anchored
    <2>4. IsFlight(Probed(fresh)) /\ Anchored(Probed(fresh))
      BY <2>2, ProbedIsAnchored
    <2>5. IsFlight(arrived) /\ Anchored(arrived)
      BY <2>2, <2>3, <2>4
    <2> HIDE DEF arrived
    <2>6. request'[r] = arrived
      BY <2>1 DEF DocumentInv
    <2> QED
      BY <2>1, <2>5, <2>6, RequestMoves
  <1>2. ASSUME NEW p \in Primes, PrimeStep(p)
        PROVE  DocumentInv'
    <2>1. UNCHANGED <<clock, documents, request>>
      BY <1>2 DEF PrimeStep, ProbeStamp, SkipFresh, ReadText, ClearAtBound, InsertSnapshot
    <2> QED
      BY <2>1 DEF DocumentInv, Anchored
  <1>3. ASSUME NEW p \in Primes, Primed(p)
        PROVE  DocumentInv'
    <2>1. UNCHANGED <<clock, documents>>
      BY <1>3 DEF Primed, Converts
    <2>2. CASE p \in Requests /\ ~AtRest(p)
      <3>1. IsFlight(request[p])
        BY <2>2, Underway DEF AtRest
      <3>2. request' = [request EXCEPT ![p] = Probed(request[p])]
        BY <1>3, <2>2 DEF Primed
      <3>3. request'[p] = Probed(request[p])
        BY <2>2, <3>2 DEF DocumentInv
      <3>4. IsFlight(Probed(request[p])) /\ Anchored(Probed(request[p]))
        BY <3>1, ProbedIsAnchored
      <3> QED
        BY <2>1, <2>2, <3>2, <3>3, <3>4, RequestMoves
    <2>3. CASE ~(p \in Requests /\ ~AtRest(p))
      BY <1>3, <2>1, <2>3 DEF Primed, DocumentInv, Anchored
    <2> QED
      BY <2>2, <2>3
  <1>4. ASSUME NEW r \in Requests, PoolConvertsParams(r)
        PROVE  DocumentInv'
    <2>1. /\ request' = [request EXCEPT ![r].pc = "handle"] /\ request[r].pc = "params"
          /\ UNCHANGED <<clock, documents>>
      BY <1>4 DEF PoolConvertsParams, vars
    <2>2. IsFlight(request[r]) /\ Anchored(request[r])
      BY <2>1, Underway
    <2>3. PICK pc, version, doc, seen :
               \E shape \in Shapes, url, other \in Urls :
                   request[r] = Flight(pc, shape, url, other, version, doc, seen)
      BY <2>2 DEF IsFlight
    <2>4. PICK shape \in Shapes, url \in Urls, other \in Urls :
               request[r] = Flight(pc, shape, url, other, version, doc, seen)
      BY <2>3
    <2> DEFINE next == Flight("handle", shape, url, other, version, doc, seen)
    <2>5. request'[r] = [request[r] EXCEPT !.pc = "handle"]
      BY <2>1 DEF DocumentInv
    <2>6. request'[r] = next
      BY <2>4, <2>5, FlightFields
    <2>7. /\ next.pc = "handle" /\ next.shape = request[r].shape /\ next.url = request[r].url
          /\ next.version = request[r].version /\ next.doc = request[r].doc
      <3>1. /\ request[r].shape = shape /\ request[r].url = url
            /\ request[r].version = version /\ request[r].doc = doc
        BY <2>4, FlightFields
      <3>2. /\ next.pc = "handle" /\ next.shape = shape /\ next.url = url
            /\ next.version = version /\ next.doc = doc
        BY FlightFields
      <3> QED
        BY <3>1, <3>2
    <2>8. IsFlight(next)
      BY DEF IsFlight
    <2> HIDE DEF next
    <2>9. Anchored(next)
      BY <2>1, <2>2, <2>7 DEF Anchored
    <2>10. request' = [request EXCEPT ![r] = request'[r]]
      BY <2>1, <2>5
    <2> QED
      BY <2>1, <2>6, <2>8, <2>9, <2>10, RequestMoves
  <1>5. ASSUME NEW r \in Requests, HandlerAnswers(r)
        PROVE  DocumentInv'
    <2> DEFINE sees == IF request[r].shape.document THEN documents ELSE NothingSeen
    <2>1. /\ request' = [request EXCEPT ![r].pc = "answered", ![r].seen = sees]
          /\ request[r].pc = "handle" /\ UNCHANGED <<clock, documents>>
      BY <1>5 DEF HandlerAnswers, vars
    <2>2. IsFlight(request[r]) /\ Anchored(request[r])
      BY <2>1, Underway
    <2>3. PICK pc, version, doc, seen :
               \E shape \in Shapes, url, other \in Urls :
                   request[r] = Flight(pc, shape, url, other, version, doc, seen)
      BY <2>2 DEF IsFlight
    <2>4. PICK shape \in Shapes, url \in Urls, other \in Urls :
               request[r] = Flight(pc, shape, url, other, version, doc, seen)
      BY <2>3
    <2>5. request[r].shape.document => sees = documents
      OBVIOUS
    <2> HIDE DEF sees
    <2> DEFINE next == Flight("answered", shape, url, other, version, doc, sees)
    <2>6. request'[r] = [[request[r] EXCEPT !.pc = "answered"] EXCEPT !.seen = sees]
      BY <2>1 DEF DocumentInv
    <2>7. request'[r] = next
      <3>1. [request[r] EXCEPT !.pc = "answered"] =
               Flight("answered", shape, url, other, version, doc, seen)
        <4>1. [Flight(pc, shape, url, other, version, doc, seen) EXCEPT !.pc = "answered"] =
                 Flight("answered", shape, url, other, version, doc, seen)
          BY FlightFields
        <4> QED
          BY <2>4, <4>1
      <3>2. [Flight("answered", shape, url, other, version, doc, seen) EXCEPT !.seen = sees] = next
        BY FlightFields
      <3> QED
        BY <2>6, <3>1, <3>2
    <2>8. /\ next.pc = "answered" /\ next.shape = request[r].shape /\ next.url = request[r].url
          /\ next.version = request[r].version /\ next.doc = request[r].doc /\ next.seen = sees
      <3>1. /\ request[r].shape = shape /\ request[r].url = url
            /\ request[r].version = version /\ request[r].doc = doc
        BY <2>4, FlightFields
      <3>2. /\ next.pc = "answered" /\ next.shape = shape /\ next.url = url
            /\ next.version = version /\ next.doc = doc /\ next.seen = sees
        BY FlightFields
      <3> QED
        BY <3>1, <3>2
    <2>9. IsFlight(next)
      BY DEF IsFlight
    <2> HIDE DEF next
    <2>10. Anchored(next)
      BY <2>1, <2>2, <2>5, <2>8 DEF Anchored
    <2>11. request' = [request EXCEPT ![r] = request'[r]]
      BY <2>1, <2>6 DEF DocumentInv
    <2> QED
      BY <2>1, <2>7, <2>9, <2>10, <2>11, RequestMoves
  <1>6. ASSUME NEW r \in Requests,
               HandlerFails(r) \/ ContentModified(r) \/ Replies(r) \/ PoolReplies(r) \/ Cancelled(r)
        PROVE  DocumentInv'
    <2>1. request' = [request EXCEPT ![r] = Rest] /\ UNCHANGED <<clock, documents>>
      BY <1>6 DEF HandlerFails, ContentModified, Replies, PoolReplies, Cancelled, vars
    <2>2. request'[r] = Rest
      BY <2>1 DEF DocumentInv
    <2> QED
      BY <2>1, <2>2, RequestMoves
  <1>7. CASE DiskMoves
    <2>1. /\ UNCHANGED <<documents, request>>
          /\ clock' = clock \/ (clock < MaxClock /\ clock' = clock + 1)
      BY <1>7 DEF DiskMoves, WriteFile, DeleteFile
    <2> QED
      BY <2>1, LaterClock
  <1>8. ASSUME NEW u \in Urls, StoreInstalls(u) \/ StoreRemoves(u)
        PROVE  DocumentInv'
    BY <1>8, StoreMoves
  <1>9. CASE UNCHANGED requestVars
    BY <1>9 DEF requestVars, vars, DocumentInv, Anchored
  <1> QED
    BY <1>1, <1>2, <1>3, <1>4, <1>5, <1>6, <1>7, <1>8, <1>9 DEF RequestsNext

LEMMA DocumentInvariant == RequestsSpec => []DocumentInv
  <1>1. RequestsInit => DocumentInv
    BY TickFacts, FallbackAssumption
       DEF RequestsInit, FallbackInit, DocumentInv, Missing, Tick
  <1>2. DocumentInv /\ [RequestsNext]_requestVars => DocumentInv'
    BY FallbackAssumption, RequestsAssumption, DocumentStep
  <1> QED
    BY <1>1, <1>2, PTL DEF RequestsSpec

\* What a reply about a document is converted against, and when.
LEMMA RepliesAnchored ==
    ASSUME DocumentInv, NEW r \in Requests, ResponsePasses(r), request[r].shape.document
    PROVE  LET rec == request[r]
           IN  /\ rec.shape \in Shapes /\ ~rec.shape.pool
               /\ rec.url \in Urls /\ rec.other \in Urls
               /\ rec.doc # NoDocument => rec.doc.url = rec.url
               /\ Tracked(rec.url) => rec.doc = Snapshot(rec.url, rec.seen[rec.url])
  <1>1. request[r].pc = "answered"
    BY DEF ResponsePasses, Replies, PoolReplies
  <1>2. IsFlight(request[r]) /\ Anchored(request[r])
    BY <1>1, Underway
  <1>3. request[r].shape \in Shapes /\ request[r].url \in Urls /\ request[r].other \in Urls
    BY <1>2, FlightFields DEF IsFlight
  <1>4. ~request[r].shape.pool /\ ~request[r].shape.resolve
    BY <1>3, DocumentRows
  <1>5. ~Stale(request[r])
    BY <1>4 DEF ResponsePasses, Replies, PoolReplies
  <1>6. Tracked(request[r].url) => request[r].doc = Snapshot(request[r].url, request[r].seen[request[r].url])
    BY <1>1, <1>2, <1>4, <1>5 DEF Stale, Tracked, Anchored
  <1> QED
    BY <1>1, <1>2, <1>3, <1>4, <1>6 DEF Anchored

\* The text the handler answered from is the one the columns of the answer
\* are counted in, for any number of requests and documents: the probed
\* version is compared after the answer, and no text ever comes back.
THEOREM RequestsCountAsSeen == RequestsSpec => AnswersCountedAsSeen
  <1> DEFINE Lies(rec, fate) == IF fate.lies = "named" THEN rec.other ELSE rec.url
  <1>1. ASSUME DocumentInv, NEW r \in Requests, ResponsePasses(r), request[r].shape.document,
               NEW fate \in Fates[request[r].shape]
                                 [ResponseDocument(request[r]) # NoDocument].response,
               fate.lies # "label", Tracked(Lies(request[r], fate)),
               \/ Lies(request[r], fate) = request[r].url
               \/ documents[Lies(request[r], fate)] = request[r].seen[Lies(request[r], fate)],
               NEW i \in Made(Counted(request[r], fate, ResponseDocument(request[r])))
        PROVE  Counted(request[r], fate, ResponseDocument(request[r]))[i] =
                  Snapshot(Lies(request[r], fate), request[r].seen[Lies(request[r], fate)])
    <2> DEFINE rec == request[r]
               uri == UriOf(rec, fate.lies)
    <2>1. ResponseDocument(rec) = rec.doc
      BY DEF ResponseDocument
    <2>2. i \in DOMAIN fate.hows
      BY <1>1 DEF Made, Counted
    <2>3. Counted(rec, fate, rec.doc)[i] = CountedIn(fate.hows[i], uri, rec.doc)
      BY <2>2 DEF Counted
    <2>4. /\ rec.shape \in Shapes /\ ~rec.shape.pool /\ rec.url \in Urls
          /\ rec.doc # NoDocument => rec.doc.url = rec.url
          /\ Tracked(rec.url) => rec.doc = Snapshot(rec.url, rec.seen[rec.url])
      BY <1>1, RepliesAnchored
    <2>5. rec.doc # NoDocument
      BY <1>1, <2>1, <2>2, <2>4, DocumentRows
    <2>6. \/ fate.hows[i] = "own" /\ fate.lies # "named"
          \/ fate.hows[i] = "at" /\ fate.lies \in {"named", "item"}
      BY <1>1, <2>1, <2>2, <2>4, <2>5, DocumentRows
    <2>7. CASE fate.hows[i] = "own"
      <3>1. CountedIn(fate.hows[i], uri, rec.doc) = rec.doc
        BY <2>7 DEF CountedIn
      <3> QED
        BY <1>1, <2>1, <2>3, <2>4, <2>6, <2>7, <3>1
    <2>8. CASE fate.hows[i] = "at"
      <3>1. CountedIn(fate.hows[i], uri, rec.doc) =
               IF uri # rec.doc.url /\ Tracked(uri) THEN Snapshot(uri, documents[uri]) ELSE rec.doc
        BY <2>8 DEF CountedIn
      <3>2. uri = Lies(rec, fate)
        BY <2>6, <2>8 DEF UriOf
      <3>3. rec.doc.url = rec.url
        BY <2>4, <2>5
      <3>4. CASE uri = rec.url
        BY <1>1, <2>1, <2>3, <2>4, <3>1, <3>2, <3>3, <3>4
      <3>5. CASE uri # rec.url
        BY <1>1, <2>1, <2>3, <3>1, <3>2, <3>3, <3>5
      <3> QED
        BY <3>4, <3>5
    <2> QED
      BY <2>6, <2>7, <2>8
  <1>2. DocumentInv /\ [RequestsNext]_requestVars =>
           [\A r \in Requests : (ResponsePasses(r) /\ request[r].shape.document) =>
               LET rec == request[r]
                   doc == ResponseDocument(rec)
               IN  \A fate \in Fates[rec.shape][doc # NoDocument].response :
                       LET lies == IF fate.lies = "named" THEN rec.other ELSE rec.url
                           counted == Counted(rec, fate, doc)
                       IN  (/\ fate.lies # "label" /\ Tracked(lies)
                            /\ lies = rec.url \/ documents[lies] = rec.seen[lies])
                               => \A i \in Made(counted) :
                                      counted[i] = Snapshot(lies, rec.seen[lies])]_requestVars
    BY Zenon, <1>1
  <1> QED
    BY <1>2, DocumentInvariant, PTL DEF RequestsSpec, AnswersCountedAsSeen
=============================================================================
