-------------------------- MODULE ConversionFallback --------------------------
(***************************************************************************)
(* The conversion-fallback cache (src/server/state/mod.rs): disk snapshots *)
(* of files the server does not track, filled on the blocking pool by      *)
(* prime_conversion_fallback and looked up by the request that primed, on  *)
(* the main loop.  Every step of a prime is a step of its own: the disk    *)
(* and the other primes move in between.                                   *)
(*                                                                         *)
(* A text is the tick of the write that made it and so is a stamp, as in   *)
(* DocumentStore.                                                          *)
(***************************************************************************)
EXTENDS Naturals, FiniteSets

CONSTANTS
    Urls,      \* the untracked file URLs
    Primes,    \* the requests that may prime together
    Bound,     \* CONVERSION_FALLBACK_BOUND
    MaxClock   \* bound on disk writes

ASSUME FallbackAssumption ==
    /\ IsFiniteSet(Primes)
    /\ Bound \in Nat \ {0}
    /\ MaxClock \in Nat

VARIABLES
    disk,      \* disk[u]: the tick of the write that made the file, or Missing
    clock,     \* the last tick used
    cache,     \* the cached URLs
    snapshot,  \* snapshot[u]: stamp and text of u's entry, if u is cached
    prime      \* prime[p]: where the prime of request p stands

vars == <<disk, clock, cache, snapshot, prime>>

Missing == 0
Tick    == 0..MaxClock
Pair    == [stamp: Tick, text: Tick]
Prime   == [pc: {"idle", "probed", "read", "cleared", "primed", "failed"},
            url: Urls, stamp: Tick, text: Tick]

FallbackTypeOK ==
    /\ disk \in [Urls -> Tick]
    /\ clock \in Tick
    /\ cache \in SUBSET Urls
    /\ snapshot \in [Urls -> Pair]
    /\ prime \in [Primes -> Prime]
    /\ \A p \in Primes : prime[p].pc \in {"read", "cleared"} => prime[p].text # Missing
    /\ \A u \in cache : snapshot[u].text # Missing

-----------------------------------------------------------------------------
NoSnapshots == [u \in Urls |-> [stamp |-> Missing, text |-> Missing]]

FallbackInit ==
    /\ disk \in [Urls -> {Missing}]
    /\ clock = 0
    /\ cache = {}
    /\ snapshot = NoSnapshots
    /\ prime \in [Primes -> [pc: {"idle"}, url: Urls, stamp: {Missing}, text: {Missing}]]

WriteFile(u) ==
    /\ clock < MaxClock
    /\ clock' = clock + 1
    /\ disk' = [disk EXCEPT ![u] = clock + 1]
    /\ UNCHANGED <<cache, snapshot, prime>>

DeleteFile(u) ==
    /\ disk' = [disk EXCEPT ![u] = Missing]
    /\ UNCHANGED <<clock, cache, snapshot, prime>>

\* The cached entry carries the probed stamp; a missing file probes as None,
\* and None equals None.
Skips(u, stamp) == u \in cache /\ snapshot[u].stamp = stamp

\* The metadata probe.
ProbeStamp(p, u) ==
    /\ prime[p].pc = "idle"
    /\ prime' = [prime EXCEPT ![p] = [pc |-> "probed", url |-> u, stamp |-> disk[u],
                                      text |-> Missing]]
    /\ UNCHANGED <<disk, clock, cache, snapshot>>

\* The entry is fresh: nothing to do.
SkipFresh(p) ==
    /\ prime[p].pc = "probed"
    /\ Skips(prime[p].url, prime[p].stamp)
    /\ prime' = [prime EXCEPT ![p].pc = "primed"]
    /\ UNCHANGED <<disk, clock, cache, snapshot>>

\* A file that cannot be read leaves the cache alone.
ReadText(p) ==
    /\ prime[p].pc = "probed"
    /\ ~Skips(prime[p].url, prime[p].stamp)
    /\ LET text == disk[prime[p].url]
           pc   == IF text = Missing THEN "failed" ELSE "read"
       IN  prime' = [prime EXCEPT ![p] = [@ EXCEPT !.pc = pc, !.text = text]]
    /\ UNCHANGED <<disk, clock, cache, snapshot>>

\* Mutant: the bound is met one entry late.
BreachedLate == Cardinality(cache) > Bound

Breached == Cardinality(cache) >= Bound

\* At the bound the whole map goes.
ClearAtBound(p) ==
    /\ prime[p].pc = "read"
    /\ prime' = [prime EXCEPT ![p].pc = "cleared"]
    /\ cache' = IF Breached THEN {} ELSE cache
    /\ snapshot' = IF Breached THEN NoSnapshots ELSE snapshot
    /\ UNCHANGED <<disk, clock>>

\* Mutant: the entry takes the stamp the file has by now.
InsertStampedNow(p) ==
    /\ prime[p].pc = "cleared"
    /\ prime' = [prime EXCEPT ![p].pc = "primed"]
    /\ cache' = cache \cup {prime[p].url}
    /\ snapshot' = [snapshot EXCEPT ![prime[p].url] =
                        [stamp |-> disk[prime[p].url], text |-> prime[p].text]]
    /\ UNCHANGED <<disk, clock>>

InsertSnapshot(p) ==
    /\ prime[p].pc = "cleared"
    /\ prime' = [prime EXCEPT ![p].pc = "primed"]
    /\ cache' = cache \cup {prime[p].url}
    /\ snapshot' = [snapshot EXCEPT ![prime[p].url] =
                        [stamp |-> prime[p].stamp, text |-> prime[p].text]]
    /\ UNCHANGED <<disk, clock>>

\* conversion_document, on the main loop: fallback_document finds what is
\* cached now.
Converts(p) ==
    /\ prime[p].pc \in {"primed", "failed"}
    /\ prime' = [prime EXCEPT ![p] = [@ EXCEPT !.pc = "idle",
                                               !.stamp = Missing,
                                               !.text = Missing]]
    /\ UNCHANGED <<disk, clock, cache, snapshot>>

FallbackNext ==
    \/ \E u \in Urls : WriteFile(u) \/ DeleteFile(u)
    \/ \E p \in Primes, u \in Urls : ProbeStamp(p, u)
    \/ \E p \in Primes : SkipFresh(p) \/ ReadText(p) \/ ClearAtBound(p) \/ InsertSnapshot(p)
                         \/ Converts(p)

FallbackSpec == FallbackInit /\ [][FallbackNext]_vars

-----------------------------------------------------------------------------
(* Properties *)

\* The check of the bound and the insertion are not atomic (mod.rs, "a bound
\* breach clears the whole map"): the cache can outgrow the bound, but only
\* by the primes between the two, and never by as many as there are.
Inserting == {p \in Primes : prime[p].pc = "cleared"}

SizeBound == Cardinality(cache) + Cardinality(Inserting) < Bound + Cardinality(Primes)

\* An entry whose stamp is the file's present one holds the file's present
\* text: read after its stamp was probed, a text is at worst newer than its
\* stamp, and then the next prime reads again.
SnapshotCurrent ==
    \A u \in cache : (disk[u] # Missing /\ snapshot[u].stamp = disk[u])
                         => snapshot[u].text = disk[u]
=============================================================================
