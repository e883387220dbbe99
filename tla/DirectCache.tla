------------------------------ MODULE DirectCache ------------------------------
(***************************************************************************)
(* aros-fetch/src/engine/archive_representation.rs and the acquisition of  *)
(* engine/cache.rs: processes that want one archive of a known size and    *)
(* digest, or any archive below a size, from a directory that they share.  *)
(*                                                                         *)
(* A payload is what it is worth to the reader: "right", of the declared   *)
(* digest; "repacked", the same tree in another archive; "wrong", another  *)
(* portable tree; "unportable".  The canonical form of the first two is    *)
(* "right" (CanonicalTar).  The directory has two places for an archive:   *)
(* the location itself and the normalized cache below it.                  *)
(***************************************************************************)
EXTENDS Naturals, Sequences

CONSTANTS
    AllProcs,
    Mirrors,   \* of an archive: a sequence of "local" and "https"
    Retries,   \* DIRECT_RETRIES
    MaxCrashes,
    Scenes     \* the mode of each process ("archive", "exact", "canonical" or "measured"),
               \* the ones that are offline, what somebody may put into the location, and
               \* which of "crash", "timeout" and "seed" happen

Payloads == {"right", "repacked", "wrong", "unportable"}
Places == {"location", "normalized"}

DirectAssumption ==
    /\ \A i \in DOMAIN Mirrors : Mirrors[i] \in {"local", "https"}
    /\ Retries \in Nat \ {0} /\ MaxCrashes \in Nat
    /\ \A s \in Scenes :
        /\ DOMAIN s.mode \subseteq AllProcs /\ s.offline \subseteq DOMAIN s.mode
        /\ \A p \in DOMAIN s.mode : s.mode[p] \in {"archive", "exact", "canonical", "measured"}
        /\ s.seeds \subseteq Payloads /\ s.env \subseteq {"crash", "timeout", "seed"}

VARIABLES
    scene,       \* one of Scenes
    pc, origin, attempt,
    staged,      \* what a process has transferred, not yet published
    integrity,   \* an origin has answered with the wrong bytes
    result,      \* what a process has returned: a payload, "failed", "integrity" or "none"
    lock,        \* of the archive in each place
    cache,       \* what is in each place
    crashes

Mode == scene.mode
Callers == DOMAIN Mode
Offline == scene.offline
Seeds == scene.seeds
Env == scene.env

vars == <<scene, pc, origin, attempt, staged, integrity, result, lock, cache, crashes>>
work == <<origin, attempt, staged, integrity>>

Nobody == "free"
None == "none"

(***************************************************************************)
(* DirectTypeOK: every variable has its type.                              *)
(***************************************************************************)
DirectTypeOK ==
    /\ scene \in Scenes
    /\ pc \in [Callers -> {"location", "look", "normalized", "look again", "origins", "lock",
                         "inspect", "send", "verify", "publish", "done", "crashed"}]
    /\ origin \in [Callers -> 1..(Len(Mirrors) + 1)] /\ attempt \in [Callers -> 0..Retries]
    /\ staged \in [Callers -> Payloads \cup {None}] /\ integrity \in [Callers -> BOOLEAN]
    /\ result \in [Callers -> Payloads \cup {None, "failed", "integrity"}]
    /\ lock \in [Places -> Callers \cup {Nobody}] /\ cache \in [Places -> Payloads \cup {None}]
    /\ crashes \in 0..MaxCrashes

First(p) == IF Mode[p] = "archive" THEN "location" ELSE "lock"

DirectInit ==
    /\ scene \in Scenes
    /\ pc = [p \in Callers |-> First(p)] /\ origin = [p \in Callers |-> 1]
    /\ attempt = [p \in Callers |-> 0] /\ staged = [p \in Callers |-> None]
    /\ integrity = [p \in Callers |-> FALSE] /\ result = [p \in Callers |-> None]
    /\ lock = [c \in Places |-> Nobody] /\ crashes = 0
    /\ \E s \in Seeds \cup {None} : cache = [c \in Places |-> IF c = "location" THEN s ELSE None]

Goto(p, step) == pc' = [pc EXCEPT ![p] = step]

\* Locks are given back with the guard, when their owner returns.
Unlocked(p) == [c \in Places |-> IF lock[c] = p THEN Nobody ELSE lock[c]]

Returns(p, what) ==
    /\ Goto(p, "done") /\ result' = [result EXCEPT ![p] = what] /\ lock' = Unlocked(p)

\* FetchLock::acquire_candidate
AcquireCandidate(p, place, at, then) ==
    /\ pc[p] = at /\ UNCHANGED <<work, cache, crashes>>
    /\ \/ lock[place] = Nobody /\ lock' = [lock EXCEPT ![place] = p] /\ Goto(p, then) /\ UNCHANGED result
       \/ "timeout" \in Env /\ lock[place] # Nobody /\ Returns(p, "failed")

\* snapshot_verified_cache_payload: the private copy is measured, not the file.
Verified(payload) == IF payload = "right" THEN payload ELSE "integrity"

(***************************************************************************)
(* fetch_canonical_archive                                                 *)
(***************************************************************************)

LockLocation(p) == AcquireCandidate(p, "location", "location", "look")
LockNormalized(p) == AcquireCandidate(p, "normalized", "normalized", "look again")

\* A bug: what is in the cache has been verified when it came there.
LookTrusting(p, place, at, next) ==
    /\ pc[p] = at /\ UNCHANGED <<work, cache, crashes>>
    /\ \/ cache[place] # None /\ Returns(p, cache[place])
       \/ cache[place] = None /\ Goto(p, next) /\ lock' = Unlocked(p) /\ UNCHANGED result

\* snapshot_canonical_cache_entry: what is there is right, or the command fails.
Look(p, place, at, next) ==
    /\ pc[p] = at /\ UNCHANGED <<work, cache, crashes>>
    /\ \/ cache[place] # None /\ Returns(p, Verified(cache[place]))
       \/ cache[place] = None /\ Goto(p, next) /\ lock' = Unlocked(p) /\ UNCHANGED result

LookInLocation(p) == Look(p, "location", "look", "normalized")
LookInNormalized(p) == Look(p, "normalized", "look again", "origins")

Skip(p) == origin' = [origin EXCEPT ![p] = @ + 1]

\* A local archive is declared: wrong bytes end the command, a missing file does not.
NextOrigin(p) ==
    /\ pc[p] = "origins" /\ UNCHANGED <<attempt, staged, integrity, cache, crashes>>
    /\ LET some == origin[p] <= Len(Mirrors) IN
       \/ ~ some /\ Returns(p, IF integrity[p] THEN "integrity" ELSE "failed") /\ UNCHANGED origin
       \/ some /\ Mirrors[origin[p]] = "local" /\ Skip(p) /\ UNCHANGED <<pc, result, lock>>
       \/ /\ some /\ Mirrors[origin[p]] = "local"
          /\ \E c \in Payloads : Returns(p, Verified(c)) /\ UNCHANGED origin
       \/ /\ some /\ Mirrors[origin[p]] = "https" /\ p \in Offline /\ Skip(p) /\ UNCHANGED <<pc, result, lock>>
       \/ /\ some /\ Mirrors[origin[p]] = "https" /\ p \notin Offline
          /\ Goto(p, "lock") /\ UNCHANGED <<origin, result, lock>>

\* An acquisition fails; an archive has other origins.
AcquisitionFails(p, why) ==
    /\ attempt' = [attempt EXCEPT ![p] = 0] /\ staged' = [staged EXCEPT ![p] = None]
    /\ UNCHANGED <<cache, crashes>>
    /\ \/ Mode[p] # "archive" /\ Returns(p, why) /\ UNCHANGED <<origin, integrity>>
       \/ /\ Mode[p] = "archive" /\ Skip(p) /\ Goto(p, "origins") /\ lock' = Unlocked(p)
          /\ integrity' = [integrity EXCEPT ![p] = @ \/ why = "integrity"] /\ UNCHANGED result

-----------------------------------------------------------------------------
(***************************************************************************)
(* acquire_https_cache_payload_with_normalization and                      *)
(* acquire_unverified_https_cache_payload                                  *)
(***************************************************************************)

Lock(p) ==
    \/ lock["normalized"] = Nobody /\ AcquireCandidate(p, "normalized", "lock", "inspect")
    \/ "timeout" \in Env /\ pc[p] = "lock" /\ lock["normalized"] # Nobody /\ AcquisitionFails(p, "failed")

\* snapshot_measured_cache_payload or snapshot_verified_cache_payload
Snapshot(p, payload) == IF Mode[p] = "measured" THEN payload ELSE Verified(payload)

Inspect(p) ==
    /\ pc[p] = "inspect"
    /\ LET seen == Snapshot(p, cache["normalized"]) IN
       \/ /\ cache["normalized"] # None /\ seen # "integrity"
          /\ Returns(p, seen) /\ UNCHANGED <<work, cache, crashes>>
       \/ cache["normalized"] # None /\ seen = "integrity" /\ AcquisitionFails(p, seen)
       \/ cache["normalized"] = None /\ p \in Offline /\ AcquisitionFails(p, "failed")
       \/ /\ cache["normalized"] = None /\ p \notin Offline /\ Goto(p, "send")
          /\ UNCHANGED <<work, result, lock, cache, crashes>>

\* One attempt: no answer, a broken transfer or too many bytes, or a whole payload.
Send(p) ==
    /\ pc[p] = "send"
    /\ \/ attempt[p] = Retries /\ AcquisitionFails(p, "failed")
       \/ /\ attempt[p] < Retries /\ attempt' = [attempt EXCEPT ![p] = @ + 1]
          /\ UNCHANGED <<pc, origin, staged, integrity, result, lock, cache, crashes>>
       \/ /\ attempt[p] < Retries /\ attempt' = [attempt EXCEPT ![p] = @ + 1]
          /\ \E c \in Payloads : staged' = [staged EXCEPT ![p] = c]
          /\ Goto(p, "verify") /\ UNCHANGED <<origin, integrity, result, lock, cache, crashes>>

\* canonicalize_tar_gzip (CanonicalTar)
Canonical(payload) == IF payload = "repacked" THEN "right" ELSE payload

\* What is staged now shall be published as this, or another attempt is made.
Accept(p, form) ==
    /\ Goto(p, "publish") /\ staged' = [staged EXCEPT ![p] = form]
    /\ UNCHANGED <<origin, attempt, integrity, result, lock, cache, crashes>>

Discard(p) ==
    /\ Goto(p, "send") /\ staged' = [staged EXCEPT ![p] = None]
    /\ UNCHANGED <<origin, attempt, integrity, result, lock, cache, crashes>>

VerifyMeasured(p) == pc[p] = "verify" /\ Mode[p] = "measured" /\ Accept(p, staged[p])

VerifyExact(p) ==
    /\ pc[p] = "verify" /\ Mode[p] = "exact"
    /\ (staged[p] = "right" /\ Accept(p, staged[p])) \/ (staged[p] # "right" /\ Discard(p))

\* An archive that has no canonical form ends the acquisition, another one an attempt.
VerifyCanonical(p) ==
    /\ pc[p] = "verify" /\ Mode[p] \in {"archive", "canonical"}
    /\ \/ staged[p] = "unportable" /\ AcquisitionFails(p, "integrity")
       \/ staged[p] \in {"right", "repacked"} /\ Accept(p, Canonical(staged[p]))
       \/ staged[p] = "wrong" /\ Discard(p)

\* publish_download_noclobber, and the snapshot of what is published then.
Publish(p) ==
    /\ pc[p] = "publish"
    /\ \/ cache["normalized"] # None /\ AcquisitionFails(p, "failed")
       \/ /\ cache["normalized"] = None /\ cache' = [cache EXCEPT !["normalized"] = staged[p]]
          /\ Returns(p, Snapshot(p, staged[p])) /\ UNCHANGED <<work, crashes>>

\* A crash gives the locks back and leaves what is published.
Crash(p) ==
    /\ "crash" \in Env /\ crashes < MaxCrashes /\ pc[p] \notin {"done", "crashed"}
    /\ crashes' = crashes + 1 /\ Goto(p, "crashed") /\ lock' = Unlocked(p)
    /\ UNCHANGED <<work, result, cache>>

Again(p) ==
    /\ pc[p] = "crashed" /\ Goto(p, First(p)) /\ origin' = [origin EXCEPT ![p] = 1]
    /\ attempt' = [attempt EXCEPT ![p] = 0] /\ staged' = [staged EXCEPT ![p] = None]
    /\ integrity' = [integrity EXCEPT ![p] = FALSE] /\ UNCHANGED <<result, lock, cache, crashes>>

\* Somebody follows the hint to seed the cache; they know nothing of locks.
SeedCache ==
    /\ "seed" \in Env /\ cache["normalized"] = None
    /\ \E s \in Seeds : cache' = [cache EXCEPT !["normalized"] = s]
    /\ UNCHANGED <<pc, work, result, lock, crashes>>

Step(p) ==
    \/ LockLocation(p) \/ LookInLocation(p) \/ LockNormalized(p) \/ LookInNormalized(p) \/ NextOrigin(p)
    \/ Lock(p) \/ Inspect(p) \/ Send(p) \/ VerifyMeasured(p) \/ VerifyExact(p)
    \/ VerifyCanonical(p) \/ Publish(p) \/ Again(p)

AllDone == \A p \in Callers : pc[p] = "done"

DirectNext ==
    /\ (\E p \in Callers : Step(p) \/ Crash(p)) \/ SeedCache \/ (AllDone /\ UNCHANGED vars)
    /\ UNCHANGED scene

DirectSpec == DirectInit /\ [][DirectNext]_vars /\ \A p \in AllProcs : WF_vars(p \in Callers /\ Step(p))

-----------------------------------------------------------------------------
(***************************************************************************)
(* ReturnsDeclared: what a caller with a declared digest is given has that *)
(* digest, whatever somebody else has put into the shared directory; and   *)
(* without a caller that measures only and without seeds, the normalized   *)
(* cache never holds anything else, at whatever moment a process ends.     *)
(***************************************************************************)
ReturnsDeclared ==
    /\ \A p \in Callers : Mode[p] # "measured" => result[p] \in {None, "right", "failed", "integrity"}
    /\ "seed" \notin Env /\ (\A p \in Callers : Mode[p] # "measured") => cache["normalized"] \in {None, "right"}

(***************************************************************************)
(* EverybodyReturns: every caller returns.                                 *)
(***************************************************************************)
EverybodyReturns == <>[]AllDone
=============================================================================
