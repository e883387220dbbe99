------------------------ MODULE CacheLifecycleProofs ------------------------
(***************************************************************************)
(* Proofs about CacheLifecycle, for any number of processes, objects and   *)
(* names, any selection of operations, and whether or not calls fail.      *)
(* First the types and what one process does as the others see it, then    *)
(* the steps of each operation with what its process has measured, and at  *)
(* the end the theorems about retention, leases, removals and receipts.    *)
(***************************************************************************)
EXTENDS CacheLifecycle, TLAPS

-----------------------------------------------------------------------------
(***************************************************************************)
(* Types.                                                                  *)
(***************************************************************************)

\* Constant facts about versions and receipts.
LEMMA VersionFacts ==
    /\ Absent \in Version /\ Damaged \in Version /\ 2 \in Version
    /\ NoReceipt \in Receipt
    /\ \A o \in Object : NoReceipt[o] = Absent
  BY CacheAssumption DEF Absent, Damaged, Version, NoReceipt, Receipt

\* A new job is a job.
LEMMA NewJobType ==
    ASSUME NEW kind \in Kinds, NEW objs \in SUBSET Object, NEW force \in BOOLEAN,
           NEW n \in Name \cup {NoName}, NEW token \in Token \cup {NoToken}
    PROVE  NewJob(kind, objs, force, n, token) \in Job
  BY VersionFacts, Zenon DEF NewJob, Job

\* What is left of a process when its operation is over.
LEMMA DoneTypes ==
    ASSUME TypeOK, NEW p \in Process, Done(p)
    PROVE  /\ pc' \in [Process -> Steps]
           /\ job' \in [Process -> Job]
           /\ shared' \in [Process -> SUBSET Object]
           /\ exclusive' \in [Process -> SUBSET Object]
<1>1. IdleJob(p) \in Job
  BY NewJobType, ZenonT(40) DEF IdleJob, Kinds
<1> QED BY <1>1, Zenon DEF TypeOK, Done, Steps

\* The fields of a process's job.
LEMMA JobFields ==
    ASSUME TypeOK, NEW p \in Process
    PROVE  /\ job[p] \in Job
           /\ job[p].kind \in Kinds
           /\ job[p].objs \subseteq Object
           /\ job[p].force \in BOOLEAN
           /\ job[p].todo \subseteq Object
           /\ job[p].name \in Name \cup {NoName}
           /\ job[p].seen \in Receipt
           /\ job[p].unread \subseteq Name
           /\ job[p].token \in Token \cup {NoToken}
           /\ job[p].blockers \subseteq Name
  BY Zenon DEF TypeOK, Job

\* Beginning an operation.
LEMMA BeginTypes ==
    ASSUME TypeOK, NEW p \in Process, NEW step \in Steps, NEW kind \in Kinds,
           NEW objs \in SUBSET Object, NEW force \in BOOLEAN, NEW n \in Name \cup {NoName},
           NEW token \in Token \cup {NoToken}, Begin(p, step, kind, objs, force, n, token)
    PROVE  TypeOK'
<1>1. NewJob(kind, objs, force, n, token) \in Job
  BY NewJobType, Zenon
<1> QED BY <1>1, Zenon DEF TypeOK, Begin, Go, store, locks

\* Every way to start keeps the types.
LEMMA StartTypes ==
    ASSUME TypeOK, NEW p \in Process, Start(p)
    PROVE  TypeOK'
<1>0. /\ "lock" \in Steps /\ "measure" \in Steps /\ "compareReceipt" \in Steps
      /\ \A o \in Object : {o} \in SUBSET Object
      /\ NoName \in Name \cup {NoName} /\ NoToken \in Token \cup {NoToken}
      /\ FALSE \in BOOLEAN /\ {} \in SUBSET Object
  BY Zenon DEF Steps
<1>1. ASSUME NEW o \in Object, NEW force \in BOOLEAN, Obtain(p, o, force) PROVE TypeOK'
  <2>1. PICK kind \in {"open", "fetch"} : Begin(p, "lock", kind, {o}, force, NoName, NoToken)
    BY <1>1, Zenon DEF Obtain
  <2> QED BY <1>0, <2>1, BeginTypes, Zenon DEF Kinds
<1>2. ASSUME NEW objs \in SUBSET Object, OpenVerified(p, objs) \/ FetchRequest(p, objs)
      PROVE  TypeOK'
  <2>1. PICK kind \in {"open", "fetch"} : Begin(p, "lock", kind, objs, FALSE, NoName, NoToken)
    BY <1>2, ZenonT(40) DEF OpenVerified, FetchRequest
  <2> QED BY <1>0, <2>1, BeginTypes, ZenonT(40) DEF Kinds
<1>3. ASSUME NEW objs \in SUBSET Object, NEW n \in Name, Keep(p, objs, n) PROVE TypeOK'
  <2>1. "keep" \in Kinds /\ n \in Name \cup {NoName}
    BY Zenon DEF Kinds
  <2> QED BY <1>0, <1>3, <2>1, BeginTypes, ZenonT(40) DEF Keep
<1>4. ASSUME NEW o \in Object, PreviewRemoval(p, o) PROVE TypeOK'
  <2>1. "preview" \in Kinds
    BY Zenon DEF Kinds
  <2> QED BY <1>0, <1>4, <2>1, BeginTypes, ZenonT(40) DEF PreviewRemoval
<1>5. ASSUME NEW o \in Object, ApplyRemoval(p, o) PROVE TypeOK'
  <2>1. PICK t \in tokens \cap RemovalToken : Begin(p, "lock", "remove", {o}, FALSE, NoName, t)
    BY <1>5, ZenonT(40) DEF ApplyRemoval
  <2>2. "remove" \in Kinds /\ t \in Token \cup {NoToken}
    BY Zenon DEF Kinds, Token
  <2> QED BY <1>0, <2>1, <2>2, BeginTypes, ZenonT(40)
<1>6. ASSUME NEW n \in Name, PreviewRelease(p, n) PROVE TypeOK'
  <2>1. [name |-> n, receipt |-> receipt[n]] \in Token
    BY Zenon DEF TypeOK, Token, ReleaseToken
  <2> QED BY <1>6, <2>1, Zenon DEF TypeOK, PreviewRelease, Show, store, locks
<1>7. ASSUME NEW n \in Name, ApplyRelease(p, n) PROVE TypeOK'
  <2>1. PICK t \in tokens \cap ReleaseToken :
            Begin(p, "compareReceipt", "release", {}, FALSE, n, t)
    BY <1>7, ZenonT(40) DEF ApplyRelease
  <2>2. "release" \in Kinds /\ t \in Token \cup {NoToken} /\ n \in Name \cup {NoName}
    BY Zenon DEF Kinds, Token
  <2> QED BY <1>0, <2>1, <2>2, BeginTypes, ZenonT(40)
<1> QED BY <1>1, <1>2, <1>3, <1>4, <1>5, <1>6, <1>7, Zenon DEF Start

\* The updates of a job that the steps make.
LEMMA JobUpdates ==
    ASSUME TypeOK, NEW p \in Process, NEW s \in Receipt, NEW t \in SUBSET Object,
           NEW u \in SUBSET Name, NEW b \in SUBSET Name
    PROVE  /\ [job EXCEPT ![p].seen = s] \in [Process -> Job]
           /\ [job EXCEPT ![p].todo = t] \in [Process -> Job]
           /\ [job EXCEPT ![p].unread = u] \in [Process -> Job]
           /\ [job EXCEPT ![p].unread = u, ![p].blockers = b] \in [Process -> Job]
<1>1. job[p] \in Job
  BY Zenon DEF TypeOK
<1>2. [job[p] EXCEPT !.seen = s] \in Job /\ [job[p] EXCEPT !.todo = t] \in Job
  BY <1>1, Zenon DEF Job
<1>3. /\ [job[p] EXCEPT !.unread = u] \in Job
      /\ [job[p] EXCEPT !.unread = u, !.blockers = b] \in Job
  BY <1>1, ZenonT(40) DEF Job
<1> QED BY <1>2, <1>3, Zenon DEF TypeOK

\* Leases keep the types.
LEMMA LockTypes ==
    ASSUME TypeOK, NEW p \in Process, AcquireLock(p) \/ LockTaken(p)
    PROVE  TypeOK'
<1>1. CASE AcquireLock(p)
  <2>1. pc' \in [Process -> Steps]
    BY <1>1, Zenon DEF AcquireLock, Go, AfterLock, TypeOK, Steps
  <2>2. shared' \in [Process -> SUBSET Object] /\ exclusive' \in [Process -> SUBSET Object]
    BY <1>1 DEF AcquireLock, TypeOK
  <2> QED BY <1>1, <2>1, <2>2, Zenon DEF AcquireLock, TypeOK, store
<1>2. CASE LockTaken(p)
  BY <1>2, DoneTypes, Zenon DEF LockTaken, TypeOK, store
<1> QED BY <1>1, <1>2, Zenon

\* Reading and downloading keep the types.
LEMMA UseTypes ==
    ASSUME TypeOK, NEW p \in Process,
           \/ Preflight(p) \/ Download(p) \/ DownloadFails(p) \/ Downloaded(p)
           \/ Verify(p) \/ EndUse(p)
    PROVE  TypeOK'
<1>1. CASE Preflight(p)
  <2>1. CASE Done(p)
    BY <1>1, <2>1, DoneTypes, Zenon DEF Preflight, TypeOK, store
  <2>2. CASE ~ Done(p)
    <3>1. PICK t \in SUBSET Object : job' = [job EXCEPT ![p].todo = t]
      BY <1>1, <2>2, JobFields, ZenonT(40) DEF Preflight
    <3> QED BY <1>1, <2>2, <3>1, JobUpdates, VersionFacts, ZenonT(40)
             DEF Preflight, Go, TypeOK, store, locks, Steps
  <2> QED BY <2>1, <2>2, Zenon
<1>2. CASE Download(p)
  <2>1. PICK o \in job[p].todo : /\ object' = [object EXCEPT ![o] = written + 1]
                                 /\ job' = [job EXCEPT ![p].todo = @ \ {o}]
    BY <1>2, ZenonT(40) DEF Download
  <2>2. written + 1 \in Version /\ written' = written + 1
    BY <1>2, CacheAssumption DEF Download, TypeOK, Version
  <2>3. job' = [job EXCEPT ![p].todo = job[p].todo \ {o}]
    BY <2>1, Zenon
  <2>4. job' \in [Process -> Job]
    <3>1. job[p].todo \ {o} \in SUBSET Object /\ NoReceipt \in Receipt /\ {} \in SUBSET Name
      BY JobFields, VersionFacts, Zenon
    <3> QED BY <2>3, <3>1, JobUpdates, ZenonT(40)
  <2> QED BY <1>2, <2>1, <2>2, <2>4, ZenonT(40) DEF Download, Go, TypeOK, locks, Steps
<1>3. CASE DownloadFails(p) \/ EndUse(p)
  BY <1>3, DoneTypes, Zenon DEF DownloadFails, EndUse, TypeOK, store
<1>4. CASE Downloaded(p)
  BY <1>4, Zenon DEF Downloaded, Go, TypeOK, store, locks, Steps
<1>5. CASE Verify(p)
  <2>1. CASE Done(p)
    BY <1>5, <2>1, DoneTypes, Zenon DEF Verify, TypeOK, store
  <2>2. CASE ~ Done(p)
    <3>1. PICK s \in Receipt : job' = [job EXCEPT ![p].seen = s]
      BY <1>5, <2>2, VersionFacts, SMTT(60) DEF Verify, Receipt, TypeOK
    <3> QED BY <1>5, <2>2, <3>1, JobUpdates, ZenonT(40) DEF Verify, Go, TypeOK, store, locks, Steps
  <2> QED BY <2>1, <2>2, Zenon
<1> QED BY <1>1, <1>2, <1>3, <1>4, <1>5, Zenon

\* Keeping a selection keeps the types.
LEMMA KeepTypes ==
    ASSUME TypeOK, NEW p \in Process, Selected(p),
           \/ Validate(p) \/ LockJournal(p) \/ CheckName(p) \/ PublishReceipt(p) \/ RemoveJournal(p)
    PROVE  TypeOK'
<1>1. CASE Validate(p)
  <2>1. CASE Done(p)
    BY <1>1, <2>1, DoneTypes, Zenon DEF Validate, TypeOK, store
  <2>2. CASE ~ Done(p)
    <3>1. PICK s \in Receipt : job' = [job EXCEPT ![p].seen = s]
      BY <1>1, <2>2, VersionFacts, SMTT(60) DEF Validate, Receipt, TypeOK
    <3> QED BY <1>1, <2>2, <3>1, JobUpdates, ZenonT(40) DEF Validate, Go, TypeOK, store, locks, Steps
  <2> QED BY <2>1, <2>2, Zenon
<1>2. CASE LockJournal(p)
  BY <1>2, Zenon DEF LockJournal, Go, TypeOK, locks, Steps
<1>3. CASE CheckName(p)
  <2>1. CASE Done(p) /\ UNCHANGED journals
    BY <1>3, <2>1, DoneTypes, Zenon DEF CheckName, TypeOK
  <2>2. CASE ~ (Done(p) /\ UNCHANGED journals)
    <3>1. job[p].name \in Name
      BY <1>3, Zenon DEF CheckName, Selected
    <3> QED BY <1>3, <2>2, <3>1, SMTT(60) DEF CheckName, Go, TypeOK, locks, Steps
  <2> QED BY <2>1, <2>2, Zenon
<1>4. CASE PublishReceipt(p)
  BY <1>4, JobFields, ZenonT(40) DEF PublishReceipt, Go, TypeOK, locks, Steps
<1>5. CASE RemoveJournal(p)
  BY <1>5, DoneTypes, Zenon DEF RemoveJournal, TypeOK
<1> QED BY <1>1, <1>2, <1>3, <1>4, <1>5, Zenon

\* Removing an object keeps the types.
LEMMA RemoveTypes ==
    ASSUME TypeOK, NEW p \in Process,
           \/ Measure(p) \/ ListReceipts(p) \/ ReadReceipt(p) \/ ShowRemoval(p)
           \/ CompareToken(p) \/ RemoveObject(p) \/ RemoveRest(p)
    PROVE  TypeOK'
<1>0. {} \in SUBSET Name /\ {} \in SUBSET Object
  BY Zenon
<1>1. CASE Measure(p)
  <2>1. CASE Done(p)
    BY <1>1, <2>1, DoneTypes, Zenon DEF Measure, TypeOK, store
  <2>2. CASE ~ Done(p)
    <3>1. PICK s \in Receipt : job' = [job EXCEPT ![p].seen = s]
      BY <1>1, <2>2, VersionFacts, JobFields, ZenonT(40) DEF Measure, Receipt, TypeOK
    <3> QED BY <1>0, <1>1, <2>2, <3>1, JobUpdates, ZenonT(40) DEF Measure, TypeOK, store, locks, Steps
  <2> QED BY <2>1, <2>2, Zenon
<1>2. CASE ListReceipts(p)
  <2>1. CASE Done(p)
    BY <1>2, <2>1, DoneTypes, SMTT(60) DEF ListReceipts, TypeOK, store
  <2>2. CASE ~ Done(p)
    <3>1. PICK u \in SUBSET Name : job' = [job EXCEPT ![p].unread = u]
      BY <1>2, <2>2, Zenon DEF ListReceipts
    <3> QED BY <1>0, <1>2, <2>2, <3>1, JobUpdates, VersionFacts, ZenonT(40)
            DEF ListReceipts, Go, TypeOK, store, locks, Steps
  <2> QED BY <2>1, <2>2, Zenon
<1>3. CASE ReadReceipt(p)
  <2>1. CASE Done(p)
    BY <1>3, <2>1, DoneTypes, Zenon DEF ReadReceipt, TypeOK, store
  <2>2. CASE ~ Done(p)
    <3>1. PICK u \in SUBSET Name, b \in SUBSET Name :
              job' = [job EXCEPT ![p].unread = u, ![p].blockers = b]
      <4>1. PICK n \in job[p].unread, o \in job[p].objs :
                job' = [job EXCEPT ![p].unread = @ \ {n},
                            ![p].blockers = IF receipt[n][o] # Absent THEN @ \cup {n} ELSE @]
        BY <1>3, <2>2, ZenonT(40) DEF ReadReceipt
      <4>2. job' = [job EXCEPT ![p].unread = job[p].unread \ {n},
                       ![p].blockers = IF receipt[n][o] # Absent
                                       THEN job[p].blockers \cup {n} ELSE job[p].blockers]
        BY <4>1, Zenon
      <4> QED BY <4>2, JobFields, ZenonT(40)
    <3> QED BY <1>0, <1>3, <2>2, <3>1, JobUpdates, VersionFacts, ZenonT(40)
            DEF ReadReceipt, TypeOK, store, locks
  <2> QED BY <2>1, <2>2, Zenon
<1>4. CASE ShowRemoval(p)
  <2>1. \A o \in job[p].objs : TokenOf(p, o) \in Token
    BY JobFields DEF TokenOf, Token, RemovalToken, Receipt
  <2>2. tokens' \subseteq Token
    BY <1>4, <2>1, SMTT(60) DEF ShowRemoval, Show, TypeOK
  <2> QED BY <1>4, <2>2, DoneTypes, SMTT(60) DEF ShowRemoval, TypeOK, store
<1>5. CASE CompareToken(p)
  <2>1. CASE Done(p)
    BY <1>5, <2>1, DoneTypes, SMTT(60) DEF CompareToken, TypeOK, store
  <2>2. CASE ~ Done(p)
    BY <1>5, <2>2, SMTT(60) DEF CompareToken, Go, TypeOK, store, locks, Steps
  <2> QED BY <2>1, <2>2, Zenon
<1>6. CASE RemoveObject(p) \/ RemoveRest(p)
  <2>1. object' \in [Object -> Version]
    BY <1>6, VersionFacts, SMTT(60) DEF RemoveObject, RemoveRest, TypeOK
  <2>2. CASE Done(p)
    BY <1>6, <2>1, <2>2, DoneTypes, SMTT(60) DEF RemoveObject, RemoveRest, TypeOK
  <2>3. CASE ~ Done(p)
    BY <1>6, <2>1, <2>3, Zenon DEF RemoveObject, RemoveRest, Go, TypeOK, locks, Steps
  <2> QED BY <2>2, <2>3, Zenon
<1> QED BY <1>1, <1>2, <1>3, <1>4, <1>5, <1>6, Zenon

\* Releasing a receipt keeps the types.
LEMMA ReleaseTypes ==
    ASSUME TypeOK, NEW p \in Process, Selected(p), CompareReceipt(p) \/ RemoveReceipt(p)
    PROVE  TypeOK'
<1>1. CASE CompareReceipt(p)
  <2>1. CASE Done(p)
    BY <1>1, <2>1, DoneTypes, Zenon DEF CompareReceipt, TypeOK, store
  <2>2. CASE ~ Done(p)
    <3>1. receipt[job[p].name] \in Receipt
      BY <1>1, Zenon DEF CompareReceipt, Selected, TypeOK
    <3>2. {} \in SUBSET Name /\ {} \in SUBSET Object
      BY Zenon
    <3>3. job' = [job EXCEPT ![p].seen = receipt[job[p].name]]
      BY <1>1, <2>2, Zenon DEF CompareReceipt
    <3>4. job' \in [Process -> Job]
      BY <3>1, <3>2, <3>3, JobUpdates, ZenonT(40)
    <3> QED BY <1>1, <2>2, <3>4, Zenon DEF CompareReceipt, Go, TypeOK, store, locks, Steps
  <2> QED BY <2>1, <2>2, Zenon
<1>2. CASE RemoveReceipt(p)
  <2>1. receipt' \in [Name -> Receipt]
    BY <1>2, VersionFacts, ZenonT(40) DEF RemoveReceipt, TypeOK
  <2> QED BY <1>2, <2>1, DoneTypes, Zenon DEF RemoveReceipt, TypeOK
<1> QED BY <1>1, <1>2, Zenon

\* Every step keeps the types.
LEMMA NextTypes ==
    ASSUME TypeOK, \A p \in Process : Selected(p), [Next]_vars
    PROVE  TypeOK'
<1>1. CASE UNCHANGED vars
  BY <1>1, Zenon DEF vars, store, locks, TypeOK
<1>2. ASSUME NEW p \in Process, Start(p) PROVE TypeOK'
  BY <1>2, StartTypes, Zenon
<1>3. ASSUME NEW p \in Process, Continue(p) PROVE TypeOK'
  BY <1>3, LockTypes, UseTypes, KeepTypes, RemoveTypes, ReleaseTypes, Zenon DEF Continue
<1>4. ASSUME NEW p \in Process, Stop(p) PROVE TypeOK'
  BY <1>4, DoneTypes, Zenon DEF Stop, TypeOK, store
<1>5. CASE Expire
  BY <1>5, Zenon DEF Expire, TypeOK, store, locks
<1> QED BY <1>1, <1>2, <1>3, <1>4, <1>5, Zenon DEF Next

-----------------------------------------------------------------------------
(***************************************************************************)
(* What one process does, as another sees it.                              *)
(***************************************************************************)

\* p changes nothing of any other process.
Alone(p) ==
    \A q \in Process \ {p} :
        /\ pc'[q] = pc[q] /\ job'[q] = job[q]
        /\ shared'[q] = shared[q] /\ exclusive'[q] = exclusive[q]

\* p changes an object, or retains it, only with an exclusive lock on it.
Guarded(p) ==
    /\ \A o \in Object : object'[o] # object[o] => o \in exclusive[p]
    /\ \A n \in Name, o \in Object :
          receipt'[n][o] \in {receipt[n][o], Absent} \/ o \in exclusive[p]

\* The version counter is past the damaged one.
LEMMA WrittenBound ==
    ASSUME TypeOK, CacheInv
    PROVE  written \in Int /\ written > Damaged
<1>1. written \in Version
  BY Zenon DEF TypeOK
<1>2. written > Damaged
  BY Zenon DEF CacheInv
<1>3. Version \subseteq Int
  BY CacheAssumption DEF Version
<1> QED BY <1>1, <1>2, <1>3, Zenon

\* What the steps of p leave alone keeps the invariant of the others.
LEMMA OthersInv ==
    ASSUME TypeOK, CacheInv, NEW p \in Process, Alone(p), Guarded(p), NEW q \in Process \ {p}
    PROVE  ProcessInv(q)'
<1>0. /\ pc'[q] = pc[q] /\ job'[q] = job[q]
      /\ shared'[q] = shared[q] /\ exclusive'[q] = exclusive[q]
  BY Zenon DEF Alone
<1>1. Holds(q) /\ Selected(q) /\ Measured(q) /\ Cleared(q)
  BY Zenon DEF CacheInv, ProcessInv
<1>2. job[q].objs \subseteq Object
  BY JobFields, Zenon
<1>3. \A o \in Object : o \in exclusive[q] \cup shared[q] => object'[o] = object[o]
  BY Zenon DEF CacheInv, Exclusion, Guarded
<1>4. \A o \in Object, n \in Name : o \in exclusive[q] =>
          receipt'[n][o] \in {receipt[n][o], Absent}
  BY DEF CacheInv, Exclusion, Guarded
<1>5. Holds(q)' /\ Selected(q)'
  BY <1>0, <1>1, SMTT(60) DEF Holds, Selected
<1>6. Measured(q)'
  <2>1. \A o \in job[q].objs : o \in exclusive[q] \cup shared[q] => object'[o] = object[o]
    BY <1>2, <1>3, Zenon
  <2>2. pc[q] \in Owning \cup {"using"} => \A o \in job[q].objs : object'[o] = object[o]
    BY <1>1, <2>1, Zenon DEF Holds, Owning
  <2>3. pc[q] \in {"list", "read"} /\ job[q].kind = "remove" =>
            \A o \in job[q].objs : object'[o] = object[o]
    BY <1>1, <2>1, Zenon DEF Holds
  <2> QED BY <1>0, <1>1, <2>2, <2>3 DEF Measured, Owning
<1>7. Cleared(q)'
  <2>1. pc[q] \in Owning \/ (pc[q] = "read" /\ job[q].kind = "remove") =>
            \A o \in job[q].objs, n \in Name : receipt'[n][o] \in {receipt[n][o], Absent}
    BY <1>1, <1>2, <1>4, Zenon DEF Holds
  <2> QED BY <1>0, <1>1, <2>1, Zenon DEF Cleared, Owning
<1> QED BY <1>5, <1>6, <1>7, Zenon DEF ProcessInv

\* So it is enough to look at p, at the locks and at what is retained.
LEMMA StepInv ==
    ASSUME TypeOK, CacheInv, NEW p \in Process, Alone(p), Guarded(p), ProcessInv(p)',
           written' > Damaged, Exclusion', RetainedIntact'
    PROVE  CacheInv'
  BY OthersInv, Zenon DEF CacheInv

\* A step that takes no lock.
LEMMA SameLocks ==
    ASSUME CacheInv, UNCHANGED locks
    PROVE  Exclusion'
  BY Zenon DEF CacheInv, Exclusion, locks

\* A step that changes neither objects nor receipts.
LEMMA SameFiles ==
    ASSUME TypeOK, CacheInv, NEW p \in Process, UNCHANGED <<object, receipt, written>>
    PROVE  Guarded(p) /\ RetainedIntact' /\ written' > Damaged
  BY Zenon DEF CacheInv, Guarded, RetainedIntact

\* The end of an operation.
LEMMA DoneInv ==
    ASSUME TypeOK, CacheInv, NEW p \in Process, Done(p)
    PROVE  Alone(p) /\ ProcessInv(p)' /\ Exclusion'
<1>1. /\ pc'[p] = "idle" /\ job'[p] = IdleJob(p) /\ shared'[p] = {} /\ exclusive'[p] = {}
      /\ \A q \in Process \ {p} : /\ pc'[q] = pc[q] /\ job'[q] = job[q]
                                  /\ shared'[q] = shared[q] /\ exclusive'[q] = exclusive[q]
  BY Zenon DEF Done, TypeOK
<1>2. job'[p].kind = "open"
  BY <1>1 DEF IdleJob, NewJob
<1>3. ProcessInv(p)'
  BY <1>1, <1>2, Zenon DEF ProcessInv, Holds, Selected, Measured, Cleared, Owning
<1>4. Exclusion'
  BY <1>1, Zenon DEF CacheInv, Exclusion
<1> QED BY <1>1, <1>3, <1>4, Zenon DEF Alone

\* The end of an operation that leaves the files as they are.
LEMMA GiveUpInv ==
    ASSUME TypeOK, CacheInv, NEW p \in Process, Done(p), UNCHANGED <<object, receipt, written>>
    PROVE  CacheInv'
  BY DoneInv, SameFiles, StepInv, Zenon

\* A step of an operation that goes on, under the locks it has.
LEMMA GoOnInv ==
    ASSUME TypeOK, CacheInv, NEW p \in Process, UNCHANGED <<object, receipt, written, locks>>,
           \A q \in Process \ {p} : pc'[q] = pc[q] /\ job'[q] = job[q], ProcessInv(p)'
    PROVE  CacheInv'
<1>1. Alone(p)
  BY SMTT(60) DEF Alone, locks
<1> QED BY <1>1, SameLocks, SameFiles, StepInv, Zenon

-----------------------------------------------------------------------------
(***************************************************************************)
(* The operations.                                                         *)
(***************************************************************************)

\* Beginning an operation: nothing is relied on yet.
LEMMA BeginInv ==
    ASSUME TypeOK, CacheInv, NEW p \in Process, NEW step, NEW kind, NEW objs, NEW force, NEW n,
           NEW token, Begin(p, step, kind, objs, force, n, token),
           \/ step = "lock" /\ kind \in {"open", "fetch"}
           \/ step = "lock" /\ kind = "keep" /\ n \in Name
           \/ step = "lock" /\ kind = "remove" /\ \A a, b \in objs : a = b
           \/ step = "measure" /\ kind = "preview" /\ \A a, b \in objs : a = b
           \/ step = "compareReceipt" /\ kind = "release" /\ n \in Name
    PROVE  CacheInv'
<1>1. /\ pc[p] = "idle" /\ pc'[p] = step /\ job'[p] = NewJob(kind, objs, force, n, token)
      /\ shared'[p] = shared[p] /\ exclusive'[p] = exclusive[p]
      /\ UNCHANGED <<object, receipt, written, locks>>
      /\ \A q \in Process \ {p} : pc'[q] = pc[q] /\ job'[q] = job[q]
  BY Zenon DEF Begin, Go, TypeOK, store, locks
<1>2. job'[p].kind = kind /\ job'[p].objs = objs /\ job'[p].name = n
  BY <1>1, SMTT(60) DEF NewJob
<1>3. shared[p] = {}
  BY <1>1, SMTT(60) DEF CacheInv, ProcessInv, Holds
<1>4. Holds(p)' /\ Selected(p)'
  BY <1>1, <1>2, <1>3, SMTT(60) DEF Holds, Selected, Owning
<1>5. Measured(p)' /\ Cleared(p)'
  BY <1>1, <1>2, Zenon DEF Measured, Cleared
<1> QED BY <1>1, <1>4, <1>5, GoOnInv, Zenon DEF ProcessInv

\* Every way to start.
LEMMA StartInv ==
    ASSUME TypeOK, CacheInv, NEW p \in Process, Start(p)
    PROVE  CacheInv'
<1>1. ASSUME NEW o \in Object, NEW force \in BOOLEAN, Obtain(p, o, force) PROVE CacheInv'
  <2>1. PICK kind \in {"open", "fetch"} : Begin(p, "lock", kind, {o}, force, NoName, NoToken)
    BY <1>1, Zenon DEF Obtain
  <2> QED BY <2>1, BeginInv, Zenon
<1>2. ASSUME NEW objs \in SUBSET Object, OpenVerified(p, objs) \/ FetchRequest(p, objs)
      PROVE  CacheInv'
  BY <1>2, BeginInv, ZenonT(40) DEF OpenVerified, FetchRequest
<1>3. ASSUME NEW objs \in SUBSET Object, NEW n \in Name, Keep(p, objs, n) PROVE CacheInv'
  BY <1>3, BeginInv, ZenonT(40) DEF Keep
<1>4. ASSUME NEW o \in Object, PreviewRemoval(p, o) \/ ApplyRemoval(p, o) PROVE CacheInv'
  <2>1. \A a, b \in {o} : a = b
    BY Zenon
  <2> QED BY <1>4, <2>1, BeginInv, ZenonT(40) DEF PreviewRemoval, ApplyRemoval
<1>5. ASSUME NEW n \in Name, PreviewRelease(p, n) PROVE CacheInv'
  <2>1. /\ UNCHANGED <<object, receipt, written, locks, pc, job>>
        /\ UNCHANGED <<shared, exclusive>>
    BY <1>5, SMTT(60) DEF PreviewRelease, store, locks
  <2>2. ProcessInv(p)'
    <3>1. ProcessInv(p)
      BY Zenon DEF CacheInv
    <3> QED BY <2>1, <3>1 DEF ProcessInv, Holds, Selected, Measured, Cleared
  <2> QED BY <2>1, <2>2, GoOnInv, Zenon
<1>6. ASSUME NEW n \in Name, ApplyRelease(p, n) PROVE CacheInv'
  BY <1>6, BeginInv, ZenonT(40) DEF ApplyRelease
<1> QED BY <1>1, <1>2, <1>3, <1>4, <1>5, <1>6, Zenon DEF Start

\* Taking a lock, or finding it taken.
LEMMA LockInv ==
    ASSUME TypeOK, CacheInv, NEW p \in Process, AcquireLock(p) \/ LockTaken(p)
    PROVE  CacheInv'
<1>1. CASE LockTaken(p)
  BY <1>1, GiveUpInv, SMTT(60) DEF LockTaken, store
<1>2. CASE AcquireLock(p)
  <2>0. PICK o \in Object :
            /\ NextToLock(p, o) /\ Available(p, o)
            /\ Go(p, "lock", IF job[p].objs \subseteq shared[p] \cup exclusive[p] \cup {o}
                             THEN AfterLock(job[p].kind) ELSE "lock")
            /\ IF job[p].kind = "open"
               THEN shared' = [shared EXCEPT ![p] = @ \cup {o}] /\ UNCHANGED exclusive
               ELSE exclusive' = [exclusive EXCEPT ![p] = @ \cup {o}] /\ UNCHANGED shared
            /\ UNCHANGED <<store, job, tokens>>
    BY <1>2, SMTT(60) DEF AcquireLock
  <2>1. Holds(p) /\ Selected(p) /\ pc[p] = "lock"
    BY <2>0, SMTT(60) DEF CacheInv, ProcessInv, Go
  <2>2. UNCHANGED <<object, receipt, written, job>> /\ job'[p] = job[p]
    BY <2>0, SMTT(60) DEF store
  <2>3. pc'[p] = IF job[p].objs \subseteq shared[p] \cup exclusive[p] \cup {o}
                 THEN AfterLock(job[p].kind) ELSE "lock"
    BY <2>0, SMTT(60) DEF Go, TypeOK
  <2>4. \A q \in Process \ {p} :
            pc'[q] = pc[q] /\ shared'[q] = shared[q] /\ exclusive'[q] = exclusive[q]
    BY <2>0, SMTT(60) DEF Go, TypeOK
  <2>5. CASE job[p].kind = "open"
    <3>1. shared'[p] = shared[p] \cup {o} /\ exclusive'[p] = exclusive[p]
      BY <2>0, <2>5, SMTT(60) DEF TypeOK
    <3>2. pc'[p] \in {"lock", "verify"}
      BY <2>3, <2>5, SMTT(60) DEF AfterLock
    <3>3. ProcessInv(p)'
      BY <2>1, <2>2, <2>3, <2>5, <3>1, <3>2, SMTT(60)
         DEF ProcessInv, Holds, Selected, Measured, Cleared, Owning
    <3>4. \A q \in Process \ {p} : o \notin exclusive[q]
      BY <2>0, SMTT(60) DEF Available
    <3>5. Exclusion'
      BY <2>4, <3>1, <3>4, SMTT(60) DEF CacheInv, Exclusion
    <3> QED BY <2>2, <2>4, <3>3, <3>5, SameFiles, StepInv, SMTT(60) DEF Alone
  <2>6. CASE job[p].kind # "open"
    <3>1. shared'[p] = shared[p] /\ exclusive'[p] = exclusive[p] \cup {o} /\ shared[p] = {}
      BY <2>0, <2>1, <2>6, SMTT(60) DEF TypeOK, Holds
    <3>2. \/ pc'[p] = "lock"
          \/ /\ job[p].objs \subseteq exclusive[p] \cup {o}
             /\ pc'[p] = AfterLock(job[p].kind)
      BY <2>3, <3>1, SMTT(60)
    <3>3. job[p].kind \in {"fetch", "keep", "remove"}
      BY <2>1, <2>6 DEF Holds
    <3>4. pc'[p] \in {"lock", "preflight", "validate", "measure"}
      BY <3>2, <3>3, SMTT(60) DEF AfterLock
    <3>5. Holds(p)'
      BY <2>2, <2>6, <3>1, <3>2, <3>3, <3>4, SMTT(60) DEF Holds, Owning
    <3>6. Selected(p)'
      BY <2>1, <2>2, <3>2, <3>3, SMTT(60) DEF Selected, AfterLock
    <3>7. Measured(p)' /\ Cleared(p)'
      BY <3>4, SMTT(60) DEF Measured, Cleared
    <3>8. \A q \in Process \ {p} : o \notin exclusive[q] /\ o \notin shared[q]
      BY <2>0, <2>6, SMTT(60) DEF Available
    <3>9. Exclusion'
      BY <2>4, <3>1, <3>8 DEF CacheInv, Exclusion
    <3> QED BY <2>2, <2>4, <3>5, <3>6, <3>7, <3>9, SameFiles, StepInv, SMTT(60) DEF Alone, ProcessInv
  <2> QED BY <2>5, <2>6, SMTT(60)
<1> QED BY <1>1, <1>2, Zenon

\* What was measured under the locks of the selection, in one step.
LEMMA MeasureSelection ==
    ASSUME TypeOK, NEW p \in Process, UNCHANGED <<object, receipt>>,
           \A o \in job[p].objs : Intact(object[o]),
           job' = [job EXCEPT ![p].seen =
                       [o \in Object |-> IF o \in job[p].objs THEN object[o] ELSE Absent]]
    PROVE  /\ job'[p].kind = job[p].kind /\ job'[p].objs = job[p].objs
           /\ job'[p].name = job[p].name
           /\ \A q \in Process \ {p} : job'[q] = job[q]
           /\ \A o \in Object : job'[p].seen[o] # Absent =>
                  o \in job[p].objs /\ job'[p].seen[o] = object'[o] /\ Intact(object'[o])
           /\ \A o \in job[p].objs : object'[o] = job'[p].seen[o] /\ Intact(object'[o])
<1>1. job[p] \in Job /\ job[p].objs \subseteq Object
  BY JobFields, Zenon
<1>2. job'[p] = [job[p] EXCEPT !.seen =
                     [o \in Object |-> IF o \in job[p].objs THEN object[o] ELSE Absent]]
  BY Zenon DEF TypeOK
<1>3. job'[p].seen = [o \in Object |-> IF o \in job[p].objs THEN object[o] ELSE Absent]
  BY <1>1, <1>2 DEF Job
<1>4. job'[p].kind = job[p].kind /\ job'[p].objs = job[p].objs /\ job'[p].name = job[p].name
  BY <1>1, <1>2 DEF Job
<1>5. \A q \in Process \ {p} : job'[q] = job[q]
  BY Zenon DEF TypeOK
<1> QED BY <1>1, <1>3, <1>4, <1>5

-----------------------------------------------------------------------------
\* Reading and downloading.
LEMMA UseInv ==
    ASSUME TypeOK, CacheInv, NEW p \in Process,
           \/ Preflight(p) \/ Download(p) \/ DownloadFails(p) \/ Downloaded(p)
           \/ Verify(p) \/ EndUse(p)
    PROVE  CacheInv'
<1>0. Holds(p) /\ Selected(p) /\ Measured(p) /\ Cleared(p) /\ job[p] \in Job
  BY JobFields, Zenon DEF CacheInv, ProcessInv
<1>1. CASE Preflight(p)
  <2>1. CASE Done(p)
    BY <1>1, <2>1, GiveUpInv, Zenon DEF Preflight, store
  <2>2. CASE ~ Done(p)
    <3>1. PICK t \in SUBSET job[p].objs : job' = [job EXCEPT ![p].todo = t]
      BY <1>1, <2>2, Zenon DEF Preflight
    <3>2. job'[p] = [job[p] EXCEPT !.todo = t] /\ \A q \in Process \ {p} : job'[q] = job[q]
      BY <3>1, Zenon DEF TypeOK
    <3>3. /\ job'[p].kind = job[p].kind /\ job'[p].objs = job[p].objs
          /\ job'[p].name = job[p].name /\ job'[p].todo = t
      BY <1>0, <3>2 DEF Job
    <3>4. /\ pc[p] = "preflight" /\ pc'[p] = "download" /\ UNCHANGED <<shared, exclusive>>
          /\ UNCHANGED <<object, receipt, written, locks>>
          /\ \A q \in Process \ {p} : pc'[q] = pc[q]
      BY <1>1, <2>2, SMTT(60) DEF Preflight, Go, TypeOK, store, locks
    <3>5. Holds(p)' /\ Selected(p)'
      BY <1>0, <3>3, <3>4, SMTT(60) DEF Holds, Selected, Owning
    <3>6. Measured(p)' /\ Cleared(p)'
      BY <3>4, SMTT(60) DEF Measured, Cleared
    <3> QED BY <3>2, <3>4, <3>5, <3>6, GoOnInv DEF ProcessInv
  <2> QED BY <2>1, <2>2, Zenon
<1>2. CASE Download(p)
  <2>1. PICK o \in job[p].todo : /\ object' = [object EXCEPT ![o] = written + 1]
                                 /\ job' = [job EXCEPT ![p].todo = @ \ {o}]
    BY <1>2, ZenonT(40) DEF Download
  <2>2. /\ pc[p] = "download" /\ pc'[p] = "download" /\ written' = written + 1
        /\ UNCHANGED <<receipt, shared, exclusive, locks>>
        /\ \A q \in Process \ {p} : pc'[q] = pc[q] /\ job'[q] = job[q]
    BY <1>2, <2>1 DEF Download, Go, TypeOK, locks
  <2>3. job'[p] = [job[p] EXCEPT !.todo = job[p].todo \ {o}]
    BY <2>1, Zenon DEF TypeOK
  <2>4. /\ job'[p].kind = job[p].kind /\ job'[p].objs = job[p].objs
        /\ job'[p].name = job[p].name /\ job'[p].todo = job[p].todo \ {o}
    BY <1>0, <2>3, Zenon DEF Job
  <2>5. o \in exclusive[p] /\ o \in Object
    BY <1>0, <2>1, <2>2, JobFields, SMTT(60) DEF Holds, Selected, Owning
  <2>6. ProcessInv(p)'
    BY <1>0, <2>2, <2>4, SMTT(60) DEF ProcessInv, Holds, Selected, Measured, Cleared, Owning
  <2>7. written \in Int /\ written > Damaged /\ written' > Damaged /\ Intact(written + 1)
    <3>1. written' = written + 1
      BY <2>2, Zenon
    <3> QED BY <3>1, WrittenBound, SMTT(60) DEF Intact, Damaged
  <2>8. RetainedIntact'
    BY <2>1, <2>2, <2>5, <2>7 DEF CacheInv, RetainedIntact, TypeOK
  <2>9. Guarded(p)
    BY <2>1, <2>2, <2>5, SMTT(60) DEF Guarded, TypeOK
  <2> QED BY <2>2, <2>6, <2>7, <2>8, <2>9, SameLocks, StepInv, ZenonT(40) DEF Alone
<1>3. CASE DownloadFails(p) \/ EndUse(p)
  BY <1>3, GiveUpInv, SMTT(60) DEF DownloadFails, EndUse, store
<1>4. CASE Downloaded(p)
  <2>1. /\ pc[p] = "download" /\ pc'[p] = "verify" /\ UNCHANGED <<job, shared, exclusive>>
        /\ UNCHANGED <<object, receipt, written, locks>>
        /\ \A q \in Process \ {p} : pc'[q] = pc[q]
    BY <1>4, SMTT(60) DEF Downloaded, Go, TypeOK, store, locks
  <2>2. ProcessInv(p)'
    BY <1>0, <2>1 DEF ProcessInv, Holds, Selected, Measured, Cleared, Owning
  <2> QED BY <2>1, <2>2, GoOnInv, SMTT(60)
<1>5. CASE Verify(p)
  <2>1. CASE Done(p)
    BY <1>5, <2>1, GiveUpInv, SMTT(60) DEF Verify, store
  <2>2. CASE ~ Done(p)
    <3>1. /\ pc[p] = "verify" /\ pc'[p] = "using" /\ UNCHANGED <<shared, exclusive>>
          /\ UNCHANGED <<object, receipt, written, locks>>
          /\ \A q \in Process \ {p} : pc'[q] = pc[q]
      BY <1>5, <2>2, Zenon DEF Verify, Go, TypeOK, store, locks
    <3>2. /\ \A o \in job[p].objs : Intact(object[o])
          /\ job' = [job EXCEPT ![p].seen =
                         [o \in Object |-> IF o \in job[p].objs THEN object[o] ELSE Absent]]
      BY <1>5, <2>2, Zenon DEF Verify
    <3>3. /\ job'[p].kind = job[p].kind /\ job'[p].objs = job[p].objs
          /\ job'[p].name = job[p].name
          /\ \A q \in Process \ {p} : job'[q] = job[q]
          /\ \A o \in job[p].objs : object'[o] = job'[p].seen[o] /\ Intact(object'[o])
      BY <3>1, <3>2, MeasureSelection, ZenonT(40)
    <3>4. Holds(p)' /\ Selected(p)'
      BY <1>0, <3>1, <3>3, ZenonT(40) DEF Holds, Selected, Owning
    <3>5. Measured(p)' /\ Cleared(p)'
      BY <3>1, <3>3, ZenonT(40) DEF Measured, Cleared
    <3> QED BY <3>1, <3>3, <3>4, <3>5, GoOnInv, ZenonT(40) DEF ProcessInv
  <2> QED BY <2>1, <2>2, Zenon
<1> QED BY <1>1, <1>2, <1>3, <1>4, <1>5, SMTT(60)

\* Keeping a selection.
LEMMA KeepInv ==
    ASSUME TypeOK, CacheInv, NEW p \in Process,
           \/ Validate(p) \/ LockJournal(p) \/ CheckName(p) \/ PublishReceipt(p) \/ RemoveJournal(p)
    PROVE  CacheInv'
<1>0. Holds(p) /\ Selected(p) /\ Measured(p) /\ Cleared(p)
  BY Zenon DEF CacheInv, ProcessInv
<1>1. CASE Validate(p)
  <2>1. CASE Done(p)
    BY <1>1, <2>1, GiveUpInv, SMTT(60) DEF Validate, store
  <2>2. CASE ~ Done(p)
    <3>1. /\ pc[p] = "validate" /\ pc'[p] = "journal" /\ UNCHANGED <<shared, exclusive>>
          /\ UNCHANGED <<object, receipt, written, locks>>
          /\ \A q \in Process \ {p} : pc'[q] = pc[q]
      BY <1>1, <2>2 DEF Validate, Go, TypeOK, store, locks
    <3>2. /\ \A o \in job[p].objs : Intact(object[o])
          /\ job' = [job EXCEPT ![p].seen =
                         [o \in Object |-> IF o \in job[p].objs THEN object[o] ELSE Absent]]
      BY <1>1, <2>2, SMTT(60) DEF Validate
    <3>3. /\ job'[p].kind = job[p].kind /\ job'[p].objs = job[p].objs
          /\ job'[p].name = job[p].name
          /\ \A q \in Process \ {p} : job'[q] = job[q]
          /\ \A o \in Object : job'[p].seen[o] # Absent =>
                 o \in job[p].objs /\ job'[p].seen[o] = object'[o] /\ Intact(object'[o])
      BY <3>1, <3>2, MeasureSelection, SMTT(60)
    <3>4. Holds(p)' /\ Selected(p)'
      BY <1>0, <3>1, <3>3, ZenonT(40) DEF Holds, Selected, Owning
    <3>5. Measured(p)' /\ Cleared(p)'
      BY <3>1, <3>3, ZenonT(40) DEF Measured, Cleared
    <3> QED BY <3>1, <3>3, <3>4, <3>5, GoOnInv, ZenonT(40) DEF ProcessInv
  <2> QED BY <2>1, <2>2
<1>2. CASE LockJournal(p) \/ (CheckName(p) /\ ~ Done(p))
  <2>1. /\ pc[p] \in {"journal", "check"} /\ pc'[p] \in {"check", "rename"}
        /\ UNCHANGED <<job, shared, exclusive>> /\ UNCHANGED <<object, receipt, written, locks>>
        /\ \A q \in Process \ {p} : pc'[q] = pc[q]
    BY <1>2, SMTT(60) DEF LockJournal, CheckName, Go, TypeOK, locks
  <2>2. Holds(p)' /\ Selected(p)'
    BY <1>0, <2>1, SMTT(60) DEF Holds, Selected, Owning
  <2>3. Measured(p)' /\ Cleared(p)'
    BY <1>0, <2>1, ZenonT(40) DEF Measured, Cleared
  <2> QED BY <2>1, <2>2, <2>3, GoOnInv, ZenonT(40) DEF ProcessInv
<1>3. CASE (CheckName(p) /\ Done(p)) \/ RemoveJournal(p)
  BY <1>3, GiveUpInv, SMTT(60) DEF CheckName, RemoveJournal
<1>4. CASE PublishReceipt(p)
  <2>1. /\ pc[p] = "rename" /\ pc'[p] = "unjournal"
        /\ UNCHANGED <<object, written, job, shared, exclusive, locks>>
        /\ \A q \in Process \ {p} : pc'[q] = pc[q]
        /\ receipt' = [receipt EXCEPT ![job[p].name] = job[p].seen]
    BY <1>4, SMTT(60) DEF PublishReceipt, Go, TypeOK, locks
  <2>2. \A n \in Name : receipt'[n] \in {receipt[n], job[p].seen}
    BY <2>1, SMTT(60) DEF TypeOK
  <2>3. \A o \in Object : job[p].seen[o] # Absent => o \in exclusive[p] /\ Intact(object[o])
    BY <1>0, <2>1, SMTT(60) DEF Measured, Holds, Owning
  <2>4. RetainedIntact'
    BY <2>1, <2>2, <2>3, SMTT(60) DEF CacheInv, RetainedIntact
  <2>5. Guarded(p)
    BY <2>1, <2>2, <2>3, SMTT(60) DEF Guarded
  <2>6. ProcessInv(p)'
    BY <1>0, <2>1, ZenonT(40) DEF ProcessInv, Holds, Selected, Measured, Cleared, Owning
  <2>7. written' > Damaged
    BY <2>1, SMTT(60) DEF CacheInv
  <2> QED BY <2>1, <2>4, <2>5, <2>6, <2>7, SameLocks, StepInv, ZenonT(40) DEF Alone
<1> QED BY <1>1, <1>2, <1>3, <1>4

\* A preview or a removal up to the comparison of the tokens.
LEMMA PreviewInv ==
    ASSUME TypeOK, CacheInv, NEW p \in Process,
           Measure(p) \/ ListReceipts(p) \/ ReadReceipt(p) \/ ShowRemoval(p)
    PROVE  CacheInv'
<1>0. Holds(p) /\ Selected(p) /\ Measured(p) /\ Cleared(p) /\ job[p] \in Job
  BY JobFields, Zenon DEF CacheInv, ProcessInv
<1>1. CASE Done(p)
  BY <1>1, GiveUpInv, ZenonT(40) DEF Measure, ListReceipts, ReadReceipt, ShowRemoval, store
<1>2. CASE Measure(p) /\ ~ Done(p)
  <2>1. PICK o \in job[p].objs :
            /\ pc[p] \in {"measure", "remeasure"}
            /\ pc' = [pc EXCEPT ![p] = IF pc[p] = "measure" THEN "list" ELSE "unlink"]
            /\ job' = [job EXCEPT ![p].seen = [NoReceipt EXCEPT ![o] = object[o]]]
            /\ UNCHANGED <<store, locks>>
    BY <1>2, Zenon DEF Measure
  <2>2. /\ pc'[p] = IF pc[p] = "measure" THEN "list" ELSE "unlink"
        /\ UNCHANGED <<object, receipt, written, locks>> /\ UNCHANGED <<shared, exclusive>>
        /\ \A q \in Process \ {p} : pc'[q] = pc[q] /\ job'[q] = job[q]
    BY <2>1 DEF TypeOK, store, locks
  <2>3. job'[p] = [job[p] EXCEPT !.seen = [NoReceipt EXCEPT ![o] = object[o]]]
    BY <2>1 DEF TypeOK
  <2>4. /\ job'[p].kind = job[p].kind /\ job'[p].objs = job[p].objs
        /\ job'[p].name = job[p].name /\ job'[p].token = job[p].token
        /\ job'[p].seen = [NoReceipt EXCEPT ![o] = object[o]]
    BY <1>0, <2>3, SMTT(60) DEF Job
  <2>5. \A x \in job[p].objs : x = o /\ job'[p].seen[x] = object'[x]
    BY <1>0, <2>1, <2>2, <2>4, JobFields, VersionFacts, SMTT(60) DEF Selected, NoReceipt
  <2>6. Holds(p)' /\ Selected(p)'
    BY <1>0, <2>1, <2>2, <2>4, SMTT(60) DEF Holds, Selected, Owning
  <2>7. Measured(p)' /\ Cleared(p)'
    BY <1>0, <2>1, <2>2, <2>4, <2>5 DEF Measured, Cleared
  <2> QED BY <2>2, <2>6, <2>7, GoOnInv DEF ProcessInv
<1>3. CASE ListReceipts(p) /\ ~ Done(p)
  <2>1. /\ pc[p] = "list" /\ pc'[p] = "read"
        /\ UNCHANGED <<object, receipt, written, locks>> /\ UNCHANGED <<shared, exclusive>>
        /\ \A q \in Process \ {p} : pc'[q] = pc[q] /\ job'[q] = job[q]
        /\ job'[p] = [job[p] EXCEPT !.unread = {n \in Name : receipt[n] # NoReceipt}]
    BY <1>3, ZenonT(40) DEF ListReceipts, Go, TypeOK, store, locks
  <2>2. /\ job'[p].kind = job[p].kind /\ job'[p].objs = job[p].objs
        /\ job'[p].name = job[p].name /\ job'[p].seen = job[p].seen
        /\ job'[p].unread = {n \in Name : receipt[n] # NoReceipt}
    BY <1>0, <2>1, Zenon DEF Job
  <2>3. \A o \in job[p].objs, n \in Name : receipt'[n][o] # Absent => n \in job'[p].unread
    BY <2>1, <2>2, JobFields, VersionFacts
  <2>4. Holds(p)' /\ Selected(p)'
    BY <1>0, <2>1, <2>2 DEF Holds, Selected, Owning
  <2>5. Measured(p)' /\ Cleared(p)'
    BY <1>0, <2>1, <2>2, <2>3, SMTT(60) DEF Measured, Cleared
  <2> QED BY <2>1, <2>4, <2>5, GoOnInv, Zenon DEF ProcessInv
<1>4. CASE ReadReceipt(p) /\ ~ Done(p)
  <2>1. PICK n \in job[p].unread, o \in job[p].objs :
            /\ pc[p] = "read" /\ UNCHANGED <<store, pc, locks>>
            /\ job' = [job EXCEPT ![p].unread = @ \ {n},
                           ![p].blockers = IF receipt[n][o] # Absent THEN @ \cup {n} ELSE @]
    BY <1>4, ZenonT(40) DEF ReadReceipt
  <2>2. /\ UNCHANGED <<object, receipt, written, locks>> /\ UNCHANGED <<pc, shared, exclusive>>
        /\ \A q \in Process \ {p} : job'[q] = job[q]
    BY <2>1, Zenon DEF TypeOK, store, locks
  <2>3. job'[p] = [job[p] EXCEPT !.unread = job[p].unread \ {n},
                       !.blockers = IF receipt[n][o] # Absent
                                    THEN job[p].blockers \cup {n} ELSE job[p].blockers]
    BY <2>1, Zenon DEF TypeOK
  <2>4. /\ job'[p].kind = job[p].kind /\ job'[p].objs = job[p].objs
        /\ job'[p].name = job[p].name /\ job'[p].seen = job[p].seen
    BY <1>0, <2>3, Zenon DEF Job
  <2>5. /\ job'[p].unread = job[p].unread \ {n}
        /\ job'[p].blockers = IF receipt[n][o] # Absent
                              THEN job[p].blockers \cup {n} ELSE job[p].blockers
    BY <1>0, <2>3, Zenon DEF Job
  <2>6. \A x \in job[p].objs : x = o
    BY <1>0, <2>1, Zenon DEF Selected
  <2>7. Holds(p)' /\ Selected(p)'
    BY <1>0, <2>1, <2>2, <2>4, ZenonT(40) DEF Holds, Selected, Owning
  <2>8. Measured(p)'
    BY <1>0, <2>1, <2>2, <2>4, ZenonT(40) DEF Measured
  <2>9. Cleared(p)'
    <3>1. ASSUME job[p].kind = "remove", NEW x \in job[p].objs, NEW m \in Name,
                 receipt[m][x] # Absent
          PROVE  m \in job'[p].unread \cup job'[p].blockers
      <4>1. m \in job[p].unread \cup job[p].blockers
        BY <1>0, <2>1, <3>1, Zenon DEF Cleared
      <4>2. CASE m = n
        BY <2>5, <2>6, <3>1, <4>2, SMTT(60)
      <4>3. CASE m # n
        BY <2>5, <4>1, <4>3, Zenon
      <4> QED BY <4>2, <4>3, Zenon
    <3> QED BY <2>1, <2>2, <2>4, <3>1, ZenonT(40) DEF Cleared
  <2> QED BY <2>2, <2>7, <2>8, <2>9, GoOnInv, Zenon DEF ProcessInv
<1> QED BY <1>1, <1>2, <1>3, <1>4, SMTT(60) DEF ShowRemoval

\* A removal from the comparison of the tokens on.
LEMMA RemoveInv ==
    ASSUME TypeOK, CacheInv, NEW p \in Process,
           CompareToken(p) \/ RemoveObject(p) \/ RemoveRest(p)
    PROVE  CacheInv'
<1>0. Holds(p) /\ Selected(p) /\ Measured(p) /\ Cleared(p) /\ job[p].objs \subseteq Object
  BY JobFields, SMTT(60) DEF CacheInv, ProcessInv
<1>1. CASE CompareToken(p) /\ Done(p)
  BY <1>1, GiveUpInv, SMTT(60) DEF CompareToken, store
<1>2. CASE CompareToken(p) /\ ~ Done(p)
  <2>1. PICK o \in job[p].objs : /\ job[p].unread = {} /\ job[p].kind = "remove"
                                 /\ TokenOf(p, o) = job[p].token /\ job[p].blockers = {}
    BY <1>2, SMTT(60) DEF CompareToken
  <2>2. /\ pc[p] = "read" /\ pc'[p] = "remeasure" /\ UNCHANGED <<job, shared, exclusive>>
        /\ UNCHANGED <<object, receipt, written, locks>>
        /\ \A q \in Process \ {p} : pc'[q] = pc[q]
    BY <1>2, SMTT(60) DEF CompareToken, Go, TypeOK, store, locks
  <2>3. \A x \in job[p].objs : x = o
    BY <1>0, <2>1, SMTT(60) DEF Selected
  <2>4. job[p].seen[o] = object[o]
    BY <1>0, <2>1, <2>2, ZenonT(40) DEF Measured
  <2>5. job[p].token = [object |-> o, proof |-> object[o], blockers |-> {}]
    BY <2>1, <2>4, SMTT(60) DEF TokenOf
  <2>6. Holds(p)' /\ Selected(p)'
    BY <1>0, <2>1, <2>2, SMTT(60) DEF Holds, Selected, Owning
  <2>7. Measured(p)'
    BY <2>2, <2>3, <2>5, ZenonT(40) DEF Measured
  <2>8. Cleared(p)'
    BY <1>0, <2>1, <2>2, ZenonT(40) DEF Cleared
  <2> QED BY <2>2, <2>6, <2>7, <2>8, GoOnInv, SMTT(60) DEF ProcessInv
<1>3. CASE RemoveObject(p) \/ RemoveRest(p)
  <2>1. PICK o \in job[p].objs : \E v : object' = [object EXCEPT ![o] = v]
    <3>1. CASE object' = object
      <4>1. PICK o \in job[p].objs : TRUE
        BY <1>3, SMTT(60) DEF RemoveObject, RemoveRest
      <4>2. object' = [object EXCEPT ![o] = object[o]]
        BY <3>1, SMTT(60) DEF TypeOK
      <4> QED BY <4>2, ZenonT(40)
    <3>2. CASE object' # object
      BY <1>3, <3>2, SMTT(60) DEF RemoveObject, RemoveRest
    <3> QED BY <3>1, <3>2, Zenon
  <2>2. pc[p] \in {"unlink", "removing"} /\ UNCHANGED <<receipt, written>>
    BY <1>3, SMTT(60) DEF RemoveObject, RemoveRest
  <2>3. o \in Object /\ o \in exclusive[p] /\ \A n \in Name : receipt[n][o] = Absent
    BY <1>0, <2>2, SMTT(60) DEF Holds, Owning, Cleared
  <2>4. Guarded(p) /\ RetainedIntact' /\ written' > Damaged
    BY <2>1, <2>2, <2>3, SMTT(60) DEF CacheInv, Guarded, RetainedIntact, TypeOK
  <2>5. CASE Done(p)
    BY <2>4, <2>5, DoneInv, StepInv, SMTT(60)
  <2>6. CASE ~ Done(p)
    <3>1. /\ pc[p] = "unlink" /\ pc'[p] = "removing" /\ UNCHANGED <<job, shared, exclusive, locks>>
          /\ \A q \in Process \ {p} : pc'[q] = pc[q]
      BY <1>3, <2>6, SMTT(60) DEF RemoveObject, RemoveRest, Go, TypeOK, locks
    <3>2. Holds(p)' /\ Selected(p)'
      BY <1>0, <3>1, SMTT(60) DEF Holds, Selected, Owning
    <3>3. Cleared(p)'
      BY <1>0, <2>2, <3>1, SMTT(60) DEF Cleared
    <3>4. \A x \in job[p].objs : x = o
      BY <1>0, <3>1, ZenonT(40) DEF Selected
    <3>5. object'[o] = Damaged
      <4>1. ~ RemoveRest(p)
        BY <3>1, ZenonT(40) DEF RemoveRest
      <4>2. PICK x \in job[p].objs : object' = [object EXCEPT ![x] = Damaged]
        BY <1>3, <2>6, <4>1, ZenonT(40) DEF RemoveObject
      <4> QED BY <2>3, <3>4, <4>2, SMTT(60) DEF TypeOK
    <3>6. Measured(p)'
      BY <3>1, <3>4, <3>5 DEF Measured, Intact, Damaged
    <3> QED BY <2>4, <3>1, <3>2, <3>3, <3>6, SameLocks, StepInv, SMTT(60) DEF Alone, ProcessInv
  <2> QED BY <2>5, <2>6, Zenon
<1> QED BY <1>1, <1>2, <1>3, SMTT(60)

\* Releasing a receipt.
LEMMA ReleaseInv ==
    ASSUME TypeOK, CacheInv, NEW p \in Process, CompareReceipt(p) \/ RemoveReceipt(p)
    PROVE  CacheInv'
<1>0. Holds(p) /\ Selected(p) /\ job[p] \in Job
  BY JobFields, Zenon DEF CacheInv, ProcessInv
<1>1. CASE CompareReceipt(p) /\ Done(p)
  BY <1>1, GiveUpInv, Zenon DEF CompareReceipt, store
<1>2. CASE CompareReceipt(p) /\ ~ Done(p)
  <2>1. /\ pc[p] = "compareReceipt" /\ pc'[p] = "removeReceipt" /\ UNCHANGED <<shared, exclusive>>
        /\ UNCHANGED <<object, receipt, written, locks>>
        /\ \A q \in Process \ {p} : pc'[q] = pc[q] /\ job'[q] = job[q]
        /\ job[p].token = [name |-> job[p].name, receipt |-> receipt[job[p].name]]
        /\ job'[p] = [job[p] EXCEPT !.seen = receipt[job[p].name]]
    BY <1>2 DEF CompareReceipt, Go, TypeOK, store, locks
  <2>2. /\ job'[p].kind = job[p].kind /\ job'[p].objs = job[p].objs
        /\ job'[p].name = job[p].name /\ job'[p].token = job[p].token
        /\ job'[p].seen = receipt[job[p].name]
    BY <1>0, <2>1 DEF Job
  <2>3. Holds(p)' /\ Selected(p)'
    BY <1>0, <2>1, <2>2 DEF Holds, Selected, Owning
  <2>4. Measured(p)' /\ Cleared(p)'
    BY <2>1, <2>2, SMTT(60) DEF Measured, Cleared
  <2> QED BY <2>1, <2>3, <2>4, GoOnInv, Zenon DEF ProcessInv
<1>3. CASE RemoveReceipt(p)
  <2>1. /\ Done(p) /\ UNCHANGED <<object, written>>
        /\ \A n \in Name : receipt'[n] \in {receipt[n], NoReceipt}
    BY <1>3, SMTT(60) DEF RemoveReceipt, TypeOK
  <2>2. Guarded(p) /\ RetainedIntact' /\ written' > Damaged
    BY <2>1, VersionFacts, Zenon DEF CacheInv, Guarded, RetainedIntact
  <2> QED BY <2>1, <2>2, DoneInv, StepInv, SMTT(60)
<1> QED BY <1>1, <1>2, <1>3, SMTT(60)

-----------------------------------------------------------------------------
(***************************************************************************)
(* The theorems.                                                           *)
(***************************************************************************)

\* The initial states satisfy the invariant.
LEMMA InitInv ==
    ASSUME Init
    PROVE  TypeOK /\ CacheInv
<1>1. TypeOK
  <2>1. \A p \in Process : IdleJob(p) \in Job
    BY NewJobType, ZenonT(40) DEF IdleJob, Kinds
  <2>2. object \in [Object -> Version] /\ written \in Version
    BY CacheAssumption, SMTT(60) DEF Init, Version
  <2> QED BY <2>1, <2>2, VersionFacts, Zenon DEF Init, TypeOK, Steps
<1>2. \A p \in Process : job[p].kind = "open"
  BY Zenon DEF Init, IdleJob, NewJob
<1>3. \A p \in Process : ProcessInv(p)
  BY <1>2, ZenonT(40) DEF Init, ProcessInv, Holds, Selected, Measured, Cleared, Owning
<1>4. RetainedIntact
  BY VersionFacts, Zenon DEF Init, RetainedIntact
<1> QED BY <1>1, <1>3, <1>4, SMTT(60) DEF Init, CacheInv, Exclusion, Damaged

\* Every step keeps it.
LEMMA NextInv ==
    ASSUME TypeOK, CacheInv, [Next]_vars
    PROVE  TypeOK' /\ CacheInv'
<1>1. TypeOK'
  BY NextTypes, Zenon DEF CacheInv, ProcessInv
<1>2. CASE UNCHANGED <<object, receipt, written, pc, job, shared, exclusive>>
  <2>1. Exclusion' /\ RetainedIntact' /\ written' > Damaged
    BY <1>2, SMTT(60) DEF CacheInv, Exclusion, RetainedIntact
  <2>2. ASSUME NEW p \in Process PROVE ProcessInv(p)'
    <3>1. Holds(p) /\ Selected(p) /\ Measured(p) /\ Cleared(p)
      BY SMTT(60) DEF CacheInv, ProcessInv
    <3>2. Holds(p)' /\ Selected(p)'
      BY <1>2, <3>1, SMTT(60) DEF Holds, Selected
    <3>3. Measured(p)'
      BY <1>2, <3>1, ZenonT(40) DEF Measured
    <3>4. Cleared(p)'
      BY <1>2, <3>1, SMTT(60) DEF Cleared
    <3> QED BY <3>2, <3>3, <3>4 DEF ProcessInv
  <2> QED BY <1>1, <2>1, <2>2, SMTT(60) DEF CacheInv
<1>3. ASSUME NEW p \in Process, Start(p) PROVE CacheInv'
  BY <1>3, StartInv, SMTT(60)
<1>4. ASSUME NEW p \in Process, Continue(p) PROVE CacheInv'
  BY <1>4, LockInv, UseInv, KeepInv, PreviewInv, RemoveInv, ReleaseInv, SMTT(60) DEF Continue
<1>5. ASSUME NEW p \in Process, Stop(p) PROVE CacheInv'
  BY <1>5, GiveUpInv, SMTT(60) DEF Stop, store
<1>6. CASE Expire \/ UNCHANGED vars
  BY <1>1, <1>2, <1>6, Zenon DEF Expire, vars, store, locks
<1> QED BY <1>1, <1>3, <1>4, <1>5, <1>6, Zenon DEF Next

(***************************************************************************)
(* The types and CacheInv hold in every behaviour, for any number of       *)
(* processes, objects and names.                                           *)
(***************************************************************************)
THEOREM CacheInductive == Spec => [](TypeOK /\ CacheInv)
<1>1. Init => TypeOK /\ CacheInv
  BY InitInv, Zenon
<1>2. TypeOK /\ CacheInv /\ [Next]_vars => (TypeOK /\ CacheInv)'
  BY NextInv, Zenon
<1> QED BY <1>1, <1>2, PTL DEF Spec

(***************************************************************************)
(* "A retained object cannot be removed", nor damaged: not by a removal    *)
(* that began before the receipt was written, not by one that dies half    *)
(* way, and not by any other use of the cache.                             *)
(***************************************************************************)
THEOREM RetentionHolds == Spec => []RetainedIntact
<1>1. CacheInv => RetainedIntact
  BY DEF CacheInv
<1> QED BY <1>1, CacheInductive, PTL

(***************************************************************************)
(* What a caller has verified under a lease stays as it is until the lease *)
(* is given up.                                                            *)
(***************************************************************************)
THEOREM LeasesHold == Spec => []LeasedUnchanged
<1>1. CacheInv => LeasedUnchanged
  BY ZenonT(40) DEF CacheInv, ProcessInv, Measured, LeasedUnchanged
<1> QED BY <1>1, CacheInductive, PTL

-----------------------------------------------------------------------------
(***************************************************************************)
(* What a step may do to objects and receipts.                             *)
(***************************************************************************)

\* Only downloads and removals change an object.
LEMMA ObjectSteps ==
    ASSUME TypeOK, CacheInv, [Next]_vars, NEW o \in Object, Intact(object[o]), ~ Intact(object'[o])
    PROVE  \E p \in Process : /\ pc[p] = "unlink" /\ o \in job[p].objs
                              /\ job[p].token = [object |-> o, proof |-> object[o], blockers |-> {}]
<1>1. object' # object
  BY Zenon
<1>2. PICK p \in Process : Download(p) \/ RemoveObject(p) \/ RemoveRest(p)
  <2>1. \A p \in Process : ~ Start(p)
    BY <1>1, ZenonT(40) DEF Start, Obtain, OpenVerified, FetchRequest, Keep, PreviewRemoval, ApplyRemoval,
                PreviewRelease, ApplyRelease, Begin, store
  <2>2. ~ Expire /\ ~ UNCHANGED vars /\ \A p \in Process : ~ Stop(p)
    BY <1>1, Zenon DEF Expire, Stop, vars, store
  <2>3. PICK p \in Process : Continue(p)
    BY <2>1, <2>2, SMTT(60) DEF Next
  <2>4. ~ (AcquireLock(p) \/ LockTaken(p) \/ Preflight(p) \/ DownloadFails(p) \/ Downloaded(p)
             \/ Verify(p) \/ EndUse(p) \/ Validate(p) \/ LockJournal(p) \/ CheckName(p))
    BY <1>1, Zenon DEF AcquireLock, LockTaken, Preflight, DownloadFails, Downloaded, Verify, EndUse,
                Validate, LockJournal, CheckName, store
  <2>5. ~ (PublishReceipt(p) \/ RemoveJournal(p) \/ Measure(p) \/ ListReceipts(p) \/ ReadReceipt(p)
             \/ ShowRemoval(p) \/ CompareToken(p) \/ CompareReceipt(p) \/ RemoveReceipt(p))
    BY <1>1, ZenonT(40) DEF PublishReceipt, RemoveJournal, Measure, ListReceipts, ReadReceipt, ShowRemoval,
                CompareToken, CompareReceipt, RemoveReceipt, store
  <2> QED BY <2>3, <2>4, <2>5, ZenonT(40) DEF Continue
<1>3. Holds(p) /\ Selected(p) /\ Measured(p) /\ Cleared(p) /\ job[p].objs \subseteq Object
  BY JobFields, Zenon DEF CacheInv, ProcessInv
<1>4. ~ Download(p)
  BY VersionFacts DEF Download, TypeOK, CacheInv, Intact, Damaged, Version
<1>5. ~ RemoveRest(p)
  BY <1>3, ZenonT(40) DEF RemoveRest, Measured, Selected, TypeOK
<1>6. PICK x \in job[p].objs : pc[p] = "unlink" /\ \E v : object' = [object EXCEPT ![x] = v]
  BY <1>1, <1>2, <1>4, <1>5, ZenonT(40) DEF RemoveObject
<1>7. x = o
  BY <1>6, Zenon DEF TypeOK
<1>8. job[p].token = [object |-> o, proof |-> object[o], blockers |-> {}]
  BY <1>3, <1>6, <1>7, ZenonT(40) DEF Measured
<1> QED BY <1>6, <1>7, <1>8, Zenon

\* Only publications and releases change a receipt.
LEMMA ReceiptSteps ==
    ASSUME TypeOK, CacheInv, [Next]_vars, NEW n \in Name, receipt'[n] # receipt[n]
    PROVE  \E p \in Process :
              /\ job[p].name = n
              /\ \/ pc[p] = "rename" /\ receipt[n] = NoReceipt /\ receipt'[n] = job[p].seen
                 \/ pc[p] = "removeReceipt" /\ receipt'[n] = NoReceipt /\ receipt[n] = job[p].seen
<1>1. receipt' # receipt
  BY SMTT(60)
<1>2. PICK p \in Process : PublishReceipt(p) \/ RemoveReceipt(p)
  <2>1. \A p \in Process : ~ Start(p)
    BY <1>1, ZenonT(40) DEF Start, Obtain, OpenVerified, FetchRequest, Keep, PreviewRemoval, ApplyRemoval,
                PreviewRelease, ApplyRelease, Begin, store
  <2>2. ~ Expire /\ ~ UNCHANGED vars /\ \A p \in Process : ~ Stop(p)
    BY <1>1, Zenon DEF Expire, Stop, vars, store
  <2>3. PICK p \in Process : Continue(p)
    BY <2>1, <2>2, SMTT(60) DEF Next
  <2>4. ~ (AcquireLock(p) \/ LockTaken(p) \/ Preflight(p) \/ Download(p) \/ DownloadFails(p)
             \/ Downloaded(p) \/ Verify(p) \/ EndUse(p) \/ Validate(p) \/ LockJournal(p)
             \/ CheckName(p))
    BY <1>1, Zenon DEF AcquireLock, LockTaken, Preflight, Download, DownloadFails, Downloaded, Verify,
                EndUse, Validate, LockJournal, CheckName, store
  <2>5. ~ (RemoveJournal(p) \/ Measure(p) \/ ListReceipts(p) \/ ReadReceipt(p) \/ ShowRemoval(p)
             \/ CompareToken(p) \/ RemoveObject(p) \/ RemoveRest(p) \/ CompareReceipt(p))
    BY <1>1, ZenonT(40) DEF RemoveJournal, Measure, ListReceipts, ReadReceipt, ShowRemoval, CompareToken,
                RemoveObject, RemoveRest, CompareReceipt, store
  <2> QED BY <2>3, <2>4, <2>5, ZenonT(40) DEF Continue
<1>3. job[p].name \in Name
  BY <1>2 DEF CacheInv, ProcessInv, Selected, PublishReceipt, RemoveReceipt, Go
<1> QED BY <1>2, <1>3 DEF PublishReceipt, RemoveReceipt, Go, TypeOK

(***************************************************************************)
(* apply_removal destroys only what a preview has shown without blockers,  *)
(* for any interleaving with keeps, downloads and other removals.          *)
(***************************************************************************)
THEOREM RemovalsHold == Spec => RemovesPreviewed
<1>1. TypeOK /\ CacheInv /\ [Next]_vars =>
          [\A o \in Object : Intact(object[o]) /\ ~ Intact(object'[o]) =>
              \E p \in Process :
                  /\ pc[p] = "unlink"
                  /\ job[p].token = [object |-> o, proof |-> object[o], blockers |-> {}]]_vars
  BY ObjectSteps, Zenon
<1> QED BY <1>1, CacheInductive, PTL DEF Spec, RemovesPreviewed

(***************************************************************************)
(* keep_many_validated publishes only what is in the cache and intact when *)
(* the receipt appears, and replaces no receipt.                           *)
(***************************************************************************)
THEOREM KeepsHold == Spec => ReceiptsAccurate
<1>1. TypeOK /\ CacheInv /\ [Next]_vars =>
          [\A n \in Name : receipt'[n] \notin {NoReceipt, receipt[n]} =>
              /\ receipt[n] = NoReceipt
              /\ \A o \in Object : receipt'[n][o] # Absent =>
                    receipt'[n][o] = object[o] /\ Intact(object[o])]_vars
  <2> SUFFICES ASSUME TypeOK, CacheInv, [Next]_vars, NEW n \in Name,
                      receipt'[n] \notin {NoReceipt, receipt[n]}
               PROVE  /\ receipt[n] = NoReceipt
                      /\ \A o \in Object : receipt'[n][o] # Absent =>
                            receipt'[n][o] = object[o] /\ Intact(object[o])
    BY SMTT(60)
  <2>1. PICK p \in Process : pc[p] = "rename" /\ receipt[n] = NoReceipt /\ receipt'[n] = job[p].seen
    BY ReceiptSteps, SMTT(60)
  <2>2. Measured(p)
    BY Zenon DEF CacheInv, ProcessInv
  <2> QED BY <2>1, <2>2, ZenonT(40) DEF Measured
<1> QED BY <1>1, CacheInductive, PTL DEF Spec, ReceiptsAccurate

(***************************************************************************)
(* apply_retention_release removes a receipt only with the token that a    *)
(* preview of this very receipt has shown.                                 *)
(***************************************************************************)
THEOREM ReleasesHold == Spec => ReleasesPreviewed
<1>1. TypeOK /\ CacheInv /\ [Next]_vars =>
          [\A n \in Name : receipt[n] # NoReceipt /\ receipt'[n] = NoReceipt =>
              \E p \in Process : /\ pc[p] = "removeReceipt"
                                 /\ job[p].token = [name |-> n, receipt |-> receipt[n]]]_vars
  <2> SUFFICES ASSUME TypeOK, CacheInv, [Next]_vars, NEW n \in Name,
                      receipt[n] # NoReceipt /\ receipt'[n] = NoReceipt
               PROVE  \E p \in Process : /\ pc[p] = "removeReceipt"
                                         /\ job[p].token = [name |-> n, receipt |-> receipt[n]]
    BY SMTT(60)
  <2>1. PICK p \in Process : job[p].name = n /\ pc[p] = "removeReceipt" /\ receipt[n] = job[p].seen
    BY ReceiptSteps, SMTT(60)
  <2>2. Measured(p)
    BY Zenon DEF CacheInv, ProcessInv
  <2> QED BY <2>1, <2>2, ZenonT(40) DEF Measured
<1> QED BY <1>1, CacheInductive, PTL DEF Spec, ReleasesPreviewed
=============================================================================
