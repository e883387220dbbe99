--------------------------- MODULE CacheLifecycle ---------------------------
(***************************************************************************)
(* The lifecycle of the objects of one cache family (aros-cache), as the   *)
(* processes see it that share its root: obtaining objects under leases,   *)
(* keeping a selection under a named retention receipt, releasing it, and  *)
(* removing an object with the token of an earlier preview.                *)
(*                                                                         *)
(* Every operation is a sequence of steps, and the steps of the processes  *)
(* interleave.  Only the advisory locks keep them apart: a lease of an     *)
(* object is shared or exclusive and is never waited for; the lock of a    *)
(* receipt's publication journal is.                                       *)
(***************************************************************************)
EXTENDS Integers, FiniteSets

CONSTANTS
    Process,     \* what shares the cache: processes, or threads of one
    Objects,     \* how many objects the family has
    Tree,        \* the objects that are directory trees, not regular files
    Name,        \* names of retention references
    NoName,      \* the name in an operation that has none
    Ops,         \* the operations that are used
    MaxVersion,  \* bound: the last version of an object that is written
    MaxTokens,   \* bound: how many tokens are outstanding at a time
    Faults       \* whether processes die and system calls fail

\* The objects of a family, in the order of their portable paths.
Object == 1..Objects

Kinds == {"open", "fetch", "keep", "preview", "remove", "showRelease", "release"}

ASSUME CacheAssumption ==
    /\ Objects \in Nat \ {0}
    /\ Tree \subseteq Object
    /\ NoName \notin Name
    /\ Ops \subseteq Kinds
    /\ MaxVersion \in Nat \ {0, 1}
    /\ MaxTokens \in Nat \ {0}
    /\ Faults \in BOOLEAN

(***************************************************************************)
(* What is at an object's path: nothing, what a verifier rejects, or one   *)
(* of the versions that were written, told apart by identity and digest.   *)
(***************************************************************************)
Absent == 0
Damaged == 1
Version == 0..MaxVersion
Intact(v) == v > Damaged

(***************************************************************************)
(* A receipt records the version of every object it retains.               *)
(***************************************************************************)
Receipt == [Object -> Version]
NoReceipt == [o \in Object |-> Absent]

RemovalToken == [object : Object, proof : Version, blockers : SUBSET Name]
ReleaseToken == [name : Name, receipt : Receipt]
Token == RemovalToken \cup ReleaseToken
NoToken == [none |-> TRUE]

VARIABLES
    object,        \* object[o]: the version at o's path
    receipt,       \* receipt[n]: the receipt called n
    journals,      \* the names whose publication journal is in the directory
    written,       \* the last version that was written
    pc,            \* pc[p]: the step p is at
    job,           \* job[p]: the operation p is doing
    shared,        \* shared[p]: the objects p has a shared lock on
    exclusive,     \* exclusive[p]: the objects p has an exclusive lock on
    tokens         \* the tokens that previews have shown and are not expired

store == <<object, receipt, journals, written>>
locks == <<shared, exclusive>>
vars == <<store, pc, job, locks, tokens>>

Job == [kind : Kinds,
        objs : SUBSET Object,            \* the selection
        force : BOOLEAN,                 \* download even what is there
        todo : SUBSET Object,            \* still to be downloaded
        name : Name \cup {NoName},       \* the receipt to publish or release
        seen : Receipt,                  \* the versions that were measured
        unread : SUBSET Name,            \* listed receipts not yet read
        token : Token \cup {NoToken},    \* the token to apply
        blockers : SUBSET Name]          \* receipts that retain the selection

NewJob(kind, objs, force, n, token) ==
    [kind |-> kind, objs |-> objs, force |-> force, todo |-> {}, name |-> n,
     seen |-> NoReceipt, unread |-> {}, token |-> token, blockers |-> {}]

\* What an idle process has.
IdleJob(p) == NewJob("open", {}, FALSE, NoName, NoToken)

Init ==
    /\ object \in [Object -> 0..2]
    /\ receipt = [n \in Name |-> NoReceipt]
    /\ journals = {}
    /\ written = 2
    /\ pc = [p \in Process |-> "idle"]
    /\ job = [p \in Process |-> IdleJob(p)]
    /\ shared = [p \in Process |-> {}]
    /\ exclusive = [p \in Process |-> {}]
    /\ tokens = {}

-----------------------------------------------------------------------------
(***************************************************************************)
(* Steps of an operation.                                                  *)
(***************************************************************************)

\* p goes from one step of its operation to another.
Go(p, from, to) == pc[p] = from /\ pc' = [pc EXCEPT ![p] = to]

\* p's operation returns, or dies: every lock it has is closed with its file.
Done(p) ==
    /\ pc' = [pc EXCEPT ![p] = "idle"]
    /\ job' = [job EXCEPT ![p] = IdleJob(p)]
    /\ shared' = [shared EXCEPT ![p] = {}]
    /\ exclusive' = [exclusive EXCEPT ![p] = {}]

\* p begins an operation at the given step.
Begin(p, step, kind, objs, force, n, token) ==
    /\ kind \in Ops
    /\ Go(p, "idle", step)
    /\ job' = [job EXCEPT ![p] = NewJob(kind, objs, force, n, token)]
    /\ UNCHANGED <<store, locks, tokens>>

\* A preview returns the token t; older ones may expire meanwhile.
Show(t) ==
    \E others \in SUBSET tokens :
        /\ tokens' = others \cup {t}
        /\ Cardinality(tokens') <= MaxTokens

\* Who has the lock of a publication journal, or of a receipt, can be told
\* from where the process is.
Publishing(p, n) == pc[p] \in {"check", "rename", "unjournal"} /\ job[p].name = n
Releasing(p, n) == pc[p] \in {"compareReceipt", "removeReceipt"} /\ job[p].name = n

(***************************************************************************)
(* Leases.  Objects are locked one by one in the order of their paths, and *)
(* the first that is taken ends the operation.                             *)
(***************************************************************************)
AfterLock(kind) ==
    IF kind = "open" THEN "verify"
    ELSE IF kind = "fetch" THEN "preflight"
    ELSE IF kind = "keep" THEN "validate"
    ELSE "measure"

\* The next object for p to lock is o.
NextToLock(p, o) ==
    LET rest == job[p].objs \ (shared[p] \cup exclusive[p]) IN
    o \in rest /\ \A other \in rest : o <= other

\* A bug: a writer does not mind the readers.
AvailableReaders(p, o) == \A q \in Process \ {p} : o \notin exclusive[q]

Available(p, o) ==
    \A q \in Process \ {p} :
        o \notin exclusive[q] /\ (job[p].kind = "open" \/ o \notin shared[q])

AcquireLock(p) ==
    \E o \in Object :
        LET last == job[p].objs \subseteq shared[p] \cup exclusive[p] \cup {o} IN
        /\ NextToLock(p, o) /\ Available(p, o)
        /\ Go(p, "lock", IF last THEN AfterLock(job[p].kind) ELSE "lock")
        /\ IF job[p].kind = "open"
           THEN /\ shared' = [shared EXCEPT ![p] = @ \cup {o}]
                /\ UNCHANGED exclusive
           ELSE /\ exclusive' = [exclusive EXCEPT ![p] = @ \cup {o}]
                /\ UNCHANGED shared
        /\ UNCHANGED <<store, job, tokens>>

LockTaken(p) ==
    /\ pc[p] = "lock" /\ \E o \in Object : NextToLock(p, o) /\ ~ Available(p, o)
    /\ Done(p)
    /\ UNCHANGED <<store, tokens>>

(***************************************************************************)
(* Reading and downloading.  The archive cache looks before it locks, to   *)
(* choose between a read and a write lease, and looks again under the      *)
(* latter.  The source cache locks a closure of objects.                   *)
(***************************************************************************)
Obtain(p, o, force) ==
    LET kind == IF object[o] # Absent /\ ~ force THEN "open" ELSE "fetch" IN
    Begin(p, "lock", kind, {o}, force, NoName, NoToken)

OpenVerified(p, objs) == Begin(p, "lock", "open", objs, FALSE, NoName, NoToken)

FetchRequest(p, objs) == Begin(p, "lock", "fetch", objs, FALSE, NoName, NoToken)

\* What is there must verify before anything is downloaded.
Preflight(p) ==
    LET missing == {o \in job[p].objs : object[o] = Absent} IN
    /\ pc[p] = "preflight"
    /\ UNCHANGED <<store, tokens>>
    /\ IF job[p].force \/ \A o \in job[p].objs \ missing : Intact(object[o])
       THEN /\ Go(p, "preflight", "download")
            /\ job' = [job EXCEPT ![p].todo = IF job[p].force THEN job[p].objs ELSE missing]
            /\ UNCHANGED locks
       ELSE Done(p)

\* The download is verified in a temporary file and renamed into place.
Download(p) ==
    \E o \in job[p].todo :
        /\ Go(p, "download", "download")
        /\ written < MaxVersion
        /\ object' = [object EXCEPT ![o] = written + 1]
        /\ written' = written + 1
        /\ job' = [job EXCEPT ![p].todo = @ \ {o}]
        /\ UNCHANGED <<receipt, journals, locks, tokens>>

\* Offline, or the transport failed.
DownloadFails(p) ==
    /\ pc[p] = "download" /\ job[p].todo # {}
    /\ Done(p)
    /\ UNCHANGED <<store, tokens>>

Downloaded(p) ==
    /\ Go(p, "download", "verify") /\ job[p].todo = {}
    /\ UNCHANGED <<store, job, locks, tokens>>

\* The lease is handed to the caller with what was verified under it.
Verify(p) ==
    /\ pc[p] = "verify"
    /\ UNCHANGED <<store, tokens>>
    /\ IF \A o \in job[p].objs : Intact(object[o])
       THEN /\ Go(p, "verify", "using")
            /\ job' = [job EXCEPT ![p].seen =
                           [o \in Object |-> IF o \in job[p].objs THEN object[o] ELSE Absent]]
            /\ UNCHANGED locks
       ELSE Done(p)

EndUse(p) ==
    /\ pc[p] = "using"
    /\ Done(p)
    /\ UNCHANGED <<store, tokens>>

(***************************************************************************)
(* Keeping a selection: it is validated and measured with all of its locks *)
(* held, and the receipt is published without ever replacing another.      *)
(***************************************************************************)
Keep(p, objs, n) == Begin(p, "lock", "keep", objs, FALSE, n, NoToken)

\* A bug: nobody validates the selection.
ValidateNothing(p) ==
    /\ Go(p, "validate", "journal")
    /\ job' = [job EXCEPT ![p].seen =
                   [o \in Object |-> IF o \in job[p].objs THEN object[o] ELSE Absent]]
    /\ UNCHANGED <<store, locks, tokens>>

Validate(p) ==
    /\ pc[p] = "validate"
    /\ UNCHANGED <<store, tokens>>
    /\ IF \A o \in job[p].objs : Intact(object[o])
       THEN /\ Go(p, "validate", "journal")
            /\ job' = [job EXCEPT ![p].seen =
                           [o \in Object |-> IF o \in job[p].objs THEN object[o] ELSE Absent]]
            /\ UNCHANGED locks
       ELSE Done(p)

\* Waits for the journal's lock, then clears away what an interrupted
\* publication of the same receipt left: its stage and journal, never a target.
LockJournal(p) ==
    /\ \A q \in Process : ~ Publishing(q, job[p].name)
    /\ Go(p, "journal", "check")
    /\ journals' = journals \ {job[p].name}
    /\ UNCHANGED <<object, receipt, written, job, locks, tokens>>

\* A bug: waits until the name is free.
CheckNameAndWait(p) ==
    /\ Go(p, "check", "rename") /\ receipt[job[p].name] = NoReceipt
    /\ journals' = journals \cup {job[p].name}
    /\ UNCHANGED <<object, receipt, written, job, locks, tokens>>

CheckName(p) ==
    /\ pc[p] = "check"
    /\ UNCHANGED <<object, receipt, written, tokens>>
    /\ IF receipt[job[p].name] = NoReceipt
       THEN /\ Go(p, "check", "rename")
            /\ journals' = journals \cup {job[p].name}
            /\ UNCHANGED <<job, locks>>
       ELSE Done(p) /\ UNCHANGED journals

PublishReceipt(p) ==
    /\ Go(p, "rename", "unjournal")
    /\ receipt[job[p].name] = NoReceipt
    /\ receipt' = [receipt EXCEPT ![job[p].name] = job[p].seen]
    /\ UNCHANGED <<object, journals, written, job, locks, tokens>>

\* A publication that failed before its rename, or succeeded, and cleaned up.
RemoveJournal(p) ==
    /\ pc[p] = "unjournal" \/ (Faults /\ pc[p] = "rename")
    /\ journals' = journals \ {job[p].name}
    /\ Done(p)
    /\ UNCHANGED <<object, receipt, written, tokens>>

(***************************************************************************)
(* Removing an object: what a preview does without a lock is done again    *)
(* under an exclusive one, and must yield the same token.                  *)
(***************************************************************************)
PreviewRemoval(p, o) == Begin(p, "measure", "preview", {o}, FALSE, NoName, NoToken)

\* With any token a preview has shown, to whomever, and that has not expired.
ApplyRemoval(p, o) ==
    \E t \in tokens \cap RemovalToken : Begin(p, "lock", "remove", {o}, FALSE, NoName, t)

Measure(p) ==
    \E o \in job[p].objs :
        /\ pc[p] \in {"measure", "remeasure"}
        /\ UNCHANGED <<store, tokens>>
        /\ IF object[o] # Absent
           THEN /\ pc' = [pc EXCEPT ![p] = IF pc[p] = "measure" THEN "list" ELSE "unlink"]
                /\ job' = [job EXCEPT ![p].seen = [NoReceipt EXCEPT ![o] = object[o]]]
                /\ UNCHANGED locks
           ELSE Done(p)

\* A journal or stage in the retention directory is an unsupported entry.
ListReceipts(p) ==
    /\ pc[p] = "list"
    /\ UNCHANGED <<store, tokens>>
    /\ IF journals = {}
       THEN /\ Go(p, "list", "read")
            /\ job' = [job EXCEPT ![p].unread = {n \in Name : receipt[n] # NoReceipt}]
            /\ UNCHANGED locks
       ELSE Done(p)

\* A receipt that has disappeared since it was listed is an error.
ReadReceipt(p) ==
    \E n \in job[p].unread, o \in job[p].objs :
        /\ pc[p] = "read"
        /\ UNCHANGED <<store, tokens>>
        /\ IF receipt[n] # NoReceipt
           THEN /\ job' = [job EXCEPT ![p].unread = @ \ {n},
                               ![p].blockers = IF receipt[n][o] # Absent THEN @ \cup {n} ELSE @]
                /\ UNCHANGED <<pc, locks>>
           ELSE Done(p)

\* The token that what was measured and read amounts to.
TokenOf(p, o) == [object |-> o, proof |-> job[p].seen[o], blockers |-> job[p].blockers]

ShowRemoval(p) ==
    \E o \in job[p].objs :
        /\ pc[p] = "read" /\ job[p].unread = {} /\ job[p].kind = "preview"
        /\ Show(TokenOf(p, o))
        /\ Done(p)
        /\ UNCHANGED store

\* A bug: the token must match, and nobody looks at its blockers.
CompareTokenOnly(p) ==
    \E o \in job[p].objs :
        /\ pc[p] = "read" /\ job[p].unread = {} /\ job[p].kind = "remove"
        /\ UNCHANGED <<store, tokens>>
        /\ IF TokenOf(p, o) = job[p].token
           THEN Go(p, "read", "remeasure") /\ UNCHANGED <<job, locks>>
           ELSE Done(p)

\* A bug: what matters is that nothing blocks the removal now.
CompareBlockersOnly(p) ==
    \E o \in job[p].objs :
        /\ pc[p] = "read" /\ job[p].unread = {} /\ job[p].kind = "remove"
        /\ UNCHANGED <<store, tokens>>
        /\ IF o = job[p].token.object /\ job[p].blockers = {}
           THEN Go(p, "read", "remeasure") /\ UNCHANGED <<job, locks>>
           ELSE Done(p)

CompareToken(p) ==
    \E o \in job[p].objs :
        /\ pc[p] = "read" /\ job[p].unread = {} /\ job[p].kind = "remove"
        /\ UNCHANGED <<store, tokens>>
        /\ IF TokenOf(p, o) = job[p].token /\ job[p].blockers = {}
           THEN Go(p, "read", "remeasure") /\ UNCHANGED <<job, locks>>
           ELSE Done(p)

\* Removes only what the last measurement saw; a tree goes entry by entry.
RemoveObject(p) ==
    \E o \in job[p].objs :
        /\ pc[p] = "unlink"
        /\ UNCHANGED <<receipt, journals, written, tokens>>
        /\ IF object[o] # job[p].seen[o]
           THEN Done(p) /\ UNCHANGED object
           ELSE \/ object' = [object EXCEPT ![o] = Absent] /\ Done(p)
                \/ /\ o \in Tree
                   /\ object' = [object EXCEPT ![o] = Damaged]
                   /\ Go(p, "unlink", "removing")
                   /\ UNCHANGED <<job, locks>>

RemoveRest(p) ==
    \E o \in job[p].objs :
        /\ pc[p] = "removing"
        /\ object' = [object EXCEPT ![o] = Absent]
        /\ Done(p)
        /\ UNCHANGED <<receipt, journals, written, tokens>>

(***************************************************************************)
(* Releasing a receipt, under a lock that only other releases of it take.  *)
(***************************************************************************)
PreviewRelease(p, n) ==
    /\ "showRelease" \in Ops
    /\ pc[p] = "idle" /\ receipt[n] # NoReceipt
    /\ Show([name |-> n, receipt |-> receipt[n]])
    /\ UNCHANGED <<store, pc, job, locks>>

ApplyRelease(p, n) ==
    \E t \in tokens \cap ReleaseToken :
        /\ \A q \in Process : ~ Releasing(q, n)
        /\ Begin(p, "compareReceipt", "release", {}, FALSE, n, t)

\* A bug: a token of the same name will do.
CompareName(p) ==
    LET n == job[p].name IN
    /\ pc[p] = "compareReceipt"
    /\ UNCHANGED <<store, tokens>>
    /\ IF receipt[n] # NoReceipt /\ job[p].token.name = n
       THEN /\ Go(p, "compareReceipt", "removeReceipt")
            /\ job' = [job EXCEPT ![p].seen = receipt[n]]
            /\ UNCHANGED locks
       ELSE Done(p)

CompareReceipt(p) ==
    LET n == job[p].name IN
    /\ pc[p] = "compareReceipt"
    /\ UNCHANGED <<store, tokens>>
    /\ IF receipt[n] # NoReceipt /\ job[p].token = [name |-> n, receipt |-> receipt[n]]
       THEN /\ Go(p, "compareReceipt", "removeReceipt")
            /\ job' = [job EXCEPT ![p].seen = receipt[n]]
            /\ UNCHANGED locks
       ELSE Done(p)

RemoveReceipt(p) ==
    LET n == job[p].name IN
    /\ pc[p] = "removeReceipt"
    /\ receipt' = [receipt EXCEPT ![n] = IF @ = job[p].seen THEN NoReceipt ELSE @]
    /\ Done(p)
    /\ UNCHANGED <<object, journals, written, tokens>>

(***************************************************************************)
(* What comes from outside: tokens expire after five minutes, processes    *)
(* die, and a failing call ends an operation where it stands.              *)
(***************************************************************************)
Expire ==
    /\ \E t \in tokens : tokens' = tokens \ {t}
    /\ UNCHANGED <<store, pc, job, locks>>

Stop(p) ==
    /\ Faults /\ pc[p] # "idle"
    /\ Done(p)
    /\ UNCHANGED <<store, tokens>>

Start(p) ==
    \/ \E o \in Object, force \in BOOLEAN : Obtain(p, o, force)
    \/ \E objs \in SUBSET Object \ {{}} :
          OpenVerified(p, objs) \/ FetchRequest(p, objs) \/ \E n \in Name : Keep(p, objs, n)
    \/ \E o \in Object : PreviewRemoval(p, o) \/ ApplyRemoval(p, o)
    \/ \E n \in Name : PreviewRelease(p, n) \/ ApplyRelease(p, n)

Continue(p) ==
    \/ AcquireLock(p) \/ LockTaken(p)
    \/ Preflight(p) \/ Download(p) \/ DownloadFails(p) \/ Downloaded(p) \/ Verify(p) \/ EndUse(p)
    \/ Validate(p) \/ LockJournal(p) \/ CheckName(p) \/ PublishReceipt(p) \/ RemoveJournal(p)
    \/ Measure(p) \/ ListReceipts(p) \/ ReadReceipt(p) \/ ShowRemoval(p) \/ CompareToken(p)
    \/ RemoveObject(p) \/ RemoveRest(p)
    \/ CompareReceipt(p) \/ RemoveReceipt(p)

Next ==
    \/ \E p \in Process : Start(p) \/ Continue(p) \/ Stop(p)
    \/ Expire

Spec == Init /\ [][Next]_vars

\* An operation that has begun goes on; the journal's lock is the only wait.
FairSpec == Spec /\ \A p \in Process : WF_vars(Continue(p))
-----------------------------------------------------------------------------
Steps == {"idle", "lock", "preflight", "download", "verify", "using", "validate", "journal",
          "check", "rename", "unjournal", "measure", "list", "read", "remeasure", "unlink",
          "removing", "compareReceipt", "removeReceipt"}

\* The variables have the values their declarations say.
TypeOK ==
    /\ object \in [Object -> Version]
    /\ receipt \in [Name -> Receipt]
    /\ journals \subseteq Name
    /\ written \in Version
    /\ pc \in [Process -> Steps]
    /\ job \in [Process -> Job]
    /\ shared \in [Process -> SUBSET Object]
    /\ exclusive \in [Process -> SUBSET Object]
    /\ tokens \subseteq Token

(***************************************************************************)
(* "A retained object cannot be removed": whatever a receipt names is      *)
(* there and verifies, although a removal reads the receipts one by one    *)
(* and keeps, downloads and releases go on meanwhile.                      *)
(***************************************************************************)
RetainedIntact ==
    \A n \in Name, o \in Object : receipt[n][o] # Absent => Intact(object[o])

(***************************************************************************)
(* While a caller of obtain_archive, open_verified_archive or              *)
(* open_verified_request has its lease, what was verified under it stays.  *)
(***************************************************************************)
LeasedUnchanged ==
    \A p \in Process : pc[p] = "using" =>
        \A o \in job[p].objs : object[o] = job[p].seen[o] /\ Intact(object[o])

(***************************************************************************)
(* apply_removal destroys only the very object that a preview showed with  *)
(* no receipt in its way, although what it removes is measured once more   *)
(* after the tokens were compared.                                         *)
(***************************************************************************)
RemovesPreviewed ==
    [][\A o \in Object : Intact(object[o]) /\ ~ Intact(object'[o]) =>
          \E p \in Process :
              /\ pc[p] = "unlink"
              /\ job[p].token = [object |-> o, proof |-> object[o], blockers |-> {}]]_vars

(***************************************************************************)
(* keep_many_validated publishes a receipt only of what is in the cache at *)
(* that moment, all of it verified, and never in the place of another.     *)
(***************************************************************************)
ReceiptsAccurate ==
    [][\A n \in Name : receipt'[n] \notin {NoReceipt, receipt[n]} =>
          /\ receipt[n] = NoReceipt
          /\ \A o \in Object : receipt'[n][o] # Absent =>
                receipt'[n][o] = object[o] /\ Intact(object[o])]_vars

(***************************************************************************)
(* apply_retention_release removes only a receipt with the contents that a *)
(* preview of the same name has shown.                                     *)
(***************************************************************************)
ReleasesPreviewed ==
    [][\A n \in Name : receipt[n] # NoReceipt /\ receipt'[n] = NoReceipt =>
          \E p \in Process :
              /\ pc[p] = "removeReceipt"
              /\ job[p].token = [name |-> n, receipt |-> receipt[n]]]_vars

(***************************************************************************)
(* Once no operation is begun any more, all of them return: nobody waits   *)
(* for ever, for a lease or for the lock of a publication journal.         *)
(***************************************************************************)
OperationsEnd ==
    <>[][\A p \in Process : pc[p] = "idle" => pc'[p] = "idle"]_vars
        => <>[](\A p \in Process : pc[p] = "idle")

-----------------------------------------------------------------------------
(***************************************************************************)
(* Why it is so: the inductive invariant.  What an operation has measured  *)
(* stays true for as long as it holds the locks of its objects.            *)
(***************************************************************************)

\* Steps of writers, of keepers, and of a removal once its token is accepted.
Owning == {"preflight", "download", "validate", "journal", "check", "rename", "remeasure",
           "unlink", "removing"}

\* p has the locks that its step relies on.
Holds(p) ==
    /\ pc[p] = "idle" => shared[p] = {} /\ exclusive[p] = {}
    /\ pc[p] = "lock" => job[p].kind \in {"open", "fetch", "keep", "remove"}
    /\ shared[p] # {} => job[p].kind = "open" /\ pc[p] \in {"lock", "verify", "using"}
    /\ pc[p] \in Owning => job[p].objs \subseteq exclusive[p]
    /\ pc[p] \in {"measure", "list", "read"} /\ job[p].kind = "remove" =>
           job[p].objs \subseteq exclusive[p]
    /\ pc[p] \in {"verify", "using"} => job[p].objs \subseteq shared[p] \cup exclusive[p]

\* p works on what was selected: the receipt that was named, downloads of the
\* selection only, and the removal of a single object.
Selected(p) ==
    /\ pc[p] \in {"validate", "journal", "check", "rename", "unjournal"} => job[p].kind = "keep"
    /\ pc[p] \in {"compareReceipt", "removeReceipt"} => job[p].kind = "release"
    /\ job[p].kind \in {"keep", "release"} => job[p].name \in Name
    /\ pc[p] = "download" => job[p].todo \subseteq job[p].objs
    /\ job[p].kind \in {"preview", "remove"} => \A a, b \in job[p].objs : a = b
    /\ pc[p] \in {"measure", "list", "read"} => job[p].kind \in {"preview", "remove"}
    /\ pc[p] \in {"remeasure", "unlink", "removing"} => job[p].kind = "remove"

\* What p has measured under its locks is still so.
Measured(p) ==
    /\ pc[p] \in {"journal", "check", "rename"} =>
           \A o \in Object : job[p].seen[o] # Absent =>
               o \in job[p].objs /\ job[p].seen[o] = object[o] /\ Intact(object[o])
    /\ pc[p] = "using" =>
           \A o \in job[p].objs : object[o] = job[p].seen[o] /\ Intact(object[o])
    /\ pc[p] \in {"list", "read"} /\ job[p].kind = "remove" =>
           \A o \in job[p].objs : job[p].seen[o] = object[o]
    /\ pc[p] \in {"remeasure", "unlink"} =>
           \A o \in job[p].objs :
               job[p].token = [object |-> o, proof |-> object[o], blockers |-> {}]
    /\ pc[p] = "removing" => \A o \in job[p].objs : ~ Intact(object[o])
    /\ pc[p] = "removeReceipt" =>
           job[p].token = [name |-> job[p].name, receipt |-> job[p].seen]

\* No receipt has escaped a removal that p applies.
Cleared(p) ==
    /\ pc[p] = "read" /\ job[p].kind = "remove" =>
           \A o \in job[p].objs, n \in Name : receipt[n][o] # Absent =>
               n \in job[p].unread \cup job[p].blockers
    /\ pc[p] \in {"remeasure", "unlink", "removing"} =>
           \A o \in job[p].objs, n \in Name : receipt[n][o] = Absent

ProcessInv(p) == Holds(p) /\ Selected(p) /\ Measured(p) /\ Cleared(p)

\* An exclusive lock is the only one of its object.
Exclusion ==
    \A p, q \in Process : p # q => exclusive[p] \cap (exclusive[q] \cup shared[q]) = {}

(***************************************************************************)
(* The locks exclude each other, every process is where its locks and its  *)
(* measurements allow it to be, and RetainedIntact holds.                  *)
(***************************************************************************)
CacheInv ==
    /\ written > Damaged
    /\ Exclusion
    /\ RetainedIntact
    /\ \A p \in Process : ProcessInv(p)
=============================================================================
