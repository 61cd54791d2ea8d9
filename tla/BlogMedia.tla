------------------------------ MODULE BlogMedia ------------------------------
(***************************************************************************)
(* Uploads of blog media (app/blog/media.py) and the reconciliation of     *)
(* orphaned objects (app/blog/orphans.py).                                 *)
(*                                                                         *)
(* An upload names its object by the client's token, so that a retry meets *)
(* the first attempt.  A transaction advisory lock on the name serialises  *)
(* the attempts from the lookup to the commit, in whatever process they    *)
(* run.  The bucket keeps versions: a put adds one, a delete that names a  *)
(* version removes it, a delete that names none hides what is there.       *)
(***************************************************************************)
EXTENDS Naturals, Sequences

CONSTANTS
    Token,      \* names of objects
    File,       \* contents
    Slots,      \* the semaphore of uploads
    MaxUploads, \* uploads of a run
    MaxLosses   \* database connections that are lost in a run

ASSUME BlogBoundsAssumption == Slots \in Nat /\ MaxUploads \in Nat /\ MaxLosses \in Nat

VARIABLES
    bucket,     \* the versions of an object, the newest last
    asset,      \* blog_assets: the registered file of an object
    upload,     \* what each request does
    limbo,      \* a commit the database has not answered; its lock is held
    reconciler, \* the operator's reconciliation
    answers,    \* what successful uploads were told: token and file
    severed,    \* objects an upload wrote or hid after its connection was lost
    uploads,    \* uploads so far, each numbers the version it puts
    losses      \* connections lost so far

blogMediaVars == <<bucket, asset, upload, limbo, reconciler, answers, severed, uploads, losses>>

Upload == 1..Slots
NoFile == "none"
ASSUME FileAssumption == NoFile \notin File
Marker == [id |-> 0]
Gone == [at |-> "gone"]

BlogMediaInit ==
    /\ bucket = [k \in Token |-> <<>>]
    /\ asset = [k \in Token |-> NoFile]
    /\ upload = [u \in Upload |-> Gone]
    /\ limbo = [k \in Token |-> NoFile]
    /\ reconciler = Gone
    /\ answers = {}
    /\ severed = {}
    /\ uploads = 0
    /\ losses = 0

\* What a client of the bucket sees under a name.
Newest(k) == IF bucket[k] = <<>> THEN Marker ELSE bucket[k][Len(bucket[k])]
Visible(k) == Newest(k) # Marker
\* An upload puts one version at most.
Without(k, id) ==
    [bucket EXCEPT ![k] =
        IF \E i \in DOMAIN @ : @[i].id = id
        THEN LET i == CHOOSE i \in DOMAIN @ : @[i].id = id
             IN SubSeq(@, 1, i - 1) \o SubSeq(@, i + 1, Len(@))
        ELSE @]

InSlot == {u \in Upload : upload[u] # Gone}
FreeSlot(u) == upload[u] = Gone /\ 1..(u - 1) \subseteq InSlot
UnderLock == {"reuse", "put", "clean", "insert", "drop", "commit"}
LockedName(k) ==
    \/ limbo[k] # NoFile
    \/ reconciler # Gone /\ reconciler.token = k
    \/ \E u \in InSlot : upload[u].at \in UnderLock /\ upload[u].token = k /\ upload[u].connected

MovesTo(u, place) == upload' = [upload EXCEPT ![u].at = place]
Leaves(u) == upload' = [upload EXCEPT ![u] = Gone]

-----------------------------------------------------------------------------
\* A free slot, or 429; the body goes to a temporary file and is probed.
BeginUpload(u, k, f) ==
    /\ FreeSlot(u)
    /\ uploads < MaxUploads
    /\ uploads' = uploads + 1
    /\ upload' = [upload EXCEPT ![u] = [at |-> "probe", token |-> k, file |-> f,
                                        id |-> uploads + 1, connected |-> TRUE]]
    /\ UNCHANGED <<bucket, asset, limbo, reconciler, answers, severed, losses>>

\* An avatar takes a slot as well; its object is named by its content.
BeginAvatar(u) ==
    /\ FreeSlot(u)
    /\ upload' = [upload EXCEPT ![u] = [at |-> "avatar"]]
    /\ UNCHANGED <<bucket, asset, limbo, reconciler, answers, severed, uploads, losses>>

Probed(u) == /\ upload[u].at = "probe"
             /\ MovesTo(u, "lock")
             /\ UNCHANGED <<bucket, asset, limbo, reconciler, answers, severed, uploads, losses>>

\* Mutant: the attempts are not serialised.
LookUpUnlocked(u) ==
    /\ upload[u].at = "lock"
    /\ MovesTo(u, IF asset[upload[u].token] = NoFile THEN "put" ELSE "reuse")
    /\ UNCHANGED <<bucket, asset, limbo, reconciler, answers, severed, uploads, losses>>

\* The lock, and the lookup under it.
LockAndLookUp(u) ==
    /\ upload[u].at = "lock"
    /\ ~LockedName(upload[u].token)
    /\ MovesTo(u, IF asset[upload[u].token] = NoFile THEN "put" ELSE "reuse")
    /\ UNCHANGED <<bucket, asset, limbo, reconciler, answers, severed, uploads, losses>>

\* A registered object is reused if what is stored is the same file.
Reuse(u) ==
    /\ upload[u].at = "reuse"
    /\ LET k == upload[u].token
       IN answers' = IF Visible(k) /\ Newest(k).file = upload[u].file
                     THEN answers \cup {[token |-> k, file |-> upload[u].file]} ELSE answers
    /\ Leaves(u)
    /\ UNCHANGED <<bucket, asset, limbo, reconciler, severed, uploads, losses>>

Stored(u) == LET q == upload[u]
             IN [bucket EXCEPT ![q.token] = Append(@, [id |-> q.id, file |-> q.file, stale |-> FALSE])]

Touches(u) == severed' = IF upload[u].connected THEN severed ELSE severed \cup {upload[u].token}

Put(u) == /\ upload[u].at = "put"
          /\ bucket' = Stored(u)
          /\ Touches(u)
          /\ MovesTo(u, "insert")
          /\ UNCHANGED <<asset, limbo, reconciler, answers, uploads, losses>>

\* The put fails or is cancelled, whether or not the object was stored.
PutFails(u) == /\ upload[u].at = "put"
               /\ \/ UNCHANGED bucket
                  \/ bucket' = Stored(u)
               /\ Touches(u)
               /\ MovesTo(u, "clean")
               /\ UNCHANGED <<asset, limbo, reconciler, answers, uploads, losses>>

\* cleanup without a version: no row was there while the lock was held.
CleanUp(u) ==
    /\ upload[u].at = "clean"
    /\ bucket' = [bucket EXCEPT ![upload[u].token] = Append(@, Marker)]
    /\ Touches(u)
    /\ Leaves(u)
    /\ UNCHANGED <<asset, limbo, reconciler, answers, uploads, losses>>

Insert(u) == /\ upload[u].at = "insert"
             /\ upload[u].connected
             /\ MovesTo(u, "commit")
             /\ UNCHANGED <<bucket, asset, limbo, reconciler, answers, severed, uploads, losses>>

InsertFails(u) == /\ upload[u].at = "insert"
                  /\ MovesTo(u, "drop")
                  /\ UNCHANGED <<bucket, asset, limbo, reconciler, answers, severed, uploads, losses>>

\* Mutant: cleanup of whatever is newest.
DropNewest(u) ==
    /\ upload[u].at = "drop"
    /\ bucket' = [bucket EXCEPT ![upload[u].token] = Append(@, Marker)]
    /\ Leaves(u)
    /\ UNCHANGED <<asset, limbo, reconciler, answers, severed, uploads, losses>>

\* cleanup of the version that was put.
Drop(u) == /\ upload[u].at = "drop"
           /\ bucket' = Without(upload[u].token, upload[u].id)
           /\ Leaves(u)
           /\ UNCHANGED <<asset, limbo, reconciler, answers, severed, uploads, losses>>

CommitAsset(u) ==
    /\ upload[u].at = "commit"
    /\ upload[u].connected
    /\ asset' = [asset EXCEPT ![upload[u].token] = upload[u].file]
    /\ answers' = answers \cup {[token |-> upload[u].token, file |-> upload[u].file]}
    /\ Leaves(u)
    /\ UNCHANGED <<bucket, limbo, reconciler, severed, uploads, losses>>

\* The answer to the commit is lost: 503, and nothing is deleted.
CommitUncertain(u) ==
    /\ upload[u].at = "commit"
    /\ limbo' = IF upload[u].connected THEN [limbo EXCEPT ![upload[u].token] = upload[u].file]
                ELSE limbo
    /\ Leaves(u)
    /\ UNCHANGED <<bucket, asset, reconciler, answers, severed, uploads, losses>>

\* The database ends that transaction one way or the other.
Resolve(k) ==
    /\ limbo[k] # NoFile
    /\ limbo' = [limbo EXCEPT ![k] = NoFile]
    /\ \/ asset' = [asset EXCEPT ![k] = limbo[k]]
       \/ UNCHANGED asset
    /\ UNCHANGED <<bucket, upload, reconciler, answers, severed, uploads, losses>>

\* A refusal, a timeout (also of the lock), a cleanup that fails, a crash.
Break(u) == /\ upload[u] # Gone
            /\ Leaves(u)
            /\ UNCHANGED <<bucket, asset, limbo, reconciler, answers, severed, uploads, losses>>

\* The connection is lost, and with it the transaction and its lock.
LoseConnection(u) ==
    /\ upload[u] # Gone
    /\ upload[u].at \in {"put", "clean", "insert", "commit"}
    /\ upload[u].connected
    /\ losses < MaxLosses
    /\ losses' = losses + 1
    /\ upload' = [upload EXCEPT ![u].connected = FALSE]
    /\ UNCHANGED <<bucket, asset, limbo, reconciler, answers, severed, uploads>>

-----------------------------------------------------------------------------
\* A day passes: no upload lasts that long.
Age(k) == /\ Visible(k) /\ ~Newest(k).stale
          /\ InSlot = {} /\ limbo[k] = NoFile
          /\ bucket' = [bucket EXCEPT ![k] = [i \in DOMAIN @ |->
                          IF @[i] = Marker THEN @[i] ELSE [@[i] EXCEPT !.stale = TRUE]]]
          /\ UNCHANGED <<asset, upload, limbo, reconciler, answers, severed, uploads, losses>>

\* Under the lock: unregistered, and a day old.
Reconcile(k) ==
    /\ reconciler = Gone
    /\ ~LockedName(k)
    /\ asset[k] = NoFile
    /\ Visible(k) /\ Newest(k).stale
    /\ reconciler' = [token |-> k, id |-> Newest(k).id]
    /\ UNCHANGED <<bucket, asset, upload, limbo, answers, severed, uploads, losses>>

DeleteOrphan ==
    /\ reconciler # Gone
    /\ bucket' = Without(reconciler.token, reconciler.id)
    /\ reconciler' = Gone
    /\ UNCHANGED <<asset, upload, limbo, answers, severed, uploads, losses>>

BlogMediaNext ==
    \/ \E u \in Upload : \/ \E k \in Token, f \in File : BeginUpload(u, k, f)
                         \/ BeginAvatar(u) \/ Probed(u) \/ LockAndLookUp(u) \/ Reuse(u) \/ Put(u) \/ PutFails(u)
                         \/ CleanUp(u) \/ Insert(u) \/ InsertFails(u) \/ Drop(u) \/ CommitAsset(u)
                         \/ CommitUncertain(u) \/ Break(u) \/ LoseConnection(u)
    \/ \E k \in Token : Resolve(k) \/ Age(k) \/ Reconcile(k)
    \/ DeleteOrphan

BlogMediaSpec == BlogMediaInit /\ [][BlogMediaNext]_blogMediaVars

-----------------------------------------------------------------------------
(***************************************************************************)
(* A registered asset has its object, whatever attempts with the same      *)
(* token, failures of the bucket, uncertain commits and reconciliations    *)
(* happen around it.  The exception is an upload that puts, or cleans up   *)
(* without a version, after its connection was lost, and so its lock,      *)
(* without noticing.  An insert that fails for that reason removes only    *)
(* the version that was put, and is no exception.                          *)
(***************************************************************************)
RegisteredHasObject ==
    \A k \in Token \ severed : asset[k] # NoFile => Visible(k) /\ Newest(k).file = asset[k]

(***************************************************************************)
(* A client that is told its upload succeeded, at once or by a retry, has  *)
(* its own file under the token, and not that of another attempt (with the *)
(* same exception: reuse compares the file that is visible).               *)
(***************************************************************************)
AnsweredIsRegistered == \A a \in answers : asset[a.token] = a.file \/ a.token \in severed
=============================================================================
