---------------------------------- MODULE Files ----------------------------------
(***************************************************************************)
(* Uploaded pictures: a row of files and an object in S3 under one key.    *)
(* createUploadUrl saves the row and returns a form with which the client  *)
(* puts the object there itself; changeAvatar marks the row as taken; a    *)
(* nightly job removes what has been marked for a month, the object first, *)
(* then the row.  Nothing joins the two stores, and the job, the requests  *)
(* of users and the uploads interleave call by call.                       *)
(***************************************************************************)
EXTENDS FiniteSets

CONSTANTS
    Users,
    Keys,           \* keys of files, each drawn once (uuid)
    NoKey,
    Requests        \* requests of users in flight

ASSUME KeysAssumption == NoKey \notin Keys /\ IsFiniteSet(Keys)

VARIABLES
    file,       \* status of the row, "NONE" before it is inserted
    old,        \* taken, and updated_at more than a month ago
    form,       \* the upload form is still valid
    bucket,     \* keys with an object
    avatar,     \* users.avatar_key
    request,    \* what a request has in memory, and its next call
    todo,       \* files the job of this night has still to remove
    deleting    \* the file among them whose object it has just removed

rows == <<file, old, avatar>>
job  == <<todo, deleting>>
vars == <<rows, form, bucket, request, job>>

FileStatus == {"NONE", "ACTIVE", "INACTIVE", "REMOVED"}

Request == [user : Users, key : Keys \cup {NoKey}, call : {"saveFile", "saveUser"}]

Idle == [call |-> "none"]

(* A form is given away for a saved row only, and the job removes files of  *)
(* its list.                                                                *)
FilesTypeOK ==
    /\ file     \in [Keys -> FileStatus]
    /\ old      \in [Keys -> BOOLEAN]
    /\ form     \in [Keys -> BOOLEAN]
    /\ bucket   \in SUBSET Keys
    /\ avatar   \in [Users -> Keys \cup {NoKey}]
    /\ request  \in [Requests -> Request \cup {Idle}]
    /\ todo     \in SUBSET Keys
    /\ deleting \in todo \cup {NoKey}
    /\ \A k \in Keys : form[k] => file[k] # "NONE"

Init ==
    /\ file = [k \in Keys |-> "NONE"]
    /\ old = [k \in Keys |-> FALSE]
    /\ form = [k \in Keys |-> FALSE]
    /\ bucket = {}
    /\ avatar = [u \in Users |-> NoKey]
    /\ request = [r \in Requests |-> Idle]
    /\ todo = {}
    /\ deleting = NoKey

-----------------------------------------------------------------------------
(* StorageService, and the client at S3                                     *)

(* Mutant: the form is given away and the row not saved.                    *)
CreateUploadUrlOnly(k) ==
    /\ file[k] = "NONE" /\ ~form[k]
    /\ form' = [form EXCEPT ![k] = TRUE]
    /\ UNCHANGED <<rows, bucket, request, job>>

CreateUploadUrl(k) ==
    /\ file[k] = "NONE"
    /\ file' = [file EXCEPT ![k] = "ACTIVE"]
    /\ form' = [form EXCEPT ![k] = TRUE]
    /\ UNCHANGED <<old, avatar, bucket, request, job>>

Upload(k) ==
    /\ form[k]
    /\ bucket' = bucket \cup {k}
    /\ UNCHANGED <<rows, form, request, job>>

FormExpires(k) ==
    /\ form[k]
    /\ form' = [form EXCEPT ![k] = FALSE]
    /\ UNCHANGED <<rows, bucket, request, job>>

-----------------------------------------------------------------------------
(* UserService                                                              *)

(* Mutant: the file is never marked as taken.                               *)
ChangeAvatarUnmarked(r, u, k) ==
    /\ request[r] = Idle /\ file[k] = "ACTIVE"
    /\ request' = [request EXCEPT ![r] = [user |-> u, key |-> k, call |-> "saveUser"]]
    /\ UNCHANGED <<rows, form, bucket, job>>

(* A file that has not been taken yet is looked up, and will be.            *)
ChangeAvatar(r, u, k) ==
    /\ request[r] = Idle /\ file[k] = "ACTIVE"
    /\ request' = [request EXCEPT ![r] = [user |-> u, key |-> k, call |-> "saveFile"]]
    /\ UNCHANGED <<rows, form, bucket, job>>

SaveFile(r) ==
    /\ request[r].call = "saveFile"
    /\ file' = [file EXCEPT ![request[r].key] = "INACTIVE"]
    /\ request' = [request EXCEPT ![r].call = "saveUser"]
    /\ UNCHANGED <<old, avatar, form, bucket, job>>

(* changePassword saves the whole row too, with the avatar it has read.     *)
ChangePassword(r, u) ==
    /\ request[r] = Idle
    /\ request' = [request EXCEPT ![r] =
                     [user |-> u, key |-> avatar[u], call |-> "saveUser"]]
    /\ UNCHANGED <<rows, form, bucket, job>>

SaveUser(r) ==
    /\ request[r].call = "saveUser"
    /\ avatar' = [avatar EXCEPT ![request[r].user] = request[r].key]
    /\ request' = [request EXCEPT ![r] = Idle]
    /\ UNCHANGED <<file, old, form, bucket, job>>

Crash(r) ==
    /\ request[r] # Idle
    /\ request' = [request EXCEPT ![r] = Idle]
    /\ UNCHANGED <<rows, form, bucket, job>>

-----------------------------------------------------------------------------
(* RemoveFileJob.  A request takes no month, nor is a form valid that long. *)

MonthPasses(k) ==
    /\ file[k] = "INACTIVE" /\ ~old[k] /\ ~form[k]
    /\ \A r \in Requests : request[r].call = "saveFile" => request[r].key # k
    /\ old' = [old EXCEPT ![k] = TRUE]
    /\ UNCHANGED <<file, avatar, form, bucket, request, job>>

(* Mutant: the query does not ask for the age.                              *)
TakenFiles == {k \in Keys : file[k] = "INACTIVE"}

UnusedFiles == {k \in Keys : file[k] = "INACTIVE" /\ old[k]}

(* A run is over before the next night's begins.                            *)
RemoveUnusedFiles ==
    /\ todo = {} /\ UnusedFiles # {}
    /\ todo' = UnusedFiles
    /\ UNCHANGED <<rows, form, bucket, request, deleting>>

(* Mutant: the object is looked for in another bucket.                      *)
DeleteObjectElsewhere(k) ==
    /\ deleting = NoKey /\ k \in todo
    /\ deleting' = k
    /\ UNCHANGED <<rows, form, bucket, request, todo>>

DeleteObject(k) ==
    /\ deleting = NoKey /\ k \in todo
    /\ bucket' = bucket \ {k}
    /\ deleting' = k
    /\ UNCHANGED <<rows, form, request, todo>>

(* delete(file) asks for a row that agrees in every column, timestamps too: *)
(* PostgreSQL keeps microseconds, the object in memory milliseconds, so the *)
(* row may or may not be found.                                             *)
DeleteRow ==
    /\ deleting # NoKey
    /\ todo' = todo \ {deleting} /\ deleting' = NoKey
    /\ \E s \in {"REMOVED", file[deleting]} : file' = [file EXCEPT ![deleting] = s]
    /\ UNCHANGED <<old, avatar, form, bucket, request>>

(* A failure, or a restart of the worker, ends this night's run.            *)
JobFails ==
    /\ todo # {}
    /\ todo' = {} /\ deleting' = NoKey
    /\ UNCHANGED <<rows, form, bucket, request>>

-----------------------------------------------------------------------------
JobNext == RemoveUnusedFiles \/ (\E k \in Keys : DeleteObject(k)) \/ DeleteRow \/ JobFails

StorageNext ==
    \E k \in Keys : CreateUploadUrl(k) \/ Upload(k) \/ FormExpires(k) \/ MonthPasses(k)

UserNext ==
    \E r \in Requests :
        \/ \E u \in Users, k \in Keys : ChangeAvatar(r, u, k)
        \/ \E u \in Users : ChangePassword(r, u)
        \/ SaveFile(r)
        \/ SaveUser(r)
        \/ Crash(r)

Next == JobNext \/ StorageNext \/ UserNext

(* Time passes, and the process of the job goes on with its list, whose     *)
(* order is not known, unless something fails.  That it fails no more is    *)
(* not assumed, and nobody has to upload or to take anything.               *)
Fairness ==
    /\ \A k \in Keys : WF_vars(FormExpires(k)) /\ WF_vars(MonthPasses(k))
    /\ \A r \in Requests : WF_vars(SaveFile(r))
    /\ WF_vars(RemoveUnusedFiles)
    /\ WF_vars(\E k \in Keys : DeleteObject(k)) /\ WF_vars(DeleteRow)

Spec == Init /\ [][Next]_vars /\ Fairness

-----------------------------------------------------------------------------
(* Somebody's avatar, or about to be: changeAvatar has marked the file, or  *)
(* changePassword is going to save the avatar it has read.                  *)
InUse(k) ==
    \/ \E u \in Users : avatar[u] = k
    \/ \E r \in Requests : request[r].call = "saveUser" /\ request[r].key = k

(* An object always has a row, by which the job can find it: whatever is    *)
(* lost between the two stores, no object stays behind without one.         *)
ObjectsHaveRows == \A k \in bucket : file[k] \in {"ACTIVE", "INACTIVE"}

(* What is in use is refused to every changeAvatar that looks it up from    *)
(* then on (user.service.ts:87), even if it got there half way or was put   *)
(* back by changePassword.  It may be in use twice all the same: nothing    *)
(* stands between two requests that have both looked it up before either    *)
(* saves it (user.service.ts:79 and :96).                                   *)
InUseNotOffered == \A k \in Keys : InUse(k) => file[k] \in {"INACTIVE", "REMOVED"}

(* An object is removed only when its file has been taken for a month.      *)
RemovedAfterMonth ==
    [][\A k \in bucket \ bucket' : file[k] = "INACTIVE" /\ old[k]]_vars

=============================================================================
