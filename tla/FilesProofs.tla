------------------------------ MODULE FilesProofs ------------------------------
(***************************************************************************)
(* What Files keeps between PostgreSQL and S3, for any number of users,    *)
(* keys and requests: every object has its row, what is in use is offered   *)
(* to nobody any more, and only what was taken a month ago is removed.     *)
(***************************************************************************)
EXTENDS Files, TLAPS

(* A file that was taken a month ago has no form and is in nobody's hands   *)
(* any more; the job works on such files only, and the row goes after the   *)
(* object.                                                                  *)
OldIsQuiet ==
    \A k \in Keys : old[k] =>
        /\ file[k] \in {"INACTIVE", "REMOVED"} /\ ~form[k]
        /\ \A r \in Requests : request[r].call = "saveFile" => request[r].key # k

RemovedIsOld == \A k \in Keys : file[k] = "REMOVED" => old[k]

JobOnOldFiles ==
    /\ \A k \in todo : file[k] = "INACTIVE" /\ old[k]
    /\ deleting \notin bucket

(* A request that has still to mark its file looks at one that has a row;   *)
(* once it is about to save the user, the file has been marked.             *)
RequestsHoldFiles ==
    \A r \in Requests :
        /\ request[r].call = "saveFile" =>
              /\ request[r].key \in Keys
              /\ file[request[r].key] \in {"ACTIVE", "INACTIVE"}
        /\ request[r].call = "saveUser" /\ request[r].key # NoKey =>
              file[request[r].key] \in {"INACTIVE", "REMOVED"}

AvatarsHaveRows ==
    \A u \in Users : avatar[u] # NoKey => file[avatar[u]] \in {"INACTIVE", "REMOVED"}

FilesInv ==
    /\ FilesTypeOK
    /\ ObjectsHaveRows
    /\ OldIsQuiet
    /\ RemovedIsOld
    /\ JobOnOldFiles
    /\ RequestsHoldFiles
    /\ AvatarsHaveRows

LEMMA FilesInit == Init => FilesInv
BY KeysAssumption DEF Init, FilesInv, FilesTypeOK, FileStatus, ObjectsHaveRows, OldIsQuiet,
   RemovedIsOld, JobOnOldFiles, RequestsHoldFiles, AvatarsHaveRows, Idle

-----------------------------------------------------------------------------
LEMMA StorageKeepsInv ==
    ASSUME FilesInv, NEW k \in Keys,
           CreateUploadUrl(k) \/ Upload(k) \/ FormExpires(k) \/ MonthPasses(k)
    PROVE  FilesInv'
<1> USE KeysAssumption DEF FilesInv, FilesTypeOK, FileStatus, ObjectsHaveRows, OldIsQuiet,
        RemovedIsOld, JobOnOldFiles, RequestsHoldFiles, AvatarsHaveRows, Request, Idle,
        rows, job
<1>1. CASE CreateUploadUrl(k)
  BY <1>1 DEF CreateUploadUrl
<1>2. CASE Upload(k)
  BY <1>2 DEF Upload
<1>3. CASE FormExpires(k)
  BY <1>3 DEF FormExpires
<1>4. CASE MonthPasses(k)
  BY <1>4 DEF MonthPasses
<1> QED
  BY <1>1, <1>2, <1>3, <1>4

LEMMA JobKeepsInv == FilesInv /\ JobNext => FilesInv'
<1> SUFFICES ASSUME FilesInv, JobNext
             PROVE  FilesInv'
  OBVIOUS
<1> USE KeysAssumption DEF FilesInv, FilesTypeOK, FileStatus, ObjectsHaveRows, OldIsQuiet,
        RemovedIsOld, JobOnOldFiles, RequestsHoldFiles, AvatarsHaveRows, Request, Idle,
        rows, job
<1>1. CASE RemoveUnusedFiles
  BY <1>1 DEF RemoveUnusedFiles, UnusedFiles
<1>2. ASSUME NEW k \in Keys, DeleteObject(k)
      PROVE  FilesInv'
  BY <1>2 DEF DeleteObject
<1>3. CASE DeleteRow
  BY <1>3 DEF DeleteRow
<1>4. CASE JobFails
  BY <1>4 DEF JobFails
<1> QED
  BY <1>1, <1>2, <1>3, <1>4 DEF JobNext

LEMMA UserKeepsInv == FilesInv /\ UserNext => FilesInv'
<1> SUFFICES ASSUME FilesInv, UserNext
             PROVE  FilesInv'
  OBVIOUS
<1> USE KeysAssumption DEF FilesInv, FilesTypeOK, FileStatus, ObjectsHaveRows, OldIsQuiet,
        RemovedIsOld, JobOnOldFiles, RequestsHoldFiles, AvatarsHaveRows, Request, Idle,
        rows, job
<1>1. ASSUME NEW r \in Requests, NEW u \in Users, NEW k \in Keys, ChangeAvatar(r, u, k)
      PROVE  FilesInv'
  BY <1>1 DEF ChangeAvatar
<1>2. ASSUME NEW r \in Requests, NEW u \in Users, ChangePassword(r, u)
      PROVE  FilesInv'
  BY <1>2 DEF ChangePassword
<1>3. ASSUME NEW r \in Requests, SaveFile(r)
      PROVE  FilesInv'
  BY <1>3 DEF SaveFile
<1>4. ASSUME NEW r \in Requests, SaveUser(r)
      PROVE  FilesInv'
  BY <1>4 DEF SaveUser
<1>5. ASSUME NEW r \in Requests, Crash(r)
      PROVE  FilesInv'
  BY <1>5 DEF Crash
<1> QED
  BY <1>1, <1>2, <1>3, <1>4, <1>5 DEF UserNext

LEMMA FilesStep == FilesInv /\ [Next]_vars => FilesInv'
<1> SUFFICES ASSUME FilesInv, [Next]_vars
             PROVE  FilesInv'
  OBVIOUS
<1>1. ASSUME StorageNext
      PROVE  FilesInv'
  BY <1>1, StorageKeepsInv DEF StorageNext
<1>2. ASSUME UNCHANGED vars
      PROVE  FilesInv'
  BY <1>2 DEF vars, rows, job, FilesInv, FilesTypeOK, ObjectsHaveRows, OldIsQuiet,
              RemovedIsOld, JobOnOldFiles, RequestsHoldFiles, AvatarsHaveRows
<1> QED
  BY <1>1, <1>2, JobKeepsInv, UserKeepsInv DEF Next

-----------------------------------------------------------------------------
(* Every reachable state is well typed, and a form is given away for a row  *)
(* that has been saved (storage.service.ts:58).                             *)
THEOREM FilesTypeCorrect == Spec => []FilesTypeOK
<1>1. FilesInv => FilesTypeOK
  BY DEF FilesInv
<1> QED
  BY FilesInit, FilesStep, <1>1, PTL DEF Spec

(* No object stays behind without its row: the job deletes the object       *)
(* first, and nobody can upload again by then (storage.service.ts:112).     *)
THEOREM ObjectsAlwaysHaveRows == Spec => []ObjectsHaveRows
<1>1. FilesInv => ObjectsHaveRows
  BY DEF FilesInv
<1> QED
  BY FilesInit, FilesStep, <1>1, PTL DEF Spec

(* What is somebody's avatar, or is about to be saved as one, is refused to *)
(* every changeAvatar that looks it up from then on (user.service.ts:87),   *)
(* whatever fails or overtakes between the saves.                           *)
THEOREM InUseIsRefused == Spec => []InUseNotOffered
<1>1. FilesInv => InUseNotOffered
  BY KeysAssumption DEF FilesInv, AvatarsHaveRows, RequestsHoldFiles, InUseNotOffered, InUse
<1> QED
  BY FilesInit, FilesStep, <1>1, PTL DEF Spec

(* The nightly job removes only what was taken a month ago, although it     *)
(* works from a list (remove-file.job.ts:16).                               *)
THEOREM OnlyOldObjectsGo == Spec => RemovedAfterMonth
<1>1. FilesInv /\ [Next]_vars
        => [\A k \in bucket \ bucket' : file[k] = "INACTIVE" /\ old[k]]_vars
  <2> SUFFICES ASSUME FilesInv, Next, NEW k \in bucket \ bucket'
               PROVE  file[k] = "INACTIVE" /\ old[k]
    OBVIOUS
  <2>1. DeleteObject(k)
    BY DEF Next, JobNext, StorageNext, UserNext, RemoveUnusedFiles, DeleteObject, DeleteRow,
           JobFails, CreateUploadUrl, Upload, FormExpires, MonthPasses, ChangeAvatar,
           ChangePassword, SaveFile, SaveUser, Crash
  <2> QED
    BY <2>1 DEF DeleteObject, FilesInv, JobOnOldFiles
<1> QED
  BY FilesInit, FilesStep, <1>1, PTL DEF Spec, RemovedAfterMonth
=============================================================================
