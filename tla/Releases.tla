------------------------------ MODULE Releases ------------------------------
(***************************************************************************)
(* Versions of a product and their files: downloads.service.ts of the API  *)
(* and packages/database/src/domain/download-version-engine.ts, for one    *)
(* version.                                                                *)
(*                                                                         *)
(* An upload puts an object into storage, then registers it in a           *)
(* transaction, and deletes the object if that fails.  A publication reads *)
(* the files, checks each against storage without a lock, and publishes if *)
(* the files are still the ones it read.                                   *)
(***************************************************************************)
EXTENDS Integers, FiniteSets

CONSTANTS
    Uploads,      \* the uploads of a behaviour, each with a storage key of its own
    Publishers    \* administrators that publish the version

VARIABLES
    licensed,     \* the product is INTERNAL_LICENSE
    version,      \* the status of the version
    files,        \* files[u]: "none", or the row of the file: "primary" or "extra"
    stored,       \* the objects in private storage
    upload,       \* upload[u]: where it is, and whether it asks for the primary place
    publish,      \* publish[p]: the files read and the ones still to be checked
    vouched,      \* the files the publication that went through had checked
    lost          \* the objects deleted although their registration had been committed

releaseVars == <<licensed, version, files, stored, upload, publish, vouched, lost>>

NotStarted == [pc |-> "start", place |-> "none"]
NotPublishing == [pc |-> "idle"]

ReleasesInit ==
    /\ licensed \in BOOLEAN
    /\ version = "DRAFT"
    /\ files = [o \in Uploads |-> "none"]
    /\ stored = {} /\ vouched = {} /\ lost = {}
    /\ upload = [u \in Uploads |-> NotStarted]
    /\ publish = [p \in Publishers |-> NotPublishing]

Registered == {o \in Uploads : files[o] # "none"}
Primary == {o \in Uploads : files[o] = "primary"}

-----------------------------------------------------------------------------
At(u, pc) == upload' = [upload EXCEPT ![u].pc = pc]

\* uploadFile looks at the status, and writes the object without a transaction.
PutObject(u, place) ==
    /\ upload[u] = NotStarted /\ version # "PUBLISHED"
    /\ upload' = [upload EXCEPT ![u] = [pc |-> "stored", place |-> place]]
    /\ stored' = stored \cup {u}
    /\ UNCHANGED <<licensed, version, files, publish, vouched, lost>>

Registrable(u) == version # "PUBLISHED" /\ (upload[u].place = "primary" => Primary = {})

\* registerVerifiedUploadedFile, one transaction under the lock of the version.
Register(u, next) ==
    /\ upload[u].pc = "stored" /\ Registrable(u)
    /\ files' = [files EXCEPT ![u] = upload[u].place]
    /\ At(u, next)

RegisterVerifiedUploadedFile(u) ==
    Register(u, "done") /\ UNCHANGED <<licensed, version, stored, publish, vouched, lost>>

\* The transaction was committed, but its answer did not arrive.
RegistrationAnswerLost(u) ==
    /\ Register(u, "failed")
    /\ lost' = lost \cup {u}
    /\ UNCHANGED <<licensed, version, stored, publish, vouched>>

\* A refusal, or storage or the transaction failed.
RegistrationFails(u) ==
    /\ upload[u].pc = "stored"
    /\ At(u, "failed")
    /\ UNCHANGED <<licensed, version, files, stored, publish, vouched, lost>>

\* The clean-up of uploadFile; storage may fail here too.
DeleteObject(u, done) ==
    /\ upload[u].pc = "failed"
    /\ stored' = IF done THEN stored \ {u} ELSE stored
    /\ At(u, "done")
    /\ UNCHANGED <<licensed, version, files, publish, vouched, lost>>

-----------------------------------------------------------------------------
\* publishProductVersion, phase 1: a snapshot without a lock.
ReadFiles(p) ==
    /\ publish[p] = NotPublishing /\ version # "PUBLISHED"
    /\ Registered # {} /\ (licensed => Cardinality(Primary) = 1)
    /\ publish' = [publish EXCEPT ![p] = [pc |-> "check", snapshot |-> files, left |-> Registered]]
    /\ UNCHANGED <<licensed, version, files, stored, upload, vouched, lost>>

StopPublishing(p) == publish' = [publish EXCEPT ![p] = NotPublishing]

VerifyFileIntegrity(p) ==
    /\ publish[p].pc = "check"
    /\ \E o \in publish[p].left :
         IF o \in stored
         THEN publish' = [publish EXCEPT ![p].left = @ \ {o},
                                         ![p].pc = IF publish[p].left = {o} THEN "verified" ELSE "check"]
         ELSE StopPublishing(p)
    /\ UNCHANGED <<licensed, version, files, stored, upload, vouched, lost>>

\* Mutant: phase 2 does not compare the files with the snapshot.
PublishAnyway(p) ==
    /\ publish[p].pc = "verified"
    /\ version' = "PUBLISHED" /\ vouched' = {o \in Uploads : publish[p].snapshot[o] # "none"}
    /\ StopPublishing(p)
    /\ UNCHANGED <<licensed, files, stored, upload, lost>>

\* Phase 2, under the lock of the version: published already, changed since, or ours.
PublishVersion(p) ==
    /\ publish[p].pc = "verified"
    /\ IF version # "PUBLISHED" /\ files = publish[p].snapshot
       THEN version' = "PUBLISHED" /\ vouched' = {o \in Uploads : publish[p].snapshot[o] # "none"}
       ELSE UNCHANGED <<version, vouched>>
    /\ StopPublishing(p)
    /\ UNCHANGED <<licensed, files, stored, upload, lost>>

ReleasesNext ==
    \/ \E u \in Uploads, place \in {"primary", "extra"} : PutObject(u, place)
    \/ \E u \in Uploads : RegisterVerifiedUploadedFile(u) \/ RegistrationAnswerLost(u) \/ RegistrationFails(u)
    \/ \E u \in Uploads, done \in BOOLEAN : DeleteObject(u, done)
    \/ \E p \in Publishers : ReadFiles(p) \/ VerifyFileIntegrity(p) \/ PublishVersion(p)

ReleasesSpec == ReleasesInit /\ [][ReleasesNext]_releaseVars

-----------------------------------------------------------------------------
ReleasesTypeOK ==
    /\ licensed \in BOOLEAN /\ version \in {"DRAFT", "PUBLISHED"}
    /\ files \in [Uploads -> {"none", "primary", "extra"}]
    /\ stored \subseteq Uploads /\ vouched \subseteq Uploads /\ lost \subseteq Uploads
    /\ upload \in [Uploads -> [pc : {"start", "stored", "failed", "done"}, place : {"none", "primary", "extra"}]]
    /\ publish \in [Publishers -> {NotPublishing} \cup [pc : {"check", "verified"}, left : SUBSET Uploads,
                                      snapshot : [Uploads -> {"none", "primary", "extra"}]]]

\* However uploads and publications interleave, the files of a published version are the ones
\* its publication checked against storage, licensed software has exactly one primary file,
\* and every file can be downloaded, unless its upload lost the answer of the commit and
\* deleted the object it took for an orphan (publishProductVersion, uploadFile).
PublishedVersionIsWhole ==
    version = "PUBLISHED" =>
      /\ Registered = vouched /\ vouched # {}
      /\ licensed => Cardinality(Primary) = 1
      /\ Registered \subseteq stored \cup lost
=============================================================================
