------------------------------- MODULE Startup -------------------------------
(***************************************************************************)
(* How the container comes up: scripts/docker_start.sh and pre_start.sh,   *)
(* the readiness probe of fastapi_pre_start.py and the migrations of       *)
(* alembic/env.py.  Revision files live on a volume, what they built lives *)
(* in the database, and either survives the other.  Docker restarts the    *)
(* container whenever it exits, from the top of the script.                *)
(*                                                                         *)
(* PostgreSQL runs DDL in transactions, and env.py runs an upgrade in one  *)
(* (context.begin_transaction): tables and stamp change together.  Copying *)
(* or writing one revision file is taken as atomic.                        *)
(***************************************************************************)
EXTENDS Integers, FiniteSets

CONSTANTS
  LegacyLength,  \* how many revisions the legacy stack had, each after the one before
  MaxImage,      \* bound: how many images are deployed, each with its own models
  MaxTries,      \* MAX_TRIES of the probe
  MaxFaults      \* bound: crashes, outages and shutdowns

ASSUME StartupAssumption ==
  /\ LegacyLength \in Nat /\ MaxImage \in Nat \ {0}
  /\ MaxTries \in Nat \ {0} /\ MaxFaults \in Nat

VARIABLES
  up,       \* docker compose up or down
  dbUp,     \* the database answers
  stamp,    \* the revision in alembic_version_prompt_engine; 0: an empty database
  files,    \* revision files in MIGRATION_DIR
  legacy,   \* revision files in LEGACY_MIGRATION_DIR that name the service
  image,    \* the image that is deployed
  place,    \* where the script is
  tries,    \* how often the probe has failed in this start
  health,   \* the last answer of the health route
  faults,   \* faults so far
  cut,      \* history: a copy of the legacy revisions was cut short
  lost      \* history: a migrated database was left without any revision file

startVars ==
  <<up, dbUp, stamp, files, legacy, image, place, tries, health, faults, cut, lost>>

\* 1..LegacyLength are the legacy revisions, LegacyLength + i the one that
\* autogenerate writes for image i.
Legacy == 1..LegacyLength
Revisions == 1..(LegacyLength + MaxImage)
Places == {"exited", "scan", "copy", "generate", "probe", "upgrade", "serving"}

StartTypeOK ==
  /\ up \in BOOLEAN /\ dbUp \in BOOLEAN
  /\ stamp \in Revisions \cup {0}
  /\ files \subseteq Revisions /\ legacy \subseteq Legacy
  /\ image \in 1..MaxImage
  /\ place \in Places
  /\ tries \in 0..(MaxTries - 1)
  /\ health \in {"none", "pass", "fail"}
  /\ faults \in 0..MaxFaults
  /\ cut \in BOOLEAN /\ lost \in BOOLEAN

-----------------------------------------------------------------------------
(* Revisions. *)

\* down_revision: a revision is generated only into an empty directory, so it
\* has none.
Below(r) == IF r \in Legacy THEN r - 1 ELSE 0

\* Alembic can build its revision map: no file refers to one that is not there.
Chained(S) == \A r \in S : Below(r) \in S \cup {0}

\* The revision that no other follows; "head" of an empty directory is nothing.
HeadOf(S) == IF S = {} THEN 0 ELSE CHOOSE r \in S : \A s \in S : Below(s) # r

\* The models a database at revision r has tables for; 0 is an unfinished legacy
\* schema, the end of the legacy chain is the schema of the first image.
ModelsAt(r) ==
  CASE r > LegacyLength -> r - LegacyLength
    [] r = LegacyLength -> 1
    [] OTHER            -> 0

\* alembic upgrade finds its way from the stamp to the head.
Upgradable(S) == Chained(S) /\ stamp \in S \cup {0}

-----------------------------------------------------------------------------
(* The script. *)

\* The legacy stack may have stamped the database, also with a revision that does
\* not name the service.
StartInit ==
  /\ up = TRUE /\ dbUp = FALSE
  /\ legacy \in SUBSET Legacy
  /\ stamp \in Legacy \cup {0}
  /\ files = {}
  /\ image = 1
  /\ place = "exited"
  /\ tries = 0 /\ health = "none" /\ faults = 0
  /\ cut = FALSE /\ lost = (stamp # 0 /\ legacy = {})

disk == <<files, legacy>>
world == <<up, dbUp, image, health, faults, cut, lost>>

\* The container's restart policy.  depends_on makes only the first start of an "up"
\* wait for a healthy database, not the restarts, nor those of a rebooted host.
Restart ==
  /\ up /\ place = "exited"
  /\ place' = "scan"
  /\ tries' = 0
  /\ UNCHANGED <<stamp, disk, world>>

\* mkdir, and the look into both directories.
Scan ==
  /\ place = "scan"
  /\ place' = IF files = {} /\ legacy # {} THEN "copy" ELSE "generate"
  /\ UNCHANGED <<stamp, disk, tries, world>>

\* cp of one legacy revision; their names say nothing of their order in the chain.
Copy ==
  /\ place = "copy"
  /\ \E r \in legacy \ files : files' = files \cup {r}
  /\ UNCHANGED <<stamp, legacy, place, tries, world>>

\* Mutant of CopyDone: the loop may stop after any file.
CopyAnyDone == place = "copy" /\ files # {}

CopyDone == place = "copy" /\ legacy \subseteq files

EndCopy ==
  /\ CopyDone
  /\ place' = "generate"
  /\ UNCHANGED <<stamp, disk, tries, world>>

\* Mutant of MustGenerate: the legacy directory is looked at instead.
MustGenerateAgain == legacy = {}

MustGenerate == files = {}

\* alembic revision --autogenerate compares the models with the database.  It
\* refuses one stamped with a revision it does not find, and set -e ends the script.
Generate ==
  /\ place = "generate"
  /\ IF ~MustGenerate
     THEN place' = "probe" /\ UNCHANGED files
     ELSE IF dbUp /\ stamp = 0
     THEN place' = "probe" /\ files' = files \cup {LegacyLength + image}
     ELSE place' = "exited" /\ UNCHANGED files
  /\ UNCHANGED <<stamp, legacy, tries, world>>

GivesUp == tries + 1 = MaxTries

\* The probe: SELECT 1 until it succeeds, MaxTries times at most.
Probe ==
  /\ place = "probe"
  /\ IF dbUp THEN place' = "upgrade" /\ UNCHANGED tries
     ELSE IF GivesUp THEN place' = "exited" /\ UNCHANGED tries
     ELSE tries' = tries + 1 /\ UNCHANGED place
  /\ UNCHANGED <<stamp, disk, world>>

\* alembic upgrade head, then exec uvicorn.
Upgrade ==
  /\ place = "upgrade"
  /\ IF dbUp /\ Upgradable(files)
     THEN stamp' = HeadOf(files) /\ place' = "serving"
     ELSE place' = "exited" /\ UNCHANGED stamp
  /\ UNCHANGED <<disk, tries, world>>

\* check_db: the health route asks the database for SELECT 1, and nothing else.
CheckHealth ==
  /\ place = "serving"
  /\ health' = IF dbUp THEN "pass" ELSE "fail"
  /\ UNCHANGED <<up, dbUp, stamp, disk, image, place, tries, faults, cut, lost>>

Script == Scan \/ Copy \/ EndCopy \/ Generate \/ Probe \/ Upgrade

-----------------------------------------------------------------------------
(* Docker, the database and the operator. *)

Faulty == faults < MaxFaults /\ faults' = faults + 1

\* What the end of the container leaves of the directory: it is on a volume.
\* Mutant of Kept: it is in the container's own file system.
KeptInContainer == {}

Kept == files

\* The container is killed, or stops with the stack.
Stops ==
  /\ place' = "exited"
  /\ health' = "none"
  /\ files' = Kept
  /\ cut' = (cut \/ (place = "copy" /\ files # {} /\ ~(legacy \subseteq files)))

Crash ==
  /\ place # "exited" /\ Faulty
  /\ Stops
  /\ UNCHANGED <<up, dbUp, stamp, legacy, image, tries, lost>>

DbStops ==
  /\ dbUp /\ Faulty
  /\ dbUp' = FALSE
  /\ UNCHANGED <<up, stamp, disk, image, place, tries, health, cut, lost>>

DbStarts ==
  /\ up /\ ~dbUp
  /\ dbUp' = TRUE
  /\ UNCHANGED <<up, stamp, disk, image, place, tries, health, faults, cut, lost>>

ComposeUp ==
  /\ ~up
  /\ up' = TRUE
  /\ UNCHANGED <<dbUp, stamp, disk, image, place, tries, health, faults, cut, lost>>

\* docker compose down, by the operator or by init.sh --reset-db.
ComposeDown ==
  /\ up /\ Faulty
  /\ up' = FALSE /\ dbUp' = FALSE
  /\ Stops
  /\ UNCHANGED <<stamp, legacy, image, tries, lost>>

\* Mutant of ResetAllowed: --reset-db does not stop the stack.
ResetAnyTime == stamp # 0

ResetAllowed == ~up /\ stamp # 0

\* init.sh --reset-db: rm -rf db_data, and only that.
RemoveData ==
  /\ ResetAllowed
  /\ stamp' = 0
  /\ UNCHANGED <<up, dbUp, disk, image, place, tries, health, faults, cut, lost>>

\* shared_migrations is untracked data of one checkout: it is not where the
\* database is, and a fresh checkout does not have it.
LoseVolume ==
  /\ ~up /\ files \cup legacy # {}
  /\ files' = {} /\ legacy' = {}
  /\ lost' = (lost \/ stamp # 0)
  /\ UNCHANGED <<up, dbUp, stamp, image, place, tries, health, faults, cut>>

NewImage ==
  /\ ~up /\ image < MaxImage
  /\ image' = image + 1
  /\ UNCHANGED <<up, dbUp, stamp, disk, place, tries, health, faults, cut, lost>>

Outside ==
  \/ Crash \/ DbStops \/ DbStarts \/ ComposeUp \/ ComposeDown
  \/ RemoveData \/ LoseVolume \/ NewImage

StartNext == Restart \/ Script \/ CheckHealth \/ Outside

\* The container is scheduled and restarted; the database and the stack come back.
StartFairness ==
  /\ WF_startVars(Restart) /\ WF_startVars(Script)
  /\ WF_startVars(DbStarts) /\ WF_startVars(ComposeUp)

StartSpec == StartInit /\ [][StartNext]_startVars /\ StartFairness

-----------------------------------------------------------------------------
(* Properties. *)

\* A container that serves has a database at the head of the files it has,
\* whatever was reset, lost, killed or redeployed before: migrations are never
\* skipped because an earlier start did them.
ServesMigrated ==
  place = "serving" => files # {} /\ Upgradable(files) /\ stamp = HeadOf(files)

\* It serves a whole schema, of an image no newer than its own; the exceptions are
\* a copy that was cut short and a legacy chain whose last revision does not name
\* the service (grep skips it): then an unfinished schema is served without an error.
ServesWholeSchema ==
  place = "serving" =>
    \/ ModelsAt(stamp) \in 1..image
    \/ cut
    \/ legacy # {} /\ LegacyLength \notin legacy

\* No start can succeed any more: the files do not form a chain, or do not know
\* the revision the database is stamped with, and nothing is copied or generated
\* over them.
Stuck ==
  /\ place # "copy"
  /\ IF files = {} THEN legacy = {} /\ stamp # 0 ELSE ~Upgradable(files)

\* Crashes, outages, restarts, resets of the database and new images never lead
\* there, provided that the copy and the writing of one file are atomic (a crash
\* between two files is a copy cut short); what does is such a copy, a legacy
\* revision that does not name the service, or a volume lost under a migrated
\* database.
StuckOnlyByLoss == Stuck => cut \/ lost \/ legacy \notin {{}, Legacy}

\* Once crashes and outages stop, the service comes up and stays up, unless it is
\* stuck: a database that is not ready yet makes autogenerate fail before the
\* probe could wait for it, and only the restart policy gets over that.
EventuallyServes == <>[](place = "serving") \/ <>[]Stuck

=============================================================================
