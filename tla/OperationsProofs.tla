-------------------------- MODULE OperationsProofs --------------------------
(***************************************************************************)
(* Theorems about the parts that Operations puts together, each of which   *)
(* keeps its own state: start-up for every length of the legacy chain and  *)
(* every number of images, attempts and faults; the keys for any number of *)
(* them; the time zone for every zone of the server and every pool.        *)
(***************************************************************************)
EXTENDS Startup, InitKeys, UtcSession, TLAPS, WellFoundedInduction

-----------------------------------------------------------------------------
(* Start-up: what a container that serves can rely on. *)

\* The stack is up when the container runs.
RunsWhenUp == ~up => place = "exited"

\* The probe is reached with something to upgrade to.
HasFiles == place \in {"probe", "upgrade", "serving"} => files # {}

\* The directory holds legacy revisions or one that was generated for an image;
\* of the former all, unless they are being copied or a copy was cut short.
Filled ==
  /\ files \subseteq legacy \/ \E i \in 1..image : files = {LegacyLength + i}
  /\ place = "copy" => files \subseteq legacy
  /\ place # "copy" /\ files # {} /\ files \subseteq legacy => cut \/ files = legacy

\* The database is empty or at a revision that is there, or will be, unless a file
\* was lost or left out.
StampKept ==
  \/ lost \/ cut \/ legacy \notin {{}, Legacy}
  \/ stamp \in files \cup {0}
  \/ stamp \in legacy /\ (files = {} \/ place = "copy")

StartInd == StartTypeOK /\ RunsWhenUp /\ HasFiles /\ ServesMigrated /\ Filled /\ StampKept

-----------------------------------------------------------------------------
(* Revisions. *)

LEMMA LeastNat ==
  ASSUME NEW T \in SUBSET Nat, T # {}
  PROVE  \E x \in T : \A y \in T : x <= y
<1> DEFINE R == OpToRel(<, Nat)
<1>1. IsWellFoundedOn(R, Nat)
  BY NatLessThanWellFounded
<1>2. \A x, y \in Nat : y < x => <<y, x>> \in R
  BY DEF OpToRel
<1> HIDE DEF R
<1>3. PICK x \in T : \A y \in T : ~ (<<y, x>> \in R)
  BY <1>1, WFMin
<1>4. \A y \in T : ~(y < x)
  BY <1>2, <1>3
<1> QED
  BY <1>4

\* A set of revisions has a latest one.
LEMMA Latest ==
  ASSUME NEW S \in SUBSET Revisions, S # {}
  PROVE  \E x \in S : \A y \in S : y <= x
<1> DEFINE N == LegacyLength + MaxImage
           T == {N - r : r \in S}
<1>1. N \in Nat /\ Revisions = 1..N
  BY StartupAssumption DEF Revisions
<1>2. T \in SUBSET Nat /\ T # {}
  <2>1. \A r \in S : r \in 1..N
    BY <1>1
  <2> HIDE DEF N
  <2>2. \A r \in S : N - r \in Nat
    BY <1>1, <2>1
  <2> QED
    BY <2>2
<1>3. PICK t \in T : \A y \in T : t <= y
  BY <1>2, LeastNat
<1>4. PICK x \in S : t = N - x
  OBVIOUS
<1>5. \A y \in S : N - x <= N - y
  BY <1>3, <1>4
<1> QED
  BY <1>1, <1>5

\* No revision is its own predecessor or that of an earlier one.
LEMMA BelowIsEarlier ==
  ASSUME NEW r \in Revisions
  PROVE  Below(r) \in Nat /\ Below(r) < r
BY StartupAssumption DEF Below, Revisions, Legacy

\* A directory that is not empty has a head, and it is one of its revisions.
LEMMA HeadExists ==
  ASSUME NEW S \in SUBSET Revisions, S # {}
  PROVE  HeadOf(S) \in S /\ \A s \in S : Below(s) # HeadOf(S)
<1>1. PICK x \in S : \A y \in S : y <= x
  BY Latest
<1>2. \A s \in S : Below(s) # x
  BY <1>1, BelowIsEarlier, StartupAssumption DEF Revisions
<1> QED
  BY <1>2 DEF HeadOf

\* A chain holds everything before each of its legacy revisions.
LEMMA ChainIsWhole ==
  ASSUME NEW S \in SUBSET Revisions, Chained(S), NEW r \in S \cap Legacy
  PROVE  1..r \subseteq S
<1> SUFFICES ASSUME NEW q \in 1..r, q \notin S
             PROVE  FALSE
  OBVIOUS
<1> DEFINE T == {d \in Nat : d <= r /\ r - d \in 1..r /\ r - d \notin S}
<1>0. r \in Nat /\ r \in 1..LegacyLength
  BY StartupAssumption DEF Legacy
<1>1. r - q \in T
  BY <1>0
<1>2. PICK d \in T : \A e \in T : d <= e
  BY <1>1, LeastNat
<1>3. d # 0
  BY <1>0
<1>4. r - (d - 1) \in 1..r
  BY <1>0, <1>3
<1>5. r - (d - 1) \in S
  <2>1. d - 1 \in Nat /\ ~(d <= d - 1)
    BY <1>3
  <2>2. d - 1 \notin T
    BY <1>2, <2>1
  <2> QED
    BY <1>0, <1>4, <2>1, <2>2
<1>6. r - (d - 1) \in Legacy /\ Below(r - (d - 1)) = r - d
  BY <1>0, <1>4, StartupAssumption DEF Legacy, Below
<1>7. r - d \in S \cup {0}
  BY <1>5, <1>6 DEF Chained
<1> QED
  BY <1>0, <1>7

\* The head of a chain that reaches the end of the legacy revisions is that end.
LEMMA LegacyHead ==
  ASSUME NEW S \in SUBSET Legacy, LegacyLength \in S, Chained(S)
  PROVE  HeadOf(S) = LegacyLength
<1>1. S \in SUBSET Revisions /\ S # {} /\ LegacyLength \in Legacy
  BY StartupAssumption DEF Legacy, Revisions
<1>2. 1..LegacyLength \subseteq S
  BY <1>1, ChainIsWhole
<1>3. HeadOf(S) \in S /\ \A s \in S : Below(s) # HeadOf(S)
  BY <1>1, HeadExists
<1>4. HeadOf(S) \in 1..LegacyLength
  BY <1>3 DEF Legacy
<1> DEFINE h == HeadOf(S)
<1> HIDE DEF h
<1>5. h < LegacyLength => h + 1 \in S /\ Below(h + 1) = h
  BY <1>2, <1>4, StartupAssumption DEF h, Legacy, Below
<1> QED
  BY <1>3, <1>4, <1>5, StartupAssumption DEF h

\* A generated revision stands alone.
LEMMA GeneratedHead ==
  ASSUME NEW i \in 1..MaxImage
  PROVE  LET S == {LegacyLength + i}
         IN S \subseteq Revisions /\ Chained(S) /\ HeadOf(S) = LegacyLength + i
<1> DEFINE S == {LegacyLength + i}
<1>1. S \subseteq Revisions /\ S # {}
  BY StartupAssumption DEF Revisions
<1>2. Below(LegacyLength + i) = 0
  BY StartupAssumption DEF Below, Legacy
<1>3. HeadOf(S) \in S
  BY <1>1, HeadExists
<1> QED
  BY <1>1, <1>2, <1>3 DEF Chained

-----------------------------------------------------------------------------
(* The invariant. *)

LEMMA InitInv == StartInit => StartInd
<1> SUFFICES ASSUME StartInit
             PROVE  StartInd
  OBVIOUS
<1>1. Legacy \subseteq Revisions
  BY StartupAssumption DEF Legacy, Revisions
<1>2. StartTypeOK
  <2>1. /\ stamp \in Revisions \cup {0} /\ files \subseteq Revisions
        /\ legacy \subseteq Legacy /\ place \in Places
    BY <1>1 DEF StartInit, Places
  <2>2. image \in 1..MaxImage /\ tries \in 0..(MaxTries - 1) /\ faults \in 0..MaxFaults
    BY StartupAssumption DEF StartInit
  <2>3. /\ up \in BOOLEAN /\ dbUp \in BOOLEAN /\ health \in {"none", "pass", "fail"}
        /\ cut \in BOOLEAN /\ lost \in BOOLEAN
    BY DEF StartInit
  <2> QED
    BY <2>1, <2>2, <2>3 DEF StartTypeOK
<1>3. RunsWhenUp /\ HasFiles /\ ServesMigrated /\ Filled /\ StampKept
  BY DEF StartInit, RunsWhenUp, HasFiles, ServesMigrated, Filled, StampKept
<1> QED
  BY <1>2, <1>3 DEF StartInd

\* A successful upgrade leaves the database at the head of the files.
LEMMA UpgradeInv == StartInd /\ Upgrade => StartInd'
<1> SUFFICES ASSUME StartInd, Upgrade
             PROVE  StartInd'
  OBVIOUS
<1> USE DEF disk, world
<1>1. CASE dbUp /\ Upgradable(files)
  <2>1. files # {} /\ files \in SUBSET Revisions
    BY DEF Upgrade, StartInd, HasFiles, StartTypeOK
  <2>2. HeadOf(files) \in files
    BY <2>1, HeadExists
  <2>3. stamp' = HeadOf(files) /\ place' = "serving" /\ UNCHANGED <<disk, tries, world>>
    BY <1>1 DEF Upgrade
  <2>4. StartTypeOK'
    BY <2>1, <2>2, <2>3 DEF StartInd, StartTypeOK, Places
  <2>5. ServesMigrated'
    BY <1>1, <2>1, <2>2, <2>3 DEF ServesMigrated, Upgradable
  <2>6. RunsWhenUp' /\ HasFiles' /\ Filled' /\ StampKept'
    BY <2>1, <2>2, <2>3 DEF Upgrade, StartInd, RunsWhenUp, HasFiles, Filled, StampKept
  <2> QED
    BY <2>4, <2>5, <2>6 DEF StartInd
<1>2. CASE ~(dbUp /\ Upgradable(files))
  BY <1>2 DEF Upgrade, StartInd, StartTypeOK, RunsWhenUp, HasFiles, ServesMigrated, Filled,
     StampKept, Places
<1> QED
  BY <1>1, <1>2

\* The script up to the upgrade.
LEMMA ScriptInv == StartInd /\ (Restart \/ Script) => StartInd'
<1> SUFFICES ASSUME StartInd, Restart \/ Script
             PROVE  StartInd'
  OBVIOUS
<1> USE DEF StartInd, StartTypeOK, RunsWhenUp, HasFiles, ServesMigrated, Filled, StampKept,
        Places, disk, world
<1>1. CASE Restart
  BY <1>1, StartupAssumption DEF Restart
<1>2. CASE Scan
  BY <1>2 DEF Scan
<1>3. CASE Copy
  <2>1. PICK r \in legacy \ files : files' = files \cup {r}
    BY <1>3 DEF Copy
  <2>2. place = "copy" /\ UNCHANGED <<stamp, legacy, place, tries, world>>
    BY <1>3 DEF Copy
  <2>3. r \in Revisions
    BY <2>1, StartupAssumption DEF Legacy, Revisions
  <2> QED
    BY <2>1, <2>2, <2>3
<1>4. CASE EndCopy
  BY <1>4 DEF EndCopy, CopyDone
<1>5. CASE Generate
  <2>1. CASE MustGenerate /\ dbUp /\ stamp = 0
    <3>1. files = {} /\ files' = {LegacyLength + image} /\ place' = "probe"
          /\ UNCHANGED <<stamp, legacy, tries, world>>
      BY <1>5, <2>1 DEF Generate, MustGenerate
    <3>2. LegacyLength + image \in Revisions \ Legacy
      BY StartupAssumption DEF Revisions, Legacy
    <3> QED
      BY <1>5, <2>1, <3>1, <3>2 DEF Generate
  <2>2. CASE ~(MustGenerate /\ dbUp /\ stamp = 0)
    BY <1>5, <2>2 DEF Generate, MustGenerate
  <2> QED
    BY <2>1, <2>2
<1>6. CASE Probe
  BY <1>6, StartupAssumption DEF Probe, GivesUp
<1>7. CASE Upgrade
  BY <1>7, UpgradeInv
<1> QED
  BY <1>1, <1>2, <1>3, <1>4, <1>5, <1>6, <1>7 DEF Script

\* What Docker, the database and the operator do.
LEMMA OutsideInv == StartInd /\ (CheckHealth \/ Outside) => StartInd'
<1> SUFFICES ASSUME StartInd, CheckHealth \/ Outside
             PROVE  StartInd'
  OBVIOUS
<1> USE DEF StartInd, StartTypeOK, RunsWhenUp, HasFiles, ServesMigrated, Filled, StampKept,
        Places, disk, Upgradable
<1>1. CASE CheckHealth
  BY <1>1 DEF CheckHealth
<1>2. CASE Crash
  BY <1>2, StartupAssumption DEF Crash, Faulty, Stops, Kept
<1>3. CASE DbStops
  <2>1. faults' \in 0..MaxFaults
    BY <1>3, StartupAssumption DEF DbStops, Faulty
  <2>2. dbUp' \in BOOLEAN /\ UNCHANGED <<up, stamp, disk, image, place, tries, health, cut, lost>>
    BY <1>3 DEF DbStops
  <2> QED
    BY <2>1, <2>2
<1>4. CASE DbStarts
  BY <1>4 DEF DbStarts
<1>5. CASE ComposeUp
  BY <1>5 DEF ComposeUp
<1>6. CASE ComposeDown
  <2>1. faults' \in 0..MaxFaults
    BY <1>6, StartupAssumption DEF ComposeDown, Faulty
  <2>2. /\ up' \in BOOLEAN /\ dbUp' \in BOOLEAN
        /\ place' = "exited" /\ health' = "none" /\ files' = files
        /\ cut' = (cut \/ (place = "copy" /\ files # {} /\ ~(legacy \subseteq files)))
        /\ UNCHANGED <<stamp, legacy, image, tries, lost>>
    BY <1>6 DEF ComposeDown, Stops, Kept
  <2> QED
    BY <2>1, <2>2
<1>7. CASE RemoveData
  BY <1>7 DEF RemoveData, ResetAllowed
<1>8. CASE LoseVolume
  BY <1>8 DEF LoseVolume
<1>9. CASE NewImage
  BY <1>9, StartupAssumption DEF NewImage
<1> QED
  BY <1>1, <1>2, <1>3, <1>4, <1>5, <1>6, <1>7, <1>8, <1>9 DEF Outside

THEOREM StartInvariance == StartSpec => []StartInd
<1>1. StartInd /\ [StartNext]_startVars => StartInd'
  <2>1. StartInd /\ UNCHANGED startVars => StartInd'
    BY DEF StartInd, StartTypeOK, RunsWhenUp, HasFiles, ServesMigrated, Filled, StampKept,
       Upgradable, startVars
  <2> QED
    BY <2>1, ScriptInv, OutsideInv DEF StartNext
<1> QED
  BY <1>1, InitInv, PTL DEF StartSpec

-----------------------------------------------------------------------------
(* The properties. *)

\* Every variable keeps its type.
THEOREM StartTypeCorrect == StartSpec => []StartTypeOK
BY StartInvariance, PTL DEF StartInd

\* A container that serves has a database at the head of the files it has.
THEOREM MigratedWhenServing == StartSpec => []ServesMigrated
BY StartInvariance, PTL DEF StartInd

\* A container that serves has a whole schema of an image no newer than its own,
\* unless a copy was cut short or the last legacy revision does not name the service.
THEOREM WholeSchemaWhenServing == StartSpec => []ServesWholeSchema
<1>1. StartInd => ServesWholeSchema
  <2> SUFFICES ASSUME StartInd, place = "serving", ~cut,
                      ~(legacy # {} /\ LegacyLength \notin legacy)
               PROVE  ModelsAt(stamp) \in 1..image
    BY DEF ServesWholeSchema
  <2>1. files # {} /\ Chained(files) /\ stamp = HeadOf(files)
    BY DEF StartInd, ServesMigrated, Upgradable
  <2>2. CASE files \subseteq legacy
    <3>1. files = legacy
      BY <2>1, <2>2 DEF StartInd, Filled
    <3>2. files \in SUBSET Legacy /\ LegacyLength \in files /\ image \in 1..MaxImage
      BY <2>1, <3>1 DEF StartInd, StartTypeOK
    <3>3. stamp = LegacyLength
      BY <2>1, <3>2, LegacyHead
    <3> QED
      BY <3>2, <3>3, StartupAssumption DEF ModelsAt
  <2>3. CASE \E i \in 1..image : files = {LegacyLength + i}
    <3>1. PICK i \in 1..image : files = {LegacyLength + i}
      BY <2>3
    <3>2. image \in 1..MaxImage
      BY DEF StartInd, StartTypeOK
    <3>3. i \in 1..MaxImage
      BY <3>1, <3>2, StartupAssumption
    <3>4. stamp = LegacyLength + i
      BY <2>1, <3>1, <3>3, GeneratedHead
    <3> QED
      BY <3>2, <3>3, <3>4, StartupAssumption DEF ModelsAt
  <2> QED
    BY <2>2, <2>3 DEF StartInd, Filled
<1> QED
  BY <1>1, StartInvariance, PTL

\* The legacy chain, when it is whole, can be upgraded along.
LEMMA LegacyChained == Chained(Legacy)
BY StartupAssumption DEF Chained, Legacy, Below

\* Crashes, outages, restarts, resets and new images never lead to where no start can
\* succeed.
THEOREM StuckByLossOnly == StartSpec => []StuckOnlyByLoss
<1>1. StartInd => StuckOnlyByLoss
  <2> SUFFICES ASSUME StartInd, place # "copy", ~cut, ~lost, legacy \in {{}, Legacy},
                      IF files = {} THEN legacy = {} /\ stamp # 0 ELSE ~Upgradable(files)
               PROVE  FALSE
    BY DEF StuckOnlyByLoss, Stuck
  <2>1. stamp \in files \cup {0} \/ (stamp \in legacy /\ files = {})
    BY DEF StartInd, StampKept
  <2>2. CASE files = {}
    BY <2>1, <2>2
  <2>3. CASE files # {} /\ files \subseteq legacy
    <3>1. files = Legacy
      BY <2>3 DEF StartInd, Filled
    <3> QED
      BY <2>1, <2>3, <3>1, LegacyChained DEF Upgradable
  <2>4. CASE files # {} /\ \E i \in 1..image : files = {LegacyLength + i}
    <3>1. PICK i \in 1..image : files = {LegacyLength + i}
      BY <2>4
    <3>2. image \in 1..MaxImage
      BY DEF StartInd, StartTypeOK
    <3>3. i \in 1..MaxImage
      BY <3>1, <3>2, StartupAssumption
    <3> QED
      BY <2>1, <2>4, <3>1, <3>3, GeneratedHead DEF Upgradable
  <2> QED
    BY <2>2, <2>3, <2>4 DEF StartInd, Filled
<1> QED
  BY <1>1, StartInvariance, PTL

-----------------------------------------------------------------------------
(* Keys: the tokens of clients go on verifying across rotations, restarts and
   runs that are stopped. *)

\* What the script has done when it is at a step.
StepInv ==
  /\ step \in {"retain", "oldFile", "oldKid", "private"} => nextKey <= MaxKey
  /\ step = "retain" => pub # None
  /\ step \in {"oldFile", "oldKid"} => pubOld \in Keys
  /\ step = "public" => priv \in Keys
  /\ step = "bind" => pub \in Keys
  /\ priv = None => pub = None
  /\ pub = None => kid = None /\ tokens = {} /\ server = Down

\* The kids of the tokens that are alive, and of those that can still be issued.
Signing == {t[1] : t \in tokens} \cup (IF server = Down THEN {} ELSE {server.kid})

\* The kid that the environment publishes next to the present one.
Retained == IF oldFile /\ kidOld = pubOld THEN {kidOld} ELSE {}

\* A rotation begins with one kid in use, keeps its public key before it replaces
\* the pair, and leaves it published until all its tokens have expired.
RotationInv ==
  /\ step # "public" /\ priv \in Keys /\ pub \in Keys => priv = pub
  /\ step \in {"retain", "oldFile", "oldKid"} => kid = pub
  /\ step \in {"oldFile", "oldKid"} => pubOld = pub
  /\ step = "oldKid" => oldFile
  /\ step \in {"private", "public"} => pub = None \/ kid = pub
  /\ step \in {"private", "public", "bind"} => kid = None \/ (kidOld = kid /\ kid \in Retained)
  /\ step # "idle" => Signing \subseteq {kid}
  /\ step = "idle" /\ pub \in Keys => Signing \subseteq {pub} \cup Retained
  /\ step = "idle" /\ pub \in Keys /\ kid # pub => report = "stopped"

\* A token carries the kid of the key that signed it, and the service publishes it.
ServerInv ==
  /\ \A t \in tokens : t[1] = t[2]
  /\ server # Down => /\ server.kid = server.key
                      /\ <<server.kid, server.kid>> \in server.jwks
                      /\ tokens \subseteq server.jwks

KeysInv == KeysTypeOK /\ StepInv /\ (~unsafe => RotationInv /\ ServerInv)

-----------------------------------------------------------------------------
LEMMA KeyFacts ==
  /\ Keys \subseteq Nat /\ None \notin Keys /\ Broken \notin Keys /\ None # Broken
  /\ 1 \in 1..(MaxKey + 1)
  /\ Keys \subseteq File /\ None \in File /\ Broken \in File
BY MaxKeyAssumption DEF Keys, None, Broken, File

LEMMA NextKey ==
  ASSUME nextKey \in 1..(MaxKey + 1), nextKey <= MaxKey
  PROVE  nextKey \in Keys /\ nextKey + 1 \in 1..(MaxKey + 1)
BY MaxKeyAssumption DEF Keys

LEMMA DownFacts == Down.kid = None /\ Down.jwks = {} /\ Down \notin Server
BY KeyFacts DEF Down, Server

\* Every step keeps the types, and what the script has done.
LEMMA TypeStep == KeysTypeOK /\ StepInv /\ [KeysNext]_keysVars => KeysTypeOK' /\ StepInv'
<1> SUFFICES ASSUME KeysTypeOK, StepInv, [KeysNext]_keysVars
             PROVE  KeysTypeOK' /\ StepInv'
  OBVIOUS
<1> USE KeyFacts, NextKey DEF KeysTypeOK, StepInv, Steps, keyFiles, env, Pair
<1>1. CASE CheckBinding
  BY <1>1 DEF CheckBinding, ReboundKid, Finish
<1>2. CASE BeginKeys(FALSE) \/ Rotate
  BY <1>2 DEF BeginKeys, Rotate, WindowOver
<1>3. CASE Retain
  <2>1. /\ pubOld' = pub /\ step = "retain"
        /\ UNCHANGED <<priv, pub, kid, kidOld, oldFile, nextKey, server, tokens, unsafe>>
        /\ \/ pub = Broken /\ step' = "idle" /\ report' = "failed"
           \/ pub # Broken /\ step' = "oldFile" /\ report' = report
    BY <1>3 DEF Retain, Outgoing, Finish
  <2>2. pub # Broken => pub \in Keys
    BY <2>1 DEF File
  <2> QED
    BY <2>1, <2>2
<1>4. CASE SetOldFile
  BY <1>4 DEF SetOldFile
<1>5. CASE SetOldKid
  BY <1>5 DEF SetOldKid
<1>6. CASE GenPrivate
  BY <1>6 DEF GenPrivate
<1>7. CASE GenPublic
  BY <1>7 DEF GenPublic
<1>8. CASE Bind
  BY <1>8 DEF Bind, Finish
<1>9. CASE Stop
  BY <1>9 DEF Stop, Finish
<1>10. CASE Boot
  <2>1. kid \in Keys /\ priv \in Keys /\ pub \in Keys
    BY <1>10 DEF Boot, Bound
  <2>2. {<<kid, pub>>} \cup {p \in {<<kidOld, pubOld>>} : oldFile /\ p \in Pair} \in SUBSET Pair
    BY <2>1
  <2>3. server' \in Server
    BY <1>10, <2>1, <2>2 DEF Boot, Server
  <2>4. unsafe' \in BOOLEAN /\ UNCHANGED <<keyFiles, env, step, report, nextKey, tokens>>
    BY <1>10 DEF Boot
  <2> QED
    BY <2>1, <2>3, <2>4
<1>11. CASE ServerStops
  BY <1>11 DEF ServerStops
<1>12. CASE Issue
  <2>1. server.kid \in Keys /\ server.key \in Keys
    BY <1>12 DEF Issue, Server
  <2> QED
    BY <1>12, <2>1 DEF Issue
<1>13. CASE Expire
  BY <1>13 DEF Expire
<1>14. CASE CloseWindow
  BY <1>14 DEF CloseWindow, WindowOver
<1>15. CASE CutEnv
  <2>1. kid' \in Keys \cup {None} /\ oldFile' \in BOOLEAN /\ kidOld' = None
    BY <1>15 DEF CutEnv, SetsVariable
  <2>2. /\ step' = "idle" /\ report' = "stopped" /\ unsafe' \in BOOLEAN
        /\ UNCHANGED <<keyFiles, nextKey, server, tokens>>
    BY <1>15 DEF CutEnv, Finish
  <2>3. pub = None => kid' = None
    <3>1. CASE step \in {"oldFile", "oldKid"}
      <4>1. kid' \in {None, kid}
        BY <1>15, <3>1 DEF CutEnv
      <4> QED
        BY <4>1
    <3>2. CASE step \in {"bind", "idle"}
      BY <1>15, <3>2 DEF CutEnv, SetsVariable, None, Keys
    <3> QED
      BY <1>15, <3>1, <3>2 DEF CutEnv, SetsVariable
  <2> QED
    BY <2>1, <2>2, <2>3
<1>16. CASE UNCHANGED keysVars
  BY <1>16 DEF keysVars
<1> QED
  BY <1>1, <1>2, <1>3, <1>4, <1>5, <1>6, <1>7, <1>8, <1>9, <1>10, <1>11, <1>12, <1>13, <1>14, <1>15, <1>16 DEF KeysNext

\* The kids in use are keys.
LEMMA SigningKeys == KeysTypeOK => Signing \subseteq Keys
BY DownFacts DEF KeysTypeOK, Signing, Server, Pair

\* Unsafe once, unsafe for ever.
LEMMA UnsafeStays == KeysTypeOK /\ [KeysNext]_keysVars /\ unsafe => unsafe'
BY DEF KeysTypeOK, KeysNext, CheckBinding, BeginKeys, Rotate, Retain, SetOldFile, SetOldKid, GenPrivate,
   GenPublic, Bind, Stop, CutEnv, Boot, ServerStops, Issue, Expire, CloseWindow, keysVars

\* A rotation keeps its order.
LEMMA RotationStep ==
  KeysTypeOK /\ StepInv /\ RotationInv /\ [KeysNext]_keysVars /\ ~unsafe' => RotationInv'
<1> SUFFICES ASSUME KeysTypeOK, StepInv, RotationInv, [KeysNext]_keysVars, ~unsafe'
             PROVE  RotationInv'
  OBVIOUS
<1>a. Signing \subseteq Keys
  BY SigningKeys
<1>b. UNCHANGED <<tokens, server>> => Signing' = Signing
  BY DEF Signing
<1>c. /\ priv \in File /\ pub \in File /\ pubOld \in File /\ kid \in Keys \cup {None}
      /\ step \in Steps
  BY DEF KeysTypeOK
<1>d. pub = None => Signing = {}
  BY DEF StepInv, Signing
<1>e. WindowOver => Signing \subseteq {kid}
  BY DEF WindowOver, Signing
<1> USE KeyFacts, <1>a, <1>b, <1>c, <1>d DEF StepInv, RotationInv, Retained, keyFiles, env, Steps, File
<1>1. CASE CheckBinding
  BY <1>1 DEF CheckBinding, ReboundKid, Finish
<1>2. CASE BeginKeys(FALSE) \/ Rotate
  BY <1>2, <1>e DEF BeginKeys, Rotate
<1>3. CASE Retain
  BY <1>3 DEF Retain, Outgoing, Finish
<1>4. CASE SetOldFile
  BY <1>4 DEF SetOldFile
<1>5. CASE SetOldKid
  BY <1>5 DEF SetOldKid
<1>6. CASE GenPrivate
  BY <1>6 DEF GenPrivate
<1>7. CASE GenPublic
  BY <1>7 DEF GenPublic
<1>8. CASE Bind
  BY <1>8 DEF Bind, Finish
<1>9. CASE Stop
  BY <1>9 DEF Stop, Finish
<1>10. CASE Boot
  <2>0. server'.kid = kid /\ kid \in Keys /\ server = Down /\ tokens' = tokens
    BY <1>10 DEF Boot, Bound
  <2>1. Signing' = Signing \cup {kid}
    <3>1. server' # Down
      BY <2>0, DownFacts
    <3> QED
      BY <2>0, <3>1 DEF Signing
  <2>2. /\ kid = pub /\ step # "public"
        /\ UNCHANGED <<keyFiles, env, step, report, nextKey, tokens>>
    BY <1>10 DEF Boot, Bound
  <2> QED
    BY <2>1, <2>2
<1>11. CASE ServerStops
  <2>1. Signing' \subseteq Signing
    BY <1>11 DEF ServerStops, Signing
  <2> QED
    BY <1>11, <2>1 DEF ServerStops
<1>12. CASE Issue
  <2>1. Signing' = Signing
    BY <1>12 DEF Issue, Signing
  <2> QED
    BY <1>12, <2>1 DEF Issue
<1>13. CASE Expire
  <2>1. Signing' \subseteq Signing
    BY <1>13 DEF Expire, Signing
  <2> QED
    BY <1>13, <2>1 DEF Expire
<1>14. CASE CloseWindow
  BY <1>14, <1>e DEF CloseWindow
<1>15. CASE CutEnv
  <2>1. /\ step' = "idle" /\ report' = "stopped" /\ Signing' = Signing
        /\ UNCHANGED <<priv, pub, pubOld>>
    BY <1>15 DEF CutEnv, Finish
  <2>2. pub \in Keys => Signing \subseteq {pub} \cup Retained'
    <3>1. CASE step \in {"oldFile", "oldKid"}
      BY <3>1
    <3>2. CASE step \in {"bind", "idle"}
      BY <1>15, <3>2 DEF CutEnv
    <3> QED
      BY <1>15, <3>1, <3>2 DEF CutEnv, SetsVariable
  <2>3. priv \in Keys /\ pub \in Keys => priv = pub
    BY <1>15 DEF CutEnv, SetsVariable
  <2> QED
    BY <2>1, <2>2, <2>3
<1>16. CASE UNCHANGED keysVars
  BY <1>16 DEF keysVars
<1> QED
  BY <1>1, <1>2, <1>3, <1>4, <1>5, <1>6, <1>7, <1>8, <1>9, <1>10, <1>11, <1>12, <1>13, <1>14, <1>15,
   <1>16 DEF KeysNext

\* The service publishes the kids of the tokens that are alive when it starts, and
\* signs with the last.
LEMMA ServerStep ==
  KeysTypeOK /\ StepInv /\ RotationInv /\ ServerInv /\ [KeysNext]_keysVars /\ ~unsafe'
    => ServerInv'
<1> SUFFICES ASSUME KeysTypeOK, StepInv, RotationInv, ServerInv, [KeysNext]_keysVars, ~unsafe'
             PROVE  ServerInv'
  OBVIOUS
<1>1. CASE Boot
  <2> DEFINE published == {<<kid, pub>>} \cup {p \in {<<kidOld, pubOld>>} : oldFile /\ p \in Pair}
  <2>1. /\ server' = [kid |-> kid, key |-> priv, jwks |-> published]
        /\ kid = pub /\ pub \in Keys /\ priv \in Keys /\ step # "public" /\ tokens' = tokens
    BY <1>1 DEF Boot, Bound
  <2>2. priv = kid
    BY <2>1 DEF RotationInv
  <2>3. Signing \subseteq {kid} \cup Retained
    BY <2>1 DEF RotationInv
  <2>4. ASSUME NEW t \in tokens
        PROVE  t \in published
    <3>1. t \in Pair /\ t[1] = t[2]
      BY DEF KeysTypeOK, ServerInv
    <3>2. t[1] \in {kid} \cup Retained
      BY <2>3 DEF Signing
    <3>3. t = <<t[1], t[1]>>
      BY <3>1 DEF Pair
    <3> QED
      BY <2>1, <3>1, <3>2, <3>3 DEF Retained
  <2> HIDE DEF published
  <2>5. <<kid, kid>> \in published
    BY <2>1 DEF published
  <2> QED
    BY <2>1, <2>2, <2>4, <2>5 DEF ServerInv
<1>2. CASE ServerStops
  BY <1>2 DEF ServerStops, ServerInv
<1>3. CASE Issue
  BY <1>3 DEF Issue, ServerInv
<1>4. CASE Expire
  BY <1>4 DEF Expire, ServerInv
<1>5. CASE UNCHANGED <<tokens, server>>
  BY <1>5 DEF ServerInv
<1> QED
  BY <1>1, <1>2, <1>3, <1>4, <1>5 DEF KeysNext, CheckBinding, BeginKeys, Rotate, Retain,
     SetOldFile, SetOldKid, GenPrivate, GenPublic, Bind, Stop, CutEnv, CloseWindow, keysVars

THEOREM KeysInvariance == KeysSpec => []KeysInv
<1>1. KeysInit => KeysInv
  BY KeyFacts DEF KeysInit, KeysInv, KeysTypeOK, StepInv, RotationInv, ServerInv, Signing, Steps
<1>2. KeysInv /\ [KeysNext]_keysVars => KeysInv'
  BY TypeStep, RotationStep, ServerStep, UnsafeStays DEF KeysInv
<1> QED
  BY <1>1, <1>2, PTL DEF KeysSpec

\* Every variable keeps its type.
THEOREM KeysTypeCorrect == KeysSpec => []KeysTypeOK
BY KeysInvariance, PTL DEF KeysInv

\* Every token alive verifies against what the running service publishes, but for the
\* exceptions that TokensVerify names.
THEOREM TokensAlwaysVerify == KeysSpec => []TokensVerify
<1>1. KeysInv => TokensVerify
  BY DEF KeysInv, ServerInv, TokensVerify
<1> QED
  BY <1>1, KeysInvariance, PTL

-----------------------------------------------------------------------------
(* UtcInv is inductive: timestamps are right because sessions are in UTC,    *)
(* and sessions stay in UTC because no ROLLBACK can bring another zone back. *)

LEMMA UtcInitInv == UtcInit => UtcInv
BY DEF UtcInit, UtcInv, InstantsKept, Closed, AllConnections

LEMMA ConnectKeepsInv ==
  ASSUME UtcInv, NEW c \in AllConnections, Connect(c)
  PROVE  UtcInv'
<1>1. InZone(0) \in [open : BOOLEAN, zone : Int, undone : Int]
      /\ InZone(ServerZone) \in [open : BOOLEAN, zone : Int, undone : Int]
  BY ZoneAssumption DEF InZone
<1>2. release = "present" => sessions'[c] = InZone(0)
  BY DEF Connect, UtcInv, PinUtcSession, SetSessionUtc
<1>3. sessions' \in [AllConnections -> [open : BOOLEAN, zone : Int, undone : Int]]
  BY <1>1 DEF Connect, UtcInv, PinUtcSession, SetSessionUtc
<1>4. \A d \in AllConnections : d # c => sessions'[d] = sessions[d]
  BY DEF Connect, UtcInv
<1> QED BY <1>2, <1>3, <1>4 DEF Connect, UtcInv, InstantsKept

\* Closing a session, or ending its transaction, leaves it in UTC.
LEMMA SessionKeepsInv ==
  ASSUME UtcInv, NEW c \in AllConnections, Disconnect(c) \/ Return(c)
  PROVE  UtcInv'
<1>1. UNCHANGED <<release, column, stamps>>
  BY DEF Disconnect, Return
<1>2. Closed \in [open : BOOLEAN, zone : Int, undone : Int]
  BY DEF Closed
<1>3. sessions[c] \in [open : BOOLEAN, zone : Int, undone : Int]
  BY DEF UtcInv
<1>4. /\ sessions' \in [AllConnections -> [open : BOOLEAN, zone : Int, undone : Int]]
      /\ \A d \in AllConnections : d # c => sessions'[d] = sessions[d]
  BY <1>2, <1>3 DEF Disconnect, Return, UtcInv
<1>5. release = "present" => sessions'[c] \in {Closed, InZone(0)}
  <2>1. CASE Disconnect(c)
    BY <2>1 DEF Disconnect, UtcInv
  <2>2. CASE Return(c)
    <3>1. sessions'[c] = [sessions[c] EXCEPT !.zone = sessions[c].undone]
      BY <2>2 DEF Return, UtcInv
    <3>2. release = "present" => sessions[c] \in {Closed, InZone(0)}
      BY DEF UtcInv
    <3>3. [Closed EXCEPT !.zone = Closed.undone] = Closed
      BY DEF Closed
    <3>4. [InZone(0) EXCEPT !.zone = InZone(0).undone] = InZone(0)
      BY DEF InZone
    <3> QED BY <3>1, <3>2, <3>3, <3>4
  <2> QED BY <2>1, <2>2
<1> QED BY <1>1, <1>4, <1>5 DEF UtcInv, InstantsKept

LEMMA StoreKeepsInv ==
  ASSUME UtcInv, NEW c \in AllConnections, Store(c)
  PROVE  UtcInv'
<1>1. PICK i \in Instants :
        stamps' = stamps \cup {[meant |-> i, stored |-> StoredAs(i, sessions[c].zone)]}
  BY DEF Store
<1>2. i \in Int
  BY ZoneAssumption
<1>3. release = "present" => sessions[c] = InZone(0)
  BY DEF Store, UtcInv, IsOpen, Closed
<1>4. StoredAs(i, sessions[c].zone) = i
  BY <1>2, <1>3 DEF StoredAs, InZone
<1>5. sessions[c] \in [open : BOOLEAN, zone : Int, undone : Int]
  BY DEF UtcInv
<1>6. /\ sessions' \in [AllConnections -> [open : BOOLEAN, zone : Int, undone : Int]]
      /\ \A d \in AllConnections : d # c => sessions'[d] = sessions[d]
  BY <1>5 DEF Store, UtcInv
<1>7. sessions'[c] = [sessions[c] EXCEPT !.undone = sessions[c].zone]
  BY DEF Store, UtcInv
<1>8. release = "present" => sessions'[c] = InZone(0)
  BY <1>3, <1>7 DEF InZone
<1>9. UNCHANGED <<release, column>>
  BY DEF Store
<1> QED BY <1>1, <1>2, <1>4, <1>6, <1>8, <1>9 DEF UtcInv, InstantsKept

LEMMA AlterKeepsInv == UtcInv /\ Alter => UtcInv'
<1> SUFFICES ASSUME UtcInv, Alter
             PROVE  UtcInv'
  OBVIOUS
<1> DEFINE altered(s) == [s EXCEPT !.stored = AsInstant(s.stored, sessions[Alembic].zone)]
<1>1. sessions[Alembic] = InZone(0)
  BY DEF Alter, UtcInv, IsOpen, Closed, AllConnections
<1>2. ASSUME NEW s \in stamps
      PROVE  /\ altered(s) \in [meant : Int, stored : Int]
             /\ altered(s).stored = altered(s).meant
  BY <1>1 DEF UtcInv, InstantsKept, AsInstant, InZone
<1>3. stamps' = {altered(s) : s \in stamps}
  BY DEF Alter
<1> HIDE DEF altered
<1>4. stamps' \subseteq [meant : Int, stored : Int] /\ \A s \in stamps' : s.stored = s.meant
  BY <1>2, <1>3
<1> QED BY <1>4 DEF Alter, UtcInv, InstantsKept

LEMMA DeployKeepsInv == UtcInv /\ Deploy => UtcInv'
BY DEF UtcInv, Deploy, InstantsKept, Closed

LEMMA UtcNextInv == UtcInv /\ [UtcNext]_utcVars => UtcInv'
<1> SUFFICES ASSUME UtcInv, [UtcNext]_utcVars
             PROVE  UtcInv'
  OBVIOUS
<1>1. CASE UNCHANGED utcVars
  BY <1>1 DEF UtcInv, InstantsKept, utcVars
<1>2. ASSUME NEW c \in AllConnections, Connect(c) \/ Disconnect(c) \/ Return(c) \/ Store(c)
      PROVE  UtcInv'
  BY <1>2, ConnectKeepsInv, SessionKeepsInv, StoreKeepsInv
<1>3. CASE Alter \/ Deploy
  BY <1>3, AlterKeepsInv, DeployKeepsInv
<1> QED BY <1>1, <1>2, <1>3 DEF UtcNext

-----------------------------------------------------------------------------
\* The inductive invariant holds in every behaviour.
THEOREM UtcInvariance == UtcSpec => []UtcInv
BY UtcInitInv, UtcNextInv, PTL DEF UtcSpec

\* See InstantsKept: timestamps are stored as they were meant.
THEOREM InstantsAreKept == UtcSpec => []InstantsKept
<1>1. UtcInv => InstantsKept
  BY DEF UtcInv
<1> QED BY <1>1, UtcInvariance, PTL

\* See ComparedAsMeant: and every session takes them for what was meant.
THEOREM ComparisonsAreRight == UtcSpec => []ComparedAsMeant
<1>1. UtcInv => ComparedAsMeant
  <2> SUFFICES ASSUME UtcInv, release = "present",
                      NEW c \in AllConnections, IsOpen(c), NEW s \in stamps
               PROVE  AsInstant(s.stored, sessions[c].zone) = s.meant
    BY DEF ComparedAsMeant
  <2>1. sessions[c] = InZone(0)
    BY DEF UtcInv, IsOpen, Closed
  <2>2. s.stored = s.meant /\ s.stored \in Int
    BY DEF UtcInv, InstantsKept
  <2> QED BY <2>1, <2>2 DEF AsInstant, InZone
<1> QED BY <1>1, UtcInvariance, PTL

=============================================================================
