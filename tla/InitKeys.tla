------------------------------ MODULE InitKeys -------------------------------
(***************************************************************************)
(* The signing keys: init-keys.sh, run by hand through init.sh, next to    *)
(* the auth service that signs with the files it leaves and the clients    *)
(* whose tokens must go on verifying.  The script writes three files and   *)
(* three variables of auth.env one after the other and may be stopped      *)
(* between any two; openssl and cp open the file they write first, so that *)
(* one may be left broken.  set_env_var moves a finished file, which is a  *)
(* rename when mktemp is on the same file system and a copy otherwise.     *)
(*                                                                         *)
(* A key id (kid) is a digest of the public key: here it is the key.  The  *)
(* auth service is not part of the repository; it is as the script says.   *)
(***************************************************************************)
EXTENDS Integers, FiniteSets

CONSTANT MaxKey  \* bound: how many keys are ever generated

ASSUME MaxKeyAssumption == MaxKey \in Nat \ {0}

Keys == 1..MaxKey
None == 0      \* no such file, or no key in the variable
Broken == -1   \* a file that openssl cannot read

VARIABLES
  priv,     \* private.pem
  pub,      \* public.pem
  pubOld,   \* public_old.pem
  kid,      \* ACCESS_KEY_ID
  kidOld,   \* ACCESS_KEY_ID_OLD
  oldFile,  \* ACCESS_PUBLIC_KEY_OLD_FILE is set
  step,     \* where init-keys.sh is
  report,   \* how its last run ended
  nextKey,  \* the next key openssl draws
  server,   \* the auth service: the key and kid it signs with, its JWKS
  tokens,   \* tokens that have not expired: <<kid, key>>
  unsafe    \* history: a run was stopped, or the service started, between the two
            \* keys of a pair, a rotation began before the kid of the last was set, or
            \* auth.env was cut short where it names the retained key

keyFiles == <<priv, pub, pubOld>>
env == <<kid, kidOld, oldFile>>
keysVars == <<keyFiles, env, step, report, nextKey, server, tokens, unsafe>>

File == Keys \cup {None, Broken}
Pair == Keys \X Keys
Server == [kid : Keys, key : Keys, jwks : SUBSET Pair]
Down == [kid |-> None, key |-> None, jwks |-> {}]
Steps == {"idle", "retain", "oldFile", "oldKid", "private", "public", "bind"}

KeysTypeOK ==
  /\ priv \in File /\ pub \in File /\ pubOld \in File
  /\ kid \in Keys \cup {None} /\ kidOld \in Keys \cup {None}
  /\ oldFile \in BOOLEAN
  /\ step \in Steps
  /\ report \in {"none", "skipped", "bound", "rebound", "done", "failed", "stopped"}
  /\ nextKey \in 1..(MaxKey + 1)
  /\ server \in Server \cup {Down}
  /\ tokens \subseteq Pair
  /\ unsafe \in BOOLEAN

-----------------------------------------------------------------------------
(* The script. *)

\* init.sh has copied auth.env from its example: ACCESS_KEY_ID is a placeholder.
KeysInit ==
  /\ priv = None /\ pub = None /\ pubOld = None
  /\ kid = None /\ kidOld = None /\ oldFile = FALSE
  /\ step = "idle" /\ report = "none"
  /\ nextKey = 1
  /\ server = Down /\ tokens = {}
  /\ unsafe = FALSE

Finish(r) == step' = "idle" /\ report' = r

ReboundKid == IF pub \in Keys THEN pub ELSE kid

\* A run without --rotate when private.pem exists: the kid of public.pem is bound.
\* A public.pem that cannot be read fails the assignment of existing_kid, and set
\* -e ends the run before it is reported.
CheckBinding ==
  /\ step = "idle" /\ priv # None
  /\ kid' = ReboundKid
  /\ Finish(IF pub = None THEN "skipped" ELSE IF pub = Broken THEN "failed"
            ELSE IF kid = pub THEN "bound" ELSE "rebound")
  /\ UNCHANGED <<keyFiles, kidOld, oldFile, nextKey, server, tokens, unsafe>>

\* The first run, and a run with --rotate.
BeginKeys(rotate) ==
  /\ step = "idle" /\ nextKey <= MaxKey
  /\ priv = None \/ rotate
  /\ step' = IF rotate /\ pub # None THEN "retain" ELSE "private"
  /\ report' = "none"
  /\ unsafe' = (unsafe \/ (rotate /\ kid # pub /\ pub # None))
  /\ UNCHANGED <<keyFiles, env, nextKey, server, tokens>>

\* Mutant of Outgoing: the copy is made from the file of the previous rotation.
OutgoingStale == IF pubOld = None THEN pub ELSE pubOld

Outgoing == pub

\* cp public.pem public_old.pem; the run ends when it has no kid.
Retain ==
  /\ step = "retain"
  /\ pubOld' = Outgoing
  /\ IF pub = Broken THEN Finish("failed") ELSE step' = "oldFile" /\ UNCHANGED report
  /\ UNCHANGED <<priv, pub, env, nextKey, server, tokens, unsafe>>

SetOldFile ==
  /\ step = "oldFile"
  /\ oldFile' = TRUE /\ step' = "oldKid"
  /\ UNCHANGED <<keyFiles, kid, kidOld, report, nextKey, server, tokens, unsafe>>

SetOldKid ==
  /\ step = "oldKid"
  /\ kidOld' = pubOld /\ step' = "private"
  /\ UNCHANGED <<keyFiles, kid, oldFile, report, nextKey, server, tokens, unsafe>>

GenPrivate ==
  /\ step = "private"
  /\ priv' = nextKey /\ nextKey' = nextKey + 1 /\ step' = "public"
  /\ UNCHANGED <<pub, pubOld, env, report, server, tokens, unsafe>>

GenPublic ==
  /\ step = "public"
  /\ pub' = priv /\ step' = "bind"
  /\ UNCHANGED <<priv, pubOld, env, report, nextKey, server, tokens, unsafe>>

Bind ==
  /\ step = "bind"
  /\ kid' = pub /\ Finish("done")
  /\ UNCHANGED <<keyFiles, kidOld, oldFile, nextKey, server, tokens, unsafe>>

\* The run is stopped; the file it was writing may be left broken.
Stop ==
  /\ step # "idle"
  /\ \/ UNCHANGED keyFiles
     \/ step = "retain" /\ pubOld' = Broken /\ UNCHANGED <<priv, pub>>
     \/ step = "private" /\ priv' = Broken /\ UNCHANGED <<pub, pubOld>>
     \/ step = "public" /\ pub' = Broken /\ UNCHANGED <<priv, pubOld>>
  /\ Finish("stopped")
  /\ unsafe' = (unsafe \/ (step = "public" /\ pub' \in Keys))
  /\ UNCHANGED <<env, nextKey, server, tokens>>

\* A set_env_var of CheckBinding or of a rotation is under way.
SetsVariable ==
  \/ step \in {"oldFile", "oldKid", "bind"}
  \/ step = "idle" /\ priv # None /\ pub \in Keys /\ kid # pub

\* The run is stopped while mv copies the new auth.env from another file system: only
\* its first lines arrive.  ACCESS_KEY_ID precedes the two variables that the script
\* appends, in this order; the line of the algorithm, above all three, is taken to be
\* there (without it every run ends at once, until auth.env is restored).
CutEnv ==
  /\ SetsVariable
  /\ \E arrived \in 0..2 :
       /\ kid' = IF arrived = 0 THEN None
                 ELSE IF step \in {"bind", "idle"} THEN pub ELSE kid
       /\ oldFile' = (arrived = 2 /\ (oldFile \/ step = "oldFile"))
       /\ kidOld' = None
  /\ Finish("stopped")
  /\ unsafe' = (unsafe \/ (step \in {"bind", "idle"} /\ oldFile /\ kidOld # None))
  /\ UNCHANGED <<keyFiles, nextKey, server, tokens>>

-----------------------------------------------------------------------------
(* The auth service, its clients and the operator. *)

\* Mutant of Bound: the service does not compare.
NeverCompared == pub \in Keys

\* "refuses to boot if ACCESS_KEY_ID does not match".
Bound == pub \in Keys /\ kid = pub

\* The service reads the files and variables once, and publishes both public keys.
Boot ==
  /\ server = Down
  /\ priv \in Keys /\ Bound
  /\ server' = [kid |-> kid, key |-> priv,
                jwks |-> {<<kid, pub>>} \cup
                         {p \in {<<kidOld, pubOld>>} : oldFile /\ p \in Pair}]
  /\ unsafe' = (unsafe \/ step = "public")
  /\ UNCHANGED <<keyFiles, env, step, report, nextKey, tokens>>

ServerStops ==
  /\ server # Down
  /\ server' = Down
  /\ UNCHANGED <<keyFiles, env, step, report, nextKey, tokens, unsafe>>

Issue ==
  /\ server # Down
  /\ tokens' = tokens \cup {<<server.kid, server.key>>}
  /\ UNCHANGED <<keyFiles, env, step, report, nextKey, server, unsafe>>

Expire ==
  /\ \E t \in tokens : tokens' = tokens \ {t}
  /\ UNCHANGED <<keyFiles, env, step, report, nextKey, server, unsafe>>

\* The service was redeployed and the tokens of the previous key have expired.
WindowOver ==
  /\ server = Down \/ server.kid = kid
  /\ \A t \in tokens : t[1] = kid

\* "unset both vars above, redeploy, and delete public_old.pem", once the rotation
\* has been completed.
CloseWindow ==
  /\ step = "idle" /\ report # "stopped" /\ WindowOver
  /\ kidOld # None \/ oldFile \/ pubOld # None
  /\ kidOld' = None /\ oldFile' = FALSE /\ pubOld' = None
  /\ UNCHANGED <<priv, pub, kid, step, report, nextKey, server, tokens, unsafe>>

\* The operator rotates once the window of the last rotation is over.
Rotate == WindowOver /\ BeginKeys(TRUE)

KeysNext ==
  \/ CheckBinding \/ BeginKeys(FALSE) \/ Rotate
  \/ Retain \/ SetOldFile \/ SetOldKid \/ GenPrivate \/ GenPublic \/ Bind
  \/ Stop \/ CutEnv
  \/ Boot \/ ServerStops \/ Issue \/ Expire \/ CloseWindow

KeysSpec == KeysInit /\ [][KeysNext]_keysVars

-----------------------------------------------------------------------------
(* Properties. *)

\* Every token alive verifies against what the running service publishes, across
\* rotations, restarts and runs stopped anywhere, but for four cases: a run stopped
\* between the new private key and its public key (the next run finds the old kid
\* "already bound"), a service that starts between the two, a rotation repeated
\* over one that stopped before it set the kid (public_old.pem is overwritten by a
\* key that has signed nothing), and a kid bound by a mv that was a copy and did not
\* come to the variables of the retained key.
TokensVerify == server # Down /\ ~unsafe => tokens \subseteq server.jwks

=============================================================================
