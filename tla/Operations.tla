----------------------------- MODULE Operations -----------------------------
(***************************************************************************)
(* Small instances of the parts that keep a deployment running: Startup,   *)
(* InitKeys, UtcSession and Dashboard.  They share no state and no event,  *)
(* so that their product says nothing that they do not say one by one: a   *)
(* behaviour is one of the part in focus, the others rest as they began.   *)
(***************************************************************************)
EXTENDS Startup, InitKeys, UtcSession, Dashboard

VARIABLE focus

opsVars == <<startVars, keysVars, utcVars, dashVars, focus>>

OpsModels == <<"Category", "PromptBlock">>

\* Half an hour before the end of a year, of 28 and of 29 February.
OpsStarts == {<<2023, 12, 31, 23, 30>>, <<2024, 2, 28, 23, 30>>, <<2024, 2, 29, 23, 30>>}

\* Both sides of every bound of their windows.
OpsSamples ==
  OpsStarts \cup
  {<<2022, 12, 31, 23, 59>>, <<2023, 1, 1, 0, 0>>, <<2023, 11, 30, 23, 59>>,
   <<2023, 12, 1, 0, 0>>, <<2023, 12, 31, 0, 0>>, <<2023, 12, 31, 22, 59>>,
   <<2023, 12, 31, 23, 59>>, <<2024, 1, 1, 0, 0>>, <<2024, 1, 1, 0, 59>>,
   <<2024, 1, 1, 1, 0>>, <<2024, 1, 31, 23, 59>>, <<2024, 2, 1, 0, 0>>,
   <<2024, 2, 27, 23, 59>>, <<2024, 2, 29, 0, 0>>, <<2024, 2, 29, 23, 59>>,
   <<2024, 3, 1, 0, 0>>, <<2024, 12, 31, 23, 59>>, <<2025, 1, 1, 0, 0>>}

StartAtRest == legacy = {} /\ stamp = 0
UtcAtRest == release = "present"
DashAtRest == now = <<2023, 12, 31, 23, 30>>

OpsInit ==
  /\ StartInit /\ KeysInit /\ UtcInit /\ DashInit
  /\ focus \in {"startup", "keys", "utc", "dashboard"}
  /\ focus # "startup" => StartAtRest
  /\ focus # "utc" => UtcAtRest
  /\ focus # "dashboard" => DashAtRest

OpsNext ==
  \/ focus = "startup" /\ StartNext /\ UNCHANGED <<keysVars, utcVars, dashVars, focus>>
  \/ focus = "keys" /\ KeysNext /\ UNCHANGED <<startVars, utcVars, dashVars, focus>>
  \/ focus = "utc" /\ UtcNext /\ UNCHANGED <<startVars, keysVars, dashVars, focus>>
  \/ focus = "dashboard" /\ DashNext /\ UNCHANGED <<startVars, keysVars, utcVars, focus>>

\* Under the fairness of the part in focus: the others have none.
OpsSpec ==
  OpsInit /\ [][OpsNext]_opsVars /\ (focus = "startup" => StartFairness)

\* EventuallyServes of Startup, when it is in focus.
StartedEventuallyServes == focus = "startup" => EventuallyServes

=============================================================================
