----------------------------- MODULE E2bService -----------------------------
(***************************************************************************)
(* The transaction by which an experiment borrows the shared E2B daemons:  *)
(* service_placement (e2b_service_context.py) stops them, moves their      *)
(* working storage to private RAM (e2b_working_storage.py), pins them,     *)
(* starts them for the measurement and undoes all of it in `finally`.      *)
(* GUARD, the file E2B_SERVICE_RECOVERY_REQUIRED.json, is written before   *)
(* the first change and removed after the last verification.               *)
(***************************************************************************)
EXTENDS Naturals, FiniteSets

CONSTANTS
    Units,      \* the systemd units that may run experiments
    MaxFaults   \* failing steps, kills and interruptions (bound)

NoUnit == "none"

ASSUME E2bAssumption == NoUnit \notin Units /\ MaxFaults \in Nat

VARIABLES
    svc,     \* the daemons, their RAM storage and their drop-ins
    guard,   \* GUARD exists
    ctx,     \* the transaction in progress: its unit, its step, its errors
    faults

e2bVars == <<svc, guard, ctx, faults>>

Original == [daemons |-> "original", staged |-> FALSE, placed |-> FALSE]
NoCtx == [by |-> NoUnit, at |-> "none", errors |-> FALSE]

E2bInit == svc = Original /\ guard = FALSE /\ ctx = NoCtx /\ faults = 0

Preparing == {"stop", "stage", "place", "start", "measure"}

To(at) == ctx' = [ctx EXCEPT !.at = at]
Faulty == faults < MaxFaults /\ faults' = faults + 1

-----------------------------------------------------------------------------

\* require_admission and the drop-in check of service_placement.
assert_backend_ready == ~guard /\ ~svc.placed

\* MUTANT of Enter: the guard file is left to the recovery path.
EnterUnguarded(u) ==
    /\ ctx.by = NoUnit /\ assert_backend_ready
    /\ ctx' = [NoCtx EXCEPT !.by = u, !.at = "stop"]
    /\ UNCHANGED <<svc, guard, faults>>
Enter(u) ==
    /\ ctx.by = NoUnit /\ assert_backend_ready
    /\ guard' = TRUE
    /\ ctx' = [NoCtx EXCEPT !.by = u, !.at = "stop"]
    /\ UNCHANGED <<svc, faults>>

\* What the step at hand makes of the services: stop_owned_units,
\* prepare_stopped, the drop-ins and masks, systemctl start.
Prepared ==
    CASE ctx.at = "stop"  -> [svc EXCEPT !.daemons = "stopped"]
      [] ctx.at = "stage" -> [svc EXCEPT !.staged = TRUE]
      [] ctx.at = "place" -> [svc EXCEPT !.placed = TRUE]
      [] ctx.at = "start" -> [svc EXCEPT !.daemons = "private"]
      [] ctx.at = "measure" -> svc
Following == [stop |-> "stage", stage |-> "place", place |-> "start", start |-> "measure"]

Prepare ==
    /\ ctx.at \in DOMAIN Following
    /\ svc' = Prepared /\ To(Following[ctx.at])
    /\ UNCHANGED <<guard, faults>>

\* The body ends; an interruption, a step or the body raises: to `finally`.
\* A step that raises may have had its effect before.
Leave(interrupted) ==
    /\ \/ ctx.at = "measure" /\ UNCHANGED faults
       \/ ctx.at \in Preparing /\ interrupted /\ UNCHANGED faults
       \/ ctx.at \in Preparing /\ Faulty
    /\ To("check")
    /\ svc' \in {svc, Prepared}
    /\ UNCHANGED guard

\* idle, check_owned_units, the containers; then stop_owned_units.
Check == ctx.at = "check" /\ To("halt") /\ UNCHANGED <<svc, guard, faults>>

Halt ==
    /\ ctx.at = "halt" /\ To("unstage")
    /\ svc' = [svc EXCEPT !.daemons = "stopped"]
    /\ UNCHANGED <<guard, faults>>

\* restore_stopped: assert_stopped, then unmount.
Unstage ==
    /\ ctx.at = "unstage" /\ To("unplace")
    /\ svc' = [svc EXCEPT !.staged = FALSE]
    /\ UNCHANGED <<guard, faults>>

\* MUTANT of Retain: a daemon that did not stop does not end the restoration.
RetainUnlessHalt ==
    /\ ctx.at \in {"check", "halt", "unstage"} /\ Faulty
    /\ IF ctx.at = "halt" THEN To("unstage") ELSE ctx' = NoCtx
    /\ UNCHANGED <<svc, guard>>
\* A check, the stop or the storage fails, before or after its effect:
\* nothing more is touched.
Retain ==
    /\ ctx.at \in {"check", "halt", "unstage"} /\ Faulty
    /\ ctx' = NoCtx
    /\ svc' \in {svc} \cup (CASE ctx.at = "halt" -> {[svc EXCEPT !.daemons = "stopped"]}
                              [] ctx.at = "unstage" -> {[svc EXCEPT !.staged = FALSE]}
                              [] ctx.at = "check" -> {})
    /\ UNCHANGED guard

\* `attempt`: a failure is recorded and the next operation tried.
Unplace ==
    /\ ctx.at = "unplace"
    /\ \/ /\ svc' = [svc EXCEPT !.placed = FALSE] /\ To("restart")
          /\ UNCHANGED faults
       \/ /\ Faulty /\ ctx' = [ctx EXCEPT !.at = "restart", !.errors = TRUE]
          /\ UNCHANGED svc
    /\ UNCHANGED guard

\* A drop-in that is still there applies to the daemons that start.
Restart ==
    /\ ctx.at = "restart"
    /\ \/ /\ svc' = [svc EXCEPT !.daemons = IF svc.placed THEN "misplaced" ELSE "original"]
          /\ To("verify") /\ UNCHANGED faults
       \/ /\ Faulty /\ ctx' = [ctx EXCEPT !.at = "verify", !.errors = TRUE]
          /\ UNCHANGED svc
    /\ UNCHANGED guard

\* wait_restored; GUARD.unlink() only without errors.
Verify ==
    /\ ctx.at = "verify" /\ ctx' = NoCtx
    /\ \/ guard' = (ctx.errors \/ svc # Original) /\ UNCHANGED faults
       \/ Faulty /\ UNCHANGED guard
    /\ UNCHANGED svc

Restore == Check \/ Halt \/ Unstage \/ Retain \/ Unplace \/ Restart \/ Verify

E2bStep(u, interrupted) ==
    /\ ctx.by = u
    /\ \/ ~interrupted /\ Prepare
       \/ Leave(interrupted)
       \/ Restore

\* The process that runs the transaction is killed.
Abandon(u) ==
    /\ ctx' = IF ctx.by = u THEN NoCtx ELSE ctx
    /\ UNCHANGED <<svc, guard>>

-----------------------------------------------------------------------------

\* Whatever fails or is killed, daemons that are not as they were found are
\* announced: GUARD exists (service_placement saves it "before the first
\* mutation" and unlinks it last).
DirtyIsGuarded == svc # Original => guard

\* The RAM storage is under the daemons as long as they may use it
\* (restore_stopped: "Never cross this gate after a failed stop").
StorageUnderDaemons == svc.daemons = "private" => svc.staged
=============================================================================
