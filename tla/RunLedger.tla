----------------------------- MODULE RunLedger -----------------------------
(***************************************************************************)
(* What the dashboard promises of a script run: devices are entered while  *)
(* the run is open, each gets one outcome, and the run is closed once, with *)
(* the verdict over the outcomes, when no entered device is undecided.     *)
(***************************************************************************)
CONSTANT Device

VARIABLES outcome,  \* device -> "absent", "open", "done" or "failed"
          status    \* of the run: "none", "running" or its verdict

ledgerVars == <<outcome, status>>

Verdict == {"done", "failed", "partial"}

LedgerTypeOK ==
    /\ outcome \in [Device -> {"absent", "open", "done", "failed"}]
    /\ status \in {"none", "running"} \union Verdict

\* The verdict over the outcomes f (persist_script_progress)
VerdictOf(f) ==
    IF \A d \in Device : f[d] # "failed" THEN "done"
    ELSE IF \A d \in Device : f[d] # "done" THEN "failed"
    ELSE "partial"

LedgerInit ==
    /\ outcome = [d \in Device |-> "absent"]
    /\ status = "none"

Open ==
    /\ status = "none"
    /\ status' = "running"
    /\ UNCHANGED outcome

Enter(d) ==
    /\ status = "running"
    /\ outcome[d] = "absent"
    /\ outcome' = [outcome EXCEPT ![d] = "open"]
    /\ UNCHANGED status

Decide(d) ==
    /\ status = "running"
    /\ outcome[d] = "open"
    /\ \E o \in {"done", "failed"} : outcome' = [outcome EXCEPT ![d] = o]
    /\ UNCHANGED status

Close ==
    /\ status = "running"
    /\ \A d \in Device : outcome[d] # "open"
    /\ \E d \in Device : outcome[d] # "absent"
    /\ status' = VerdictOf(outcome)
    /\ UNCHANGED outcome

LedgerNext == Open \/ Close \/ \E d \in Device : Enter(d) \/ Decide(d)

LedgerSpec == LedgerInit /\ [][LedgerNext]_ledgerVars

=============================================================================
