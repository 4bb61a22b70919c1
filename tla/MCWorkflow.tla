------------------------------- MODULE MCWorkflow -------------------------------
(* Instances of Workflow for TLC. *)
EXTENDS Workflow

\* tenant.onboarding.v1 (workflow.service.ts 49-73).
Onboarding == <<[retryAttempts |-> 1, compensates |-> TRUE],
                [retryAttempts |-> 2, compensates |-> TRUE],
                [retryAttempts |-> 2, compensates |-> FALSE]>>
=================================================================================
