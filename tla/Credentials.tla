----------------------------- MODULE Credentials -----------------------------
(***************************************************************************)
(* The two keepers of a credential, one behaviour of one of them at a time:*)
(* scripts/rotate-secret.sh (RotateSecret), and the catalogue's token Job  *)
(* (TokenJob), which it starts for a token the Job mints.  They share no   *)
(* variable: what the rotation knows of the Job is in its step Mint.       *)
(***************************************************************************)
EXTENDS RotateSecret, TokenJob

VARIABLE which

allVars == <<which, vars, jobVars>>

CredentialsInit == which \in {"rotation", "job"} /\ Init /\ JobInit

Rotation == which = "rotation" /\ Next /\ UNCHANGED <<which, jobVars>>
Job == which = "job" /\ JobNext /\ UNCHANGED <<which, vars>>

CredentialsNext == Rotation \/ Job

\* Applies of the release keep coming, and a Job that is not blocked goes on.
Fairness ==
    /\ WF_allVars(which = "job" /\ Start /\ UNCHANGED <<which, vars>>)
    /\ WF_allVars(which = "job" /\ Step /\ UNCHANGED <<which, vars>>)

CredentialsSpec == CredentialsInit /\ [][CredentialsNext]_allVars /\ Fairness

-----------------------------------------------------------------------------
\* api-token.py, "a token that left with a lost Secret stops working": once others leave it alone and
\* calls stop failing, each Secret holds the one token CKAN accepts of the name.
SettlesOnTheStoredToken == <>[](which = "job" => SecretsAgree)
=============================================================================
