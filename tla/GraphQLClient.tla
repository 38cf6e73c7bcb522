---------------------------- MODULE GraphQLClient ----------------------------
(***************************************************************************)
(* A query to a service of SourceHut: SourceHutGraphQLClient.execute.  It  *)
(* is tried again when the network or the server fails, a limited number   *)
(* of times and after a longer pause each time.  Whoever asks is a member  *)
(* of Clients; what they do with the answer is up to the modules that      *)
(* extend this one.                                                        *)
(***************************************************************************)
EXTENDS Integers

CONSTANTS
    Clients,
    MaxRetries,
    MaxFaults            \* bound: failed attempts of all queries

ASSUME ClientAssumption == MaxRetries \in Nat /\ MaxFaults \in Nat

VARIABLES
    attempt,    \* of the query of each client: 0 is the first
    slept,      \* seconds the query has paused, without the request delay
    faults,     \* attempts that failed
    raised      \* queries given up for want of an answer

clientVars == <<attempt, slept, faults, raised>>

ClientTypeOK ==
    /\ attempt \in [Clients -> 0..MaxRetries]
    /\ slept \in [Clients -> Nat]
    /\ faults \in 0..MaxFaults /\ raised \in Nat

ClientInit ==
    /\ attempt = [c \in Clients |-> 0]
    /\ slept = [c \in Clients |-> 0]
    /\ faults = 0 /\ raised = 0

Reset(c) == attempt' = [attempt EXCEPT ![c] = 0] /\ slept' = [slept EXCEPT ![c] = 0]

\* An answer, whatever it says.
Answered(c) == Reset(c) /\ UNCHANGED <<faults, raised>>

\* Seconds before the attempt after attempt n: 2 ** n.
Pause[n \in 0..MaxRetries] == IF n = 0 THEN 1 ELSE 2 * Pause[n - 1]

\* Mutant: attempts count from 1.
Retry_Longer(c) ==
    /\ faults < MaxFaults /\ attempt[c] < MaxRetries
    /\ attempt' = [attempt EXCEPT ![c] = @ + 1]
    /\ slept' = [slept EXCEPT ![c] = @ + Pause[attempt[c] + 1]]
    /\ faults' = faults + 1
    /\ UNCHANGED raised

\* A status of 500 or more, or no answer at all.
Retry(c) ==
    /\ faults < MaxFaults /\ attempt[c] < MaxRetries
    /\ attempt' = [attempt EXCEPT ![c] = @ + 1]
    /\ slept' = [slept EXCEPT ![c] = @ + Pause[attempt[c]]]
    /\ faults' = faults + 1
    /\ UNCHANGED raised

\* Mutant: the last attempt is not told from the others.
Raise_AnyTime(c) ==
    /\ faults < MaxFaults
    /\ Reset(c) /\ faults' = faults + 1 /\ raised' = raised + 1

\* The same at the last attempt.
Raise(c) ==
    /\ faults < MaxFaults /\ attempt[c] = MaxRetries
    /\ Reset(c) /\ faults' = faults + 1 /\ raised' = raised + 1

-----------------------------------------------------------------------------
\* Faults that pass are ridden out: whoever gives up has seen MaxRetries + 1 of
\* them in a row, and of one query, however the queries interleave.
FaultsAreRidden == raised * (MaxRetries + 1) <= faults

\* The pauses of a query add up to less than 2 ^ MaxRetries seconds, so that a
\* query that holds SQLite's write lock does not hold it for long.
PausesAreShort == \A c \in Clients : slept[c] < Pause[MaxRetries]
=============================================================================
