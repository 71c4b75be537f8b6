---------------------------- MODULE JobScheduling ----------------------------
(***************************************************************************)
(* JobRuns: ScheduleService over a JobStore, and the workers that claim,   *)
(* start and report runs.  Every use case reads the run from the store and *)
(* writes it back behind the fencing token it read; the two are steps of   *)
(* their own, as for the workers that the port's tokens are for.           *)
(*                                                                         *)
(* Worker names are unique and a worker makes one call at a time.  One     *)
(* scheduler creates the runs, as SchedulerService's loop does, so its     *)
(* lookup of the execution key and its create are one step.                *)
(***************************************************************************)
EXTENDS Naturals, FiniteSets

CONSTANTS
    Worker,
    Canceller,   \* the callers of cancel()
    Nobody,      \* claimedBy of a run nobody claimed
    Run,         \* job run ids
    ExecutionKey,
    MaxAttempts

ASSUME JobConstants ==
    /\ Nobody \notin Worker
    /\ Worker \cap Canceller = {}
    /\ MaxAttempts \in Nat \ {0}

VARIABLES
    jobs,      \* the store: id -> the run, NoJob before it is created
    jobCalls,  \* worker or canceller -> what it read and has not written yet
    tokens,    \* the fencing tokens handed out so far: 1..tokens, 0 is None
    executing, \* history: the <<worker, run>> between start() and the report
    starts     \* history: run -> how often start() succeeded

jobVars == <<jobs, jobCalls, tokens, executing, starts>>

JobStatus == {"SCHEDULED", "CLAIMED", "RUNNING", "RETRY_WAIT", "CANCEL_REQUESTED",
              "SUCCEEDED", "DEAD_LETTER", "CANCELLED"}
JobTerminal == {"SUCCEEDED", "DEAD_LETTER", "CANCELLED"}

\* JobRunStateMachineV1._TRANSITIONS.
JobTable ==
    ({"SCHEDULED"} \X {"CLAIMED", "CANCEL_REQUESTED"}) \cup
    ({"CLAIMED"} \X {"RUNNING", "RETRY_WAIT", "DEAD_LETTER"}) \cup
    ({"RUNNING"} \X {"SUCCEEDED", "RETRY_WAIT", "DEAD_LETTER", "CANCEL_REQUESTED"}) \cup
    ({"RETRY_WAIT"} \X {"CLAIMED", "CANCEL_REQUESTED", "DEAD_LETTER"}) \cup
    ({"CANCEL_REQUESTED"} \X {"CANCELLED", "DEAD_LETTER"})

Actor == Worker \cup Canceller
Job == [key : ExecutionKey, status : JobStatus, attempts : Nat, token : Nat,
        holder : Worker \cup {Nobody}]
NoJob == [status |-> "NONE"]

JobIdle == [step |-> "idle"]
JobClaiming == [step : {"claim"}, run : Run]
JobWriting == [step : {"write"}, run : Run, expected : Nat, job : Job]

JobTypeOK ==
    /\ jobs \in [Run -> Job \cup {NoJob}]
    /\ jobCalls \in [Actor -> JobClaiming \cup JobWriting \cup {JobIdle}]
    /\ tokens \in Nat
    /\ executing \subseteq Worker \X Run
    /\ starts \in [Run -> Nat]

JobInit ==
    /\ jobs = [r \in Run |-> NoJob]
    /\ jobCalls = [a \in Actor |-> JobIdle]
    /\ tokens = 0
    /\ executing = {}
    /\ starts = [r \in Run |-> 0]

Created == {r \in Run : jobs[r] # NoJob}

-----------------------------------------------------------------------------
\* scheduleRun(): a key that has a run gets no other.
ScheduleRun(r, k) ==
    /\ jobs[r] = NoJob
    /\ \A q \in Created : jobs[q].key # k
    /\ jobs' = [jobs EXCEPT ![r] = [key |-> k, status |-> "SCHEDULED", attempts |-> 0,
                                    token |-> 0, holder |-> Nobody]]
    /\ UNCHANGED <<jobCalls, tokens, executing, starts>>

\* claim() under a new token; the caller must find the status it expects.
Claim(w, r) ==
    /\ jobs' = [jobs EXCEPT ![r].status = "CLAIMED", ![r].token = tokens + 1,
                            ![r].holder = w]
    /\ tokens' = tokens + 1

\* claimNext(): findDue() offers a scheduled run ...
FindDue(w, r) ==
    /\ jobCalls[w] = JobIdle
    /\ jobs[r].status = "SCHEDULED"
    /\ jobCalls' = [jobCalls EXCEPT ![w] = [step |-> "claim", run |-> r]]
    /\ UNCHANGED <<jobs, tokens, executing, starts>>

\* ... and claim() takes it if it still is.
ClaimDue(w) ==
    /\ jobCalls[w].step = "claim"
    /\ LET r == jobCalls[w].run
       IN IF jobs[r].status = "SCHEDULED" THEN Claim(w, r) ELSE UNCHANGED <<jobs, tokens>>
    /\ jobCalls' = [jobCalls EXCEPT ![w] = JobIdle]
    /\ UNCHANGED <<executing, starts>>

\* retry(): any worker may claim a run that waits for a retry.
Retry(w, r) ==
    /\ jobCalls[w] = JobIdle
    /\ jobs[r].status = "RETRY_WAIT"
    /\ Claim(w, r)
    /\ UNCHANGED <<jobCalls, executing, starts>>

-----------------------------------------------------------------------------
\* withStatus() of the run just read, to be written behind the token read with it.
Prepare(a, r, status, attempts) ==
    jobCalls' = [jobCalls EXCEPT ![a] =
        [step |-> "write", run |-> r, expected |-> jobs[r].token,
         job |-> [jobs[r] EXCEPT !.status = status, !.attempts = attempts]]]

JobMay(r, status) == <<jobs[r].status, status>> \in JobTable

\* start(), by the worker the run is claimed by.
StartRead(w, r) ==
    /\ jobCalls[w] = JobIdle
    /\ r \in Created /\ jobs[r].holder = w
    /\ JobMay(r, "RUNNING")
    /\ Prepare(w, r, "RUNNING", jobs[r].attempts)
    /\ UNCHANGED <<jobs, tokens, executing, starts>>

\* fail(): back to the queue, or a dead letter at the last attempt.
AfterFailureLate(r) ==
    IF jobs[r].attempts >= MaxAttempts THEN "DEAD_LETTER" ELSE "RETRY_WAIT"

AfterFailure(r) ==
    IF jobs[r].attempts + 1 >= MaxAttempts THEN "DEAD_LETTER" ELSE "RETRY_WAIT"

Outcomes(r) == {"SUCCEEDED", AfterFailure(r)}

MayReportAny(w, r) == jobs[r].holder # Nobody

MayReport(w, r) == jobs[r].holder = w

\* succeed() and fail(): the worker is done with the run, whatever becomes of its
\* report.  A run of another worker, or one that may not move, is left alone.
ReportRead(w, r, outcome) ==
    /\ jobCalls[w] = JobIdle
    /\ r \in Created
    /\ outcome \in Outcomes(r)
    /\ IF MayReport(w, r) /\ JobMay(r, outcome)
       THEN Prepare(w, r, outcome, jobs[r].attempts + IF outcome = "SUCCEEDED" THEN 0 ELSE 1)
       ELSE <<w, r>> \in executing /\ UNCHANGED jobCalls
    /\ executing' = executing \ {<<w, r>>}
    /\ UNCHANGED <<jobs, tokens, starts>>

\* cancel(): at once before the first claim, else on request and, by a second
\* call, for good; a claimed run refuses.  A terminal run is returned as it is.
CancelRead(x, r) ==
    /\ jobCalls[x] = JobIdle
    /\ \/ /\ jobs[r].status \in {"SCHEDULED", "CANCEL_REQUESTED"}
          /\ Prepare(x, r, "CANCELLED", jobs[r].attempts)
       \/ /\ jobs[r].status # "SCHEDULED"
          /\ JobMay(r, "CANCEL_REQUESTED")
          /\ Prepare(x, r, "CANCEL_REQUESTED", jobs[r].attempts)
    /\ UNCHANGED <<jobs, tokens, executing, starts>>

Unfenced(call) == TRUE

\* update(): an empty expected token is not checked, and a terminal run stays.
Fenced(call) == call.expected = 0 \/ jobs[call.run].token = call.expected

Settled(call) ==
    jobs[call.run].status \in JobTerminal /\ call.job.status # jobs[call.run].status

JobWrite(a) ==
    /\ jobCalls[a].step = "write"
    /\ LET call == jobCalls[a]
           written == Fenced(call) /\ ~Settled(call)
           started == written /\ call.job.status = "RUNNING"
       IN /\ jobs' = IF written THEN [jobs EXCEPT ![call.run] = call.job] ELSE jobs
          /\ executing' = IF started THEN executing \cup {<<a, call.run>>} ELSE executing
          /\ starts' = IF started THEN [starts EXCEPT ![call.run] = @ + 1] ELSE starts
    /\ jobCalls' = [jobCalls EXCEPT ![a] = JobIdle]
    /\ UNCHANGED tokens

JobNext ==
    \/ \E r \in Run, k \in ExecutionKey : ScheduleRun(r, k)
    \/ \E w \in Worker, r \in Run :
        \/ FindDue(w, r) \/ Retry(w, r) \/ StartRead(w, r)
        \/ \E outcome \in JobStatus : ReportRead(w, r, outcome)
    \/ \E x \in Canceller, r \in Run : CancelRead(x, r)
    \/ \E w \in Worker : ClaimDue(w)
    \/ \E a \in Actor : JobWrite(a)

JobSpec == JobInit /\ [][JobNext]_jobVars

-----------------------------------------------------------------------------
\* Two workers never execute a run at the same time, whatever its claims, reports
\* and cancellations race with.
JobExclusive ==
    \A v, w \in Worker, r \in Run :
        <<v, r>> \in executing /\ <<w, r>> \in executing => v = w

\* A run is started MaxAttempts times at most, though a write may put back the
\* attempts of an earlier read.
JobStartsBounded == \A r \in Run : starts[r] <= MaxAttempts

\* The moves outside the table that a race can make: a cancellation read before the
\* first claim, or before the worker's report, and a report read before the request.
JobRaces ==
    ({"SCHEDULED", "CLAIMED", "RUNNING", "RETRY_WAIT"} \X {"CANCELLED"}) \cup
    ({"CANCEL_REQUESTED"} \X {"SUCCEEDED", "RETRY_WAIT"})

RunMoves(r) ==
    /\ jobs'[r].status # jobs[r].status =>
        /\ <<jobs[r].status, jobs'[r].status>> \in JobTable \cup JobRaces
        /\ jobs[r].status \notin JobTerminal
    /\ jobs'[r].token # jobs[r].token =>
        \/ jobs'[r].token > tokens
        \/ jobs'[r].token = 0 /\ jobs'[r].status = "CANCELLED"

\* Whatever reads and writes interleave, the status of a run follows the table but
\* for those races, never leaves a terminal status, and a superseded fencing token
\* never comes back: a claim is undone by a newer one, or by a cancellation that
\* read the run before its first claim.
JobMovesAlongTable == [][\A r \in Created : RunMoves(r)]_jobVars
=============================================================================
