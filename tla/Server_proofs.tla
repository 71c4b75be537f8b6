---------------------------- MODULE Server_proofs ----------------------------
(***************************************************************************)
(* Proofs about the parts of the server, as far as MCServer has them:      *)
(* JobScheduling, ObjectStore, SchemaMigration, RequestLimits, Commands    *)
(* and StateStream, for any number of workers, cancellers, runs and        *)
(* attempts, of processes, contents, versions and buckets, of callers,     *)
(* scopes and payloads, of clients, principals and events, and any rates.  *)
(***************************************************************************)
EXTENDS JobScheduling, Commands, StateStream, ObjectStore, SchemaMigration, RequestLimits,
        FiniteSetTheorems, TLAPS

(***************************************************************************)
(* JobScheduling: the write of a call may be any number of steps after its *)
(* read.                                                                   *)
(***************************************************************************)

\* The statuses a run may have when a write of a status comes whose token still is
\* the run's, besides the terminal ones.
Before == [s \in JobStatus |->
    CASE s = "RUNNING" -> {"CLAIMED"}
      [] s = "SUCCEEDED" -> {"RUNNING", "CANCEL_REQUESTED"}
      [] s = "RETRY_WAIT" -> {"CLAIMED", "RUNNING", "CANCEL_REQUESTED"}
      [] s = "DEAD_LETTER" -> {"CLAIMED", "RUNNING", "RETRY_WAIT", "CANCEL_REQUESTED"}
      [] s = "CANCEL_REQUESTED" -> {"RUNNING", "RETRY_WAIT", "CANCEL_REQUESTED"}
      [] s = "CANCELLED" -> {"SCHEDULED", "CANCEL_REQUESTED", "RETRY_WAIT"}
      [] OTHER -> {}]

\* A run has a token from its first claim on, until it is cancelled behind a read
\* from before that claim.
TokensSound == \A r \in Created :
    /\ jobs[r].token <= tokens
    /\ jobs[r].token = 0 <=> jobs[r].holder = Nobody
    /\ jobs[r].status = "SCHEDULED" => jobs[r].token = 0
    /\ jobs[r].token = 0 => jobs[r].status \in {"SCHEDULED", "CANCELLED"}

\* Who executes a run holds it and the run is under way, or it was cancelled.
ExecutingSound == \A w \in Worker, r \in Run : <<w, r>> \in executing =>
    /\ r \in Created
    /\ \/ jobs[r].status = "CANCELLED"
       \/ jobs[r].holder = w /\ jobs[r].status \in {"RUNNING", "CANCEL_REQUESTED"}

\* What a write that is still to come holds: a worker's is that of a holder who does
\* not execute the run, and a canceller's only cancels.
WriteHolds(a) ==
    LET call == jobCalls[a]
    IN /\ call.run \in Created
       /\ call.job.token = call.expected
       /\ call.expected <= tokens
       /\ call.job.status \in {"RUNNING", "SUCCEEDED", "RETRY_WAIT", "DEAD_LETTER",
                               "CANCEL_REQUESTED", "CANCELLED"}
       /\ call.expected = 0 => call.job.status = "CANCELLED" /\ call.job.holder = Nobody
       /\ a \in Worker =>
           /\ call.job.holder = a
           /\ <<a, call.run>> \notin executing
           /\ call.job.status \notin {"CANCEL_REQUESTED", "CANCELLED"}
       /\ a \in Canceller => call.job.status \in {"CANCEL_REQUESTED", "CANCELLED"}

\* ... and, as long as its token is the run's, the run has the same holder and a
\* status that the write may follow.
WriteFollows(a) ==
    LET call == jobCalls[a]
    IN jobs[call.run].token = call.expected =>
        /\ jobs[call.run].holder = call.job.holder
        /\ jobs[call.run].status \in Before[call.job.status] \cup JobTerminal

WritesSound == \A a \in Actor : jobCalls[a].step = "write" => WriteHolds(a) /\ WriteFollows(a)

JobInv ==
    /\ JobTypeOK
    /\ TokensSound
    /\ ExecutingSound
    /\ WritesSound
    /\ JobExclusive

LEMMA CreatedJob == JobTypeOK => \A r \in Created : jobs[r] \in Job
BY DEF JobTypeOK, Created

LEMMA NotCreated == \A r \in Run : jobs[r].status \in JobStatus => r \in Created
BY DEF Created, NoJob, JobStatus

\* The step of a call tells what it holds.
LEMMA JobCallKind ==
    ASSUME JobTypeOK, NEW a \in Actor
    PROVE  /\ jobCalls[a].step = "claim" => jobCalls[a] \in JobClaiming
           /\ jobCalls[a].step = "write" => jobCalls[a] \in JobWriting
           /\ jobCalls[a] = JobIdle => jobCalls[a].step = "idle"
BY DEF JobTypeOK, JobClaiming, JobWriting, JobIdle

LEMMA JobInitInv == JobInit => JobInv
BY JobConstants
DEF JobInit, JobInv, JobTypeOK, TokensSound, ExecutingSound, WritesSound, JobExclusive, Created,
    JobIdle, NoJob

LEMMA JobActors == Worker \subseteq Actor /\ Canceller \subseteq Actor /\ Nobody \notin Worker
                   /\ \A a \in Actor : a \in Worker <=> a \notin Canceller
BY JobConstants DEF Actor

-----------------------------------------------------------------------------
LEMMA ScheduleKeeps ==
    ASSUME JobInv, NEW r \in Run, NEW k \in ExecutionKey, ScheduleRun(r, k)
    PROVE  JobInv'
<1>1. jobs' \in [Run -> Job \cup {NoJob}] /\ r \notin Created /\ Created' = Created \cup {r}
  BY DEF JobInv, JobTypeOK, ScheduleRun, Job, NoJob, JobStatus, Created
<1>2. JobTypeOK'
  BY <1>1 DEF JobInv, JobTypeOK, ScheduleRun
<1>3. \A q \in Run : q # r => jobs'[q] = jobs[q]
  BY DEF JobInv, JobTypeOK, ScheduleRun
<1>4. /\ jobs'[r].token = 0 /\ jobs'[r].holder = Nobody /\ jobs'[r].status = "SCHEDULED"
  BY DEF JobInv, JobTypeOK, ScheduleRun
<1>5. TokensSound'
  BY <1>1, <1>3, <1>4 DEF JobInv, JobTypeOK, TokensSound, Created, ScheduleRun
<1>6. ExecutingSound' /\ JobExclusive'
  BY <1>1, <1>3 DEF JobInv, ExecutingSound, JobExclusive, ScheduleRun
<1>7. WritesSound'
  <2> SUFFICES ASSUME NEW a \in Actor, jobCalls[a].step = "write"
               PROVE  (WriteHolds(a) /\ WriteFollows(a))'
    BY DEF WritesSound, ScheduleRun
  <2>1. WriteHolds(a) /\ WriteFollows(a) /\ jobCalls[a].run # r /\ jobCalls[a].run \in Run
    BY <1>1, JobCallKind DEF JobInv, WritesSound, WriteHolds, JobWriting
  <2> QED
    BY <1>1, <1>3, <2>1 DEF WriteHolds, WriteFollows, ScheduleRun
<1> QED
  BY <1>2, <1>5, <1>6, <1>7 DEF JobInv

\* The claim of a run that waits, by a caller that is not about to write.
LEMMA ClaimKeeps ==
    ASSUME JobInv, NEW w \in Worker, NEW r \in Run, jobs[r].status \in {"SCHEDULED", "RETRY_WAIT"},
           Claim(w, r), UNCHANGED <<executing, starts>>,
           jobCalls' = jobCalls \/ jobCalls' = [jobCalls EXCEPT ![w] = JobIdle]
    PROVE  JobInv'
<1>1. r \in Created /\ jobs[r] \in Job /\ tokens \in Nat
  BY NotCreated, CreatedJob DEF JobInv, JobStatus, JobTypeOK
<1>2. /\ jobs'[r] \in Job /\ jobs'[r] # NoJob
      /\ jobs'[r].status = "CLAIMED" /\ jobs'[r].token = tokens + 1 /\ jobs'[r].holder = w
      /\ jobs'[r].attempts = jobs[r].attempts
      /\ \A q \in Run : q # r => jobs'[q] = jobs[q]
  <2>1. jobs' = [jobs EXCEPT ![r] = [jobs[r] EXCEPT !.status = "CLAIMED", !.token = tokens + 1,
                                                    !.holder = w]]
    BY DEF Claim, JobInv, JobTypeOK
  <2>2. jobs'[r] = [jobs[r] EXCEPT !.status = "CLAIMED", !.token = tokens + 1, !.holder = w]
    BY <2>1 DEF JobInv, JobTypeOK
  <2>3. \A q \in Run : q # r => jobs'[q] = jobs[q]
    BY <2>1 DEF JobInv, JobTypeOK
  <2>4. jobs'[r] = [key |-> jobs[r].key, status |-> "CLAIMED", attempts |-> jobs[r].attempts,
                    token |-> tokens + 1, holder |-> w]
    BY <1>1, <2>2 DEF Job
  <2>5. jobs'[r] \in Job /\ jobs'[r].status = "CLAIMED"
    BY <1>1, <2>4 DEF Job, JobStatus
  <2> QED
    BY <1>1, <2>3, <2>4, <2>5 DEF NoJob
<1>3. Created' = Created
  BY <1>1, <1>2 DEF Created
<1>4. JobTypeOK'
  BY <1>1, <1>2, JobActors DEF JobInv, JobTypeOK, Claim
<1>5. TokensSound'
  <2>1. tokens' = tokens + 1
    BY DEF Claim
  <2>2. \A q \in Created : jobs[q] \in Job /\ q \in Run
    BY CreatedJob DEF JobInv, Created
  <2> QED
    BY <1>1, <1>2, <1>3, <2>1, <2>2, JobActors DEF JobInv, TokensSound, Job
<1>6. \A v \in Worker : <<v, r>> \notin executing
  BY DEF JobInv, ExecutingSound
<1>7. ExecutingSound' /\ JobExclusive'
  BY <1>2, <1>3, <1>6 DEF JobInv, ExecutingSound, JobExclusive
<1>8. WritesSound'
  <2> SUFFICES ASSUME NEW a \in Actor, jobCalls'[a].step = "write"
               PROVE  (WriteHolds(a) /\ WriteFollows(a))'
    BY DEF WritesSound
  <2>1. jobCalls'[a] = jobCalls[a]
    BY JobActors DEF JobInv, JobTypeOK, JobIdle
  <2>2. /\ jobCalls[a] \in JobWriting /\ WriteHolds(a) /\ WriteFollows(a)
        /\ jobCalls[a].expected \in Nat /\ jobCalls[a].run \in Run
    BY <2>1, JobCallKind DEF JobInv, WritesSound, JobWriting
  <2>3. WriteHolds(a)'
    BY <1>1, <1>3, <2>1, <2>2 DEF WriteHolds, Claim
  <2>4. WriteFollows(a)'
    BY <1>1, <1>2, <2>1, <2>2 DEF WriteHolds, WriteFollows
  <2> QED
    BY <2>3, <2>4
<1> QED
  BY <1>4, <1>5, <1>7, <1>8 DEF JobInv

-----------------------------------------------------------------------------
\* A read that prepares a write, or leaves the calls alone, and gives up an execution
\* at most.
LEMMA ReadKeeps ==
    ASSUME JobInv, NEW a \in Actor, NEW gone, UNCHANGED <<jobs, tokens, starts>>,
           jobCalls' \in [Actor -> JobClaiming \cup JobWriting \cup {JobIdle}],
           executing' = executing \ gone,
           \A b \in Actor : b # a => jobCalls'[b] = jobCalls[b],
           \/ jobCalls'[a] = jobCalls[a]
           \/ jobCalls'[a].step # "write"
           \/ (WriteHolds(a) /\ WriteFollows(a))'
    PROVE  JobInv'
<1>1. JobTypeOK' /\ Created' = Created
  BY DEF JobInv, JobTypeOK, Created
<1>2. TokensSound' /\ ExecutingSound' /\ JobExclusive'
  BY <1>1 DEF JobInv, TokensSound, ExecutingSound, JobExclusive
<1>3. WritesSound'
  <2> SUFFICES ASSUME NEW b \in Actor, jobCalls'[b].step = "write"
               PROVE  (WriteHolds(b) /\ WriteFollows(b))'
    BY DEF WritesSound
  <2>1. CASE jobCalls'[b] = jobCalls[b]
    <3>1. WriteHolds(b) /\ WriteFollows(b)
      BY <2>1 DEF JobInv, WritesSound
    <3>2. WriteHolds(b)'
      BY <1>1, <2>1, <3>1 DEF WriteHolds
    <3>3. WriteFollows(b)'
      BY <1>1, <2>1, <3>1 DEF WriteFollows
    <3> QED
      BY <3>2, <3>3
  <2>2. CASE jobCalls'[b] # jobCalls[b]
    BY <2>2
  <2> QED
    BY <2>1, <2>2
<1> QED
  BY <1>1, <1>2, <1>3 DEF JobInv

\* The write that a read prepares.
LEMMA Prepared ==
    ASSUME JobInv, NEW a \in Actor, NEW r \in Created, NEW job \in Job,
           jobCalls' = [jobCalls EXCEPT ![a] =
               [step |-> "write", run |-> r, expected |-> jobs[r].token, job |-> job]]
    PROVE  /\ jobCalls' \in [Actor -> JobClaiming \cup JobWriting \cup {JobIdle}]
           /\ \A b \in Actor : b # a => jobCalls'[b] = jobCalls[b]
           /\ jobCalls'[a].run = r /\ jobCalls'[a].expected = jobs[r].token
           /\ jobCalls'[a].job = job
<1>1. jobs[r] \in Job /\ r \in Run
  BY CreatedJob DEF JobInv, Created
<1> QED
  BY <1>1 DEF JobInv, JobTypeOK, JobWriting, Job

LEMMA StartReadKeeps ==
    ASSUME JobInv, NEW w \in Worker, NEW r \in Run, StartRead(w, r)
    PROVE  JobInv'
<1>1. /\ r \in Created /\ jobs[r] \in Job /\ jobs[r].holder = w /\ w \in Actor
      /\ jobs[r].status = "CLAIMED" /\ w \notin Canceller /\ jobs[r].token # 0
  BY CreatedJob, JobActors DEF StartRead, JobInv, JobMay, JobTable, TokensSound
<1>2. Prepare(w, r, "RUNNING", jobs[r].attempts) /\ UNCHANGED <<jobs, tokens, executing, starts>>
  BY DEF StartRead
<1>3. <<w, r>> \notin executing
  BY <1>1 DEF JobInv, ExecutingSound
<1>4. "RUNNING" \in JobStatus /\ jobs[r].attempts \in Nat /\ Created' = Created /\ jobs' = jobs
  BY <1>1, <1>2 DEF JobStatus, Job, Created
<1> DEFINE written == jobCalls'[w]
           job == [jobs[r] EXCEPT !.status = "RUNNING", !.attempts = jobs[r].attempts]
<1>5. /\ jobCalls' \in [Actor -> JobClaiming \cup JobWriting \cup {JobIdle}]
      /\ \A b \in Actor : b # w => jobCalls'[b] = jobCalls[b]
      /\ written.run = r /\ written.expected = jobs[r].token /\ written.job.status = "RUNNING"
      /\ written.job.token = jobs[r].token /\ written.job.holder = jobs[r].holder
  <2>1. job \in Job /\ job.status = "RUNNING" /\ job.token = jobs[r].token
        /\ job.holder = jobs[r].holder
    BY <1>1, <1>4 DEF Job
  <2>2. jobCalls' = [jobCalls EXCEPT ![w] =
            [step |-> "write", run |-> r, expected |-> jobs[r].token, job |-> job]]
    BY <1>2 DEF Prepare
  <2> HIDE DEF job
  <2> QED
    BY <1>1, <2>1, <2>2, Prepared
<1>6. WriteHolds(w)'
  BY <1>1, <1>2, <1>3, <1>4, <1>5 DEF WriteHolds, JobInv, TokensSound
<1>7. WriteFollows(w)'
  BY <1>1, <1>2, <1>5 DEF WriteFollows, Before, JobStatus
<1> QED
  BY <1>1, <1>2, <1>5, <1>6, <1>7, ReadKeeps, executing' = executing \ {}

LEMMA ReportReadKeeps ==
    ASSUME JobInv, NEW w \in Worker, NEW r \in Run, NEW outcome \in JobStatus,
           ReportRead(w, r, outcome)
    PROVE  JobInv'
<1>1. /\ r \in Created /\ jobs[r] \in Job /\ w \in Actor /\ w \notin Canceller
      /\ outcome \in {"SUCCEEDED", "RETRY_WAIT", "DEAD_LETTER"}
      /\ UNCHANGED <<jobs, tokens, starts>> /\ executing' = executing \ {<<w, r>>}
  BY CreatedJob, JobActors DEF ReportRead, JobInv, Outcomes, AfterFailure
<1>2. CASE UNCHANGED jobCalls
  BY <1>1, <1>2, ReadKeeps DEF JobInv, JobTypeOK
<1>3. CASE MayReport(w, r) /\ JobMay(r, outcome)
  <2> DEFINE written == jobCalls'[w]
             n == jobs[r].attempts + IF outcome = "SUCCEEDED" THEN 0 ELSE 1
             job == [jobs[r] EXCEPT !.status = outcome, !.attempts = n]
  <2>1. /\ jobs[r].holder = w /\ jobs[r].token # 0 /\ jobs[r].token <= tokens
        /\ <<jobs[r].status, outcome>> \in JobTable /\ Created' = Created /\ n \in Nat
    BY <1>1, <1>3, JobActors DEF MayReport, JobMay, JobInv, TokensSound, Created, Job
  <2>2. job \in Job /\ job.status = outcome /\ job.token = jobs[r].token
        /\ job.holder = jobs[r].holder
    BY <1>1, <2>1 DEF Job
  <2>3. jobCalls' = [jobCalls EXCEPT ![w] =
            [step |-> "write", run |-> r, expected |-> jobs[r].token, job |-> job]]
    BY <1>3 DEF ReportRead, Prepare
  <2> HIDE DEF job, n
  <2>4. /\ jobCalls' \in [Actor -> JobClaiming \cup JobWriting \cup {JobIdle}]
        /\ \A b \in Actor : b # w => jobCalls'[b] = jobCalls[b]
        /\ written.run = r /\ written.expected = jobs[r].token /\ written.job = job
    BY <1>1, <2>2, <2>3, Prepared
  <2>5. WriteHolds(w)'
    BY <1>1, <2>1, <2>2, <2>4 DEF WriteHolds
  <2>6. jobs[r].status \in Before[outcome]
    BY <1>1, <2>1 DEF JobTable, Before, JobStatus
  <2>7. WriteFollows(w)'
    BY <1>1, <2>2, <2>4, <2>6 DEF WriteFollows
  <2> QED
    BY <1>1, <2>4, <2>5, <2>7, ReadKeeps
<1> QED
  BY <1>2, <1>3 DEF ReportRead

LEMMA CancelReadKeeps ==
    ASSUME JobInv, NEW x \in Canceller, NEW r \in Run, CancelRead(x, r)
    PROVE  JobInv'
<1>1. PICK status \in {"CANCELLED", "CANCEL_REQUESTED"} :
          /\ jobs[r].status \in Before[status]
          /\ jobs[r].status = "SCHEDULED" => status = "CANCELLED"
          /\ Prepare(x, r, status, jobs[r].attempts)
  BY DEF CancelRead, JobMay, JobTable, Before, JobStatus
<1>2. /\ r \in Created /\ jobs[r] \in Job /\ x \in Actor /\ x \notin Worker
      /\ UNCHANGED <<jobs, tokens, starts>> /\ executing' = executing \ {} /\ Created' = Created
  <2>1. jobs[r].status \in JobStatus
    BY <1>1 DEF Before, JobStatus
  <2> QED
    BY <2>1, NotCreated, CreatedJob, JobActors DEF CancelRead, JobInv, Created
<1> DEFINE written == jobCalls'[x]
           job == [jobs[r] EXCEPT !.status = status, !.attempts = jobs[r].attempts]
<1>3. job \in Job /\ job.status = status /\ job.token = jobs[r].token /\ job.holder = jobs[r].holder
  BY <1>1, <1>2 DEF Job, JobStatus
<1>4. jobCalls' = [jobCalls EXCEPT ![x] =
          [step |-> "write", run |-> r, expected |-> jobs[r].token, job |-> job]]
  BY <1>1 DEF Prepare
<1> HIDE DEF job
<1>5. /\ jobCalls' \in [Actor -> JobClaiming \cup JobWriting \cup {JobIdle}]
      /\ \A b \in Actor : b # x => jobCalls'[b] = jobCalls[b]
      /\ written.run = r /\ written.expected = jobs[r].token /\ written.job = job
  BY <1>2, <1>3, <1>4, Prepared
<1>6. jobs[r].token = 0 => status = "CANCELLED" /\ jobs[r].holder = Nobody
  BY <1>1, <1>2 DEF JobInv, TokensSound, Before, JobStatus
<1>7. WriteHolds(x)'
  BY <1>1, <1>2, <1>3, <1>5, <1>6 DEF WriteHolds, JobInv, TokensSound
<1>8. WriteFollows(x)'
  BY <1>1, <1>2, <1>3, <1>5 DEF WriteFollows
<1> QED
  BY <1>2, <1>5, <1>7, <1>8, ReadKeeps

-----------------------------------------------------------------------------
\* What a write does to its run when it is not refused.
LEMMA WriteMoves ==
    ASSUME JobInv, NEW a \in Actor, jobCalls[a].step = "write",
           Fenced(jobCalls[a]), ~Settled(jobCalls[a])
    PROVE  LET r == jobCalls[a].run
               job == jobCalls[a].job
           IN /\ r \in Created /\ jobs[r] \in Job /\ job \in Job
              /\ jobs[r].status \in JobTerminal => job.status = jobs[r].status
              /\ \/ /\ job.token = jobs[r].token /\ job.holder = jobs[r].holder
                    /\ jobs[r].status \in Before[job.status] \cup JobTerminal
                 \/ job.status = "CANCELLED" /\ job.token = 0 /\ job.holder = Nobody
<1>1. WriteHolds(a) /\ WriteFollows(a) /\ jobCalls[a] \in JobWriting
  BY JobCallKind DEF JobInv, WritesSound
<1>2. jobCalls[a].run \in Created /\ jobs[jobCalls[a].run] \in Job /\ jobCalls[a].job \in Job
  BY <1>1, CreatedJob DEF JobInv, WriteHolds, JobWriting
<1> QED
  BY <1>1, <1>2 DEF WriteHolds, WriteFollows, Fenced, Settled

\* A write leaves all runs but its own alone, and its own unless it is accepted.
LEMMA WriteSplits ==
    ASSUME JobInv, NEW a \in Actor, JobWrite(a)
    PROVE  LET call == jobCalls[a]
           IN /\ call \in JobWriting /\ call.run \in Created
              /\ jobCalls' = [jobCalls EXCEPT ![a] = JobIdle] /\ tokens' = tokens
              /\ \/ /\ Fenced(call) /\ ~Settled(call)
                    /\ jobs' = [jobs EXCEPT ![call.run] = call.job]
                    /\ IF call.job.status = "RUNNING"
                       THEN /\ executing' = executing \cup {<<a, call.run>>}
                            /\ starts' = [starts EXCEPT ![call.run] = @ + 1]
                       ELSE UNCHANGED <<executing, starts>>
                 \/ UNCHANGED <<jobs, executing, starts>>
BY JobCallKind DEF JobInv, WritesSound, WriteHolds, JobWrite

LEMMA WriteKeeps ==
    ASSUME JobInv, NEW a \in Actor, JobWrite(a)
    PROVE  JobInv'
<1> DEFINE call == jobCalls[a]
           r == call.run
           job == call.job
<1>1. /\ call \in JobWriting /\ r \in Created /\ r \in Run /\ tokens' = tokens
      /\ jobCalls' = [jobCalls EXCEPT ![a] = JobIdle]
      /\ call.step = "write"
  BY WriteSplits DEF Created, JobWrite
<1>2. /\ jobCalls' \in [Actor -> JobClaiming \cup JobWriting \cup {JobIdle}]
      /\ jobCalls'[a].step = "idle"
      /\ \A b \in Actor : b # a => jobCalls'[b] = jobCalls[b]
  BY <1>1 DEF JobInv, JobTypeOK, JobIdle
<1>3. CASE UNCHANGED <<jobs, executing, starts>>
  BY <1>1, <1>2, <1>3, ReadKeeps, executing' = executing \ {}
<1>4. CASE /\ Fenced(call) /\ ~Settled(call) /\ jobs' = [jobs EXCEPT ![r] = job]
           /\ IF job.status = "RUNNING"
              THEN /\ executing' = executing \cup {<<a, r>>}
                   /\ starts' = [starts EXCEPT ![r] = @ + 1]
              ELSE UNCHANGED <<executing, starts>>
  <2>1. /\ jobs[r] \in Job /\ job \in Job
        /\ jobs[r].status \in JobTerminal => job.status = jobs[r].status
        /\ \/ /\ job.token = jobs[r].token /\ job.holder = jobs[r].holder
              /\ jobs[r].status \in Before[job.status] \cup JobTerminal
           \/ job.status = "CANCELLED" /\ job.token = 0 /\ job.holder = Nobody
    BY <1>1, <1>4, WriteMoves
  <2>2. jobs'[r] = job /\ \A q \in Run : q # r => jobs'[q] = jobs[q]
    BY <1>1, <1>4 DEF JobInv, JobTypeOK
  <2>3. Created' = Created
    BY <1>1, <2>1, <2>2, \A j \in Job : j # NoJob DEF Created, Job, NoJob
  <2>4. WriteHolds(a) /\ WriteFollows(a)
    BY <1>1 DEF JobInv, WritesSound
  <2>5. /\ job.status = "RUNNING" =>
              a \in Worker /\ job.holder = a /\ jobs[r].status \notin JobTerminal
        /\ job.status # "SCHEDULED"
        /\ job.token = 0 => job.status = "CANCELLED"
    BY <2>1, <2>4, JobActors DEF WriteHolds, JobTerminal
  <2>6. JobTypeOK'
    BY <1>1, <1>2, <1>4, <2>1, <2>5 DEF JobInv, JobTypeOK
  <2>7. TokensSound'
    <3>1. \A q \in Created : jobs[q] \in Job /\ q \in Run
      BY CreatedJob DEF JobInv, Created
    <3> HIDE DEF r, job
    <3> QED
      BY <1>1, <2>1, <2>2, <2>3, <2>5, <3>1 DEF JobInv, JobTypeOK, TokensSound, Job
  <2>8. \A v \in Worker : <<v, r>> \in executing =>
            \/ job.status = "CANCELLED"
            \/ job.holder = v /\ job.status \in {"RUNNING", "CANCEL_REQUESTED"}
    <3> SUFFICES ASSUME NEW v \in Worker, <<v, r>> \in executing, job.status # "CANCELLED"
                 PROVE  job.holder = v /\ job.status \in {"RUNNING", "CANCEL_REQUESTED"}
      OBVIOUS
    <3>1. jobs[r].status # "CANCELLED"
      BY <2>1 DEF JobTerminal
    <3>2. jobs[r].holder = v
      BY <1>1, <3>1 DEF JobInv, ExecutingSound
    <3>3. job.holder = v
      BY <2>1, <3>2
    <3>4. a \notin Worker
      BY <2>4, <3>3 DEF WriteHolds
    <3> QED
      BY <2>4, <3>3, <3>4, JobActors DEF WriteHolds
  <2>9. ExecutingSound'
    <3> SUFFICES ASSUME NEW v \in Worker, NEW q \in Run, <<v, q>> \in executing'
                 PROVE  /\ q \in Created
                        /\ \/ jobs'[q].status = "CANCELLED"
                           \/ jobs'[q].holder = v /\ jobs'[q].status \in {"RUNNING", "CANCEL_REQUESTED"}
      BY <2>3 DEF ExecutingSound
    <3>1. CASE <<v, q>> \in executing
      BY <2>2, <2>8, <3>1 DEF JobInv, ExecutingSound
    <3>2. CASE <<v, q>> \notin executing
      BY <1>1, <1>4, <2>2, <2>5, <3>2
    <3> QED
      BY <3>1, <3>2
  <2>10. JobExclusive'
    BY <1>4, <2>5, <2>8 DEF JobInv, JobExclusive
  <2>11. WritesSound'
    <3> SUFFICES ASSUME NEW b \in Actor, jobCalls'[b].step = "write"
                 PROVE  (WriteHolds(b) /\ WriteFollows(b))'
      BY DEF WritesSound
    <3>1. b # a /\ jobCalls'[b] = jobCalls[b] /\ WriteHolds(b) /\ WriteFollows(b)
      BY <1>2 DEF JobInv, WritesSound
    <3>2. WriteHolds(b)'
      BY <1>1, <1>4, <2>3, <3>1 DEF WriteHolds
    <3>3. WriteFollows(b)'
      <4> DEFINE late == jobCalls[b]
      <4>1. CASE late.run # r
        BY <2>2, <3>1, <4>1 DEF WriteFollows, WriteHolds, Created
      <4>2. CASE late.run = r /\ job.token # late.expected
        BY <2>2, <3>1, <4>2 DEF WriteFollows
      <4>3. CASE late.run = r /\ job.token = late.expected
        <5>1. CASE job.status = "CANCELLED" /\ job.token = 0 /\ job.holder = Nobody
          BY <2>2, <3>1, <4>3, <5>1 DEF WriteFollows, WriteHolds, JobTerminal
        <5>2. CASE /\ job.token = jobs[r].token /\ job.holder = jobs[r].holder
                   /\ jobs[r].status \in Before[job.status] \cup JobTerminal
          <6>1. /\ jobs[r].holder = late.job.holder
                /\ jobs[r].status \in Before[late.job.status] \cup JobTerminal
            BY <3>1, <4>3, <5>2 DEF WriteFollows
          <6>2. a \in Canceller \/ b \in Canceller
            BY <2>4, <3>1, <5>2, <6>1, JobActors DEF WriteHolds
          <6>3. job.status \in Before[late.job.status] \cup JobTerminal
            BY <2>1, <2>4, <3>1, <5>2, <6>1, <6>2, JobActors
            DEF WriteHolds, Before, JobStatus, JobTerminal
          <6> QED
            BY <2>2, <3>1, <4>3, <5>2, <6>1, <6>3 DEF WriteFollows
        <5> QED
          BY <2>1, <5>1, <5>2
      <4> QED
        BY <4>1, <4>2, <4>3
    <3> QED
      BY <3>2, <3>3
  <2> QED
    BY <2>6, <2>7, <2>9, <2>10, <2>11 DEF JobInv
<1> QED
  BY <1>3, <1>4, WriteSplits

-----------------------------------------------------------------------------
LEMMA JobStepKeeps == JobInv /\ [JobNext]_jobVars => JobInv'
<1> SUFFICES ASSUME JobInv, [JobNext]_jobVars PROVE JobInv'
  OBVIOUS
<1>1. ASSUME NEW r \in Run, NEW k \in ExecutionKey, ScheduleRun(r, k) PROVE JobInv'
  BY <1>1, ScheduleKeeps
<1>2. ASSUME NEW w \in Worker, NEW r \in Run, FindDue(w, r) PROVE JobInv'
  <2>1. /\ jobCalls' \in [Actor -> JobClaiming \cup JobWriting \cup {JobIdle}]
        /\ jobCalls'[w].step = "claim"
        /\ \A b \in Actor : b # w => jobCalls'[b] = jobCalls[b]
    BY <1>2, JobActors DEF FindDue, JobInv, JobTypeOK, JobClaiming
  <2> QED
    BY <1>2, <2>1, JobActors, ReadKeeps, executing' = executing \ {} DEF FindDue
<1>3. ASSUME NEW w \in Worker, NEW r \in Run, Retry(w, r) PROVE JobInv'
  BY <1>3, ClaimKeeps DEF Retry
<1>4. ASSUME NEW w \in Worker, NEW r \in Run, StartRead(w, r) PROVE JobInv'
  BY <1>4, StartReadKeeps
<1>5. ASSUME NEW w \in Worker, NEW r \in Run, NEW outcome \in JobStatus, ReportRead(w, r, outcome)
      PROVE  JobInv'
  BY <1>5, ReportReadKeeps
<1>6. ASSUME NEW x \in Canceller, NEW r \in Run, CancelRead(x, r) PROVE JobInv'
  BY <1>6, CancelReadKeeps
<1>7. ASSUME NEW w \in Worker, ClaimDue(w) PROVE JobInv'
  <2>1. jobCalls[w].run \in Run /\ w \in Actor
    BY <1>7, JobCallKind, JobActors DEF ClaimDue, JobInv, JobClaiming
  <2>2. CASE jobs[jobCalls[w].run].status = "SCHEDULED"
    BY <1>7, <2>1, <2>2, ClaimKeeps DEF ClaimDue
  <2>3. CASE jobs[jobCalls[w].run].status # "SCHEDULED"
    <3>1. /\ jobCalls' \in [Actor -> JobClaiming \cup JobWriting \cup {JobIdle}]
          /\ jobCalls'[w].step # "write"
          /\ \A b \in Actor : b # w => jobCalls'[b] = jobCalls[b]
      BY <1>7, <2>1 DEF ClaimDue, JobInv, JobTypeOK, JobIdle
    <3> QED
      BY <1>7, <2>1, <2>3, <3>1, ReadKeeps, executing' = executing \ {} DEF ClaimDue
  <2> QED
    BY <2>2, <2>3
<1>8. ASSUME NEW a \in Actor, JobWrite(a) PROVE JobInv'
  BY <1>8, WriteKeeps
<1>9. CASE UNCHANGED jobVars
  BY <1>9 DEF jobVars, JobInv, JobTypeOK, TokensSound, ExecutingSound, WritesSound, WriteHolds,
    WriteFollows, JobExclusive, Created
<1> QED
  BY <1>1, <1>2, <1>3, <1>4, <1>5, <1>6, <1>7, <1>8, <1>9 DEF JobNext

\* Type correctness and the invariant of the reads and writes.
THEOREM JobInvariant == JobSpec => []JobInv
BY JobInitInv, JobStepKeeps, PTL DEF JobSpec

\* Two workers never execute a run at the same time, for any number of workers and
\* cancellers and any interleaving of their reads and writes.
THEOREM JobExclusiveHolds == JobSpec => [](JobTypeOK /\ JobExclusive)
<1>1. JobInv => JobTypeOK /\ JobExclusive
  BY DEF JobInv
<1> QED
  BY <1>1, JobInvariant, PTL

-----------------------------------------------------------------------------
(* The moves of the status and of the token.                               *)

LEMMA ClaimMoves ==
    ASSUME JobInv, NEW w \in Worker, NEW r \in Run, jobs[r].status \in {"SCHEDULED", "RETRY_WAIT"},
           Claim(w, r), NEW q \in Created
    PROVE  RunMoves(q)
<1>1. q # r => jobs'[q] = jobs[q]
  BY DEF Claim, JobInv, JobTypeOK, Created
<1>2. q = r => jobs'[q].status = "CLAIMED" /\ jobs'[q].token = tokens + 1
  BY CreatedJob DEF Claim, JobInv, JobTypeOK, Created, Job
<1>3. tokens + 1 > tokens
  BY DEF JobInv, JobTypeOK
<1> QED
  BY <1>1, <1>2, <1>3 DEF RunMoves, JobTable, JobTerminal

LEMMA WriteFollowsTable ==
    ASSUME JobInv, NEW a \in Actor, JobWrite(a), NEW q \in Created
    PROVE  RunMoves(q)
<1> DEFINE call == jobCalls[a]
           r == call.run
           job == call.job
<1>1. CASE jobs'[q] = jobs[q]
  BY <1>1 DEF RunMoves
<1>2. CASE jobs'[q] # jobs[q]
  <2>1. q = r /\ jobs'[q] = job /\ Fenced(call) /\ ~Settled(call) /\ call.step = "write"
    BY <1>2, WriteSplits DEF JobInv, JobTypeOK, Created, JobWrite
  <2>2. /\ jobs[r].status \in JobTerminal => job.status = jobs[r].status
        /\ \/ /\ job.token = jobs[r].token
              /\ jobs[r].status \in Before[job.status] \cup JobTerminal
           \/ job.status = "CANCELLED" /\ job.token = 0
        /\ jobs[r].status \in JobStatus /\ WriteHolds(a)
    BY <2>1, WriteMoves DEF Job, JobInv, WritesSound
  <2>3. job.status # jobs[r].status => <<jobs[r].status, job.status>> \in JobTable \cup JobRaces
    BY <2>2 DEF WriteHolds, Before, JobTable, JobRaces, JobStatus, JobTerminal
  <2> QED
    BY <2>1, <2>2, <2>3 DEF RunMoves
<1> QED
  BY <1>1, <1>2

\* The status follows the table but for the races, terminal statuses stay, and a
\* superseded token does not come back, whatever reads and writes interleave.
THEOREM JobMovesAlongTableHolds == JobSpec => JobMovesAlongTable
<1>1. ASSUME JobInv, [JobNext]_jobVars, NEW q \in Created PROVE RunMoves(q)
  <2>1. CASE jobs' = jobs
    BY <2>1 DEF RunMoves
  <2>2. ASSUME NEW r \in Run, NEW k \in ExecutionKey, ScheduleRun(r, k) PROVE RunMoves(q)
    BY <1>1, <2>2 DEF ScheduleRun, Created, RunMoves, JobInv, JobTypeOK
  <2>3. ASSUME NEW w \in Worker, NEW r \in Run, Retry(w, r) PROVE RunMoves(q)
    BY <1>1, <2>3, ClaimMoves DEF Retry
  <2>4. ASSUME NEW w \in Worker, ClaimDue(w), jobs' # jobs PROVE RunMoves(q)
    <3>1. jobCalls[w].run \in Run
      BY <1>1, <2>4, JobCallKind, JobActors DEF ClaimDue, JobInv, JobClaiming
    <3> QED
      BY <1>1, <2>4, <3>1, ClaimMoves DEF ClaimDue
  <2>5. ASSUME NEW a \in Actor, JobWrite(a) PROVE RunMoves(q)
    BY <1>1, <2>5, WriteFollowsTable
  <2> QED
    BY <1>1, <2>1, <2>2, <2>3, <2>4, <2>5
    DEF JobNext, jobVars, FindDue, StartRead, ReportRead, CancelRead
<1>2. JobInv /\ [JobNext]_jobVars => [\A r \in Created : RunMoves(r)]_jobVars
  BY <1>1
<1> QED
  BY <1>2, JobInvariant, PTL DEF JobSpec, JobMovesAlongTable

-----------------------------------------------------------------------------
(* The bound on the starts.                                                *)

\* A run that may be started again has been started no more often than it failed, and
\* one that runs once more; it failed less than MaxAttempts times.
StartsCount(r) ==
    /\ starts[r] <= MaxAttempts
    /\ jobs[r].status = "SCHEDULED" => starts[r] = 0 /\ jobs[r].attempts = 0
    /\ jobs[r].status \in {"CLAIMED", "RETRY_WAIT"} =>
           starts[r] <= jobs[r].attempts /\ jobs[r].attempts < MaxAttempts
    /\ jobs[r].status = "RUNNING" =>
           starts[r] <= jobs[r].attempts + 1 /\ jobs[r].attempts < MaxAttempts

\* So has, while its token is the run's, what a worker is about to write.
WriteCounts(a) ==
    LET call == jobCalls[a]
        r == call.run
    IN jobs[r].token = call.expected /\ jobs[r].status \notin JobTerminal =>
        /\ call.job.status = "RUNNING" => call.job.attempts = jobs[r].attempts
        /\ call.job.status = "RETRY_WAIT" =>
               starts[r] <= call.job.attempts /\ call.job.attempts < MaxAttempts

StartsInv ==
    /\ \A r \in Created : StartsCount(r)
    /\ \A r \in Run \ Created : starts[r] = 0
    /\ \A a \in Actor : jobCalls[a].step = "write" => WriteCounts(a)

LEMMA StartsInit == JobInit => StartsInv
BY DEF JobInit, StartsInv, Created, NoJob, JobIdle

\* Steps that leave the runs alone prepare a write at most.
LEMMA StartsRead ==
    ASSUME JobInv, StartsInv, NEW a \in Actor, UNCHANGED <<jobs, starts>>,
           \A b \in Actor : b # a => jobCalls'[b] = jobCalls[b],
           \/ jobCalls'[a] = jobCalls[a]
           \/ jobCalls'[a].step # "write"
           \/ WriteCounts(a)'
    PROVE  StartsInv'
<1>1. Created' = Created
  BY DEF Created
<1>2. ASSUME NEW b \in Actor, jobCalls'[b].step = "write" PROVE WriteCounts(b)'
  <2>1. CASE jobCalls'[b] = jobCalls[b]
    BY <1>2, <2>1 DEF StartsInv, WriteCounts
  <2> QED
    BY <1>2, <2>1
<1> QED
  BY <1>1, <1>2 DEF StartsInv, StartsCount

LEMMA StartsStartRead ==
    ASSUME JobInv, StartsInv, NEW w \in Worker, NEW r \in Run, StartRead(w, r)
    PROVE  StartsInv'
<1>1. w \in Actor /\ r \in Created /\ jobs[r] \in Job /\ UNCHANGED <<jobs, starts>>
  BY CreatedJob, JobActors DEF StartRead, JobInv
<1> DEFINE job == [jobs[r] EXCEPT !.status = "RUNNING", !.attempts = jobs[r].attempts]
<1>2. job \in Job /\ job.status = "RUNNING" /\ job.attempts = jobs[r].attempts
  BY <1>1 DEF Job, JobStatus
<1>3. jobCalls' = [jobCalls EXCEPT ![w] =
          [step |-> "write", run |-> r, expected |-> jobs[r].token, job |-> job]]
  BY DEF StartRead, Prepare
<1> HIDE DEF job
<1>4. /\ \A b \in Actor : b # w => jobCalls'[b] = jobCalls[b]
      /\ jobCalls'[w].run = r /\ jobCalls'[w].job = job
  BY <1>1, <1>2, <1>3, Prepared
<1>5. WriteCounts(w)'
  BY <1>1, <1>2, <1>4 DEF WriteCounts
<1> QED
  BY <1>1, <1>4, <1>5, StartsRead

LEMMA StartsReportRead ==
    ASSUME JobInv, StartsInv, NEW w \in Worker, NEW r \in Run, NEW outcome \in JobStatus,
           ReportRead(w, r, outcome)
    PROVE  StartsInv'
<1>1. /\ w \in Actor /\ r \in Created /\ jobs[r] \in Job /\ UNCHANGED <<jobs, starts>>
      /\ starts[r] \in Nat /\ jobs[r].attempts \in Nat /\ MaxAttempts \in Nat
  BY CreatedJob, JobActors, JobConstants DEF ReportRead, JobInv, JobTypeOK, Job, Created
<1>2. CASE UNCHANGED jobCalls
  BY <1>1, <1>2, StartsRead
<1>3. CASE MayReport(w, r) /\ JobMay(r, outcome)
  <2> DEFINE n == jobs[r].attempts + IF outcome = "SUCCEEDED" THEN 0 ELSE 1
             job == [jobs[r] EXCEPT !.status = outcome, !.attempts = n]
  <2>1. job \in Job /\ job.status = outcome /\ job.attempts = n
    <3>1. n \in Nat
      BY <1>1
    <3> QED
      BY <1>1, <3>1 DEF Job
  <2>2. jobCalls' = [jobCalls EXCEPT ![w] =
            [step |-> "write", run |-> r, expected |-> jobs[r].token, job |-> job]]
    BY <1>3 DEF ReportRead, Prepare
  <2>3. outcome = "RETRY_WAIT" => starts[r] <= n /\ n < MaxAttempts
    <3> SUFFICES ASSUME outcome = "RETRY_WAIT" PROVE starts[r] <= n /\ n < MaxAttempts
      OBVIOUS
    <3>1. ~(jobs[r].attempts + 1 >= MaxAttempts)
      BY DEF ReportRead, Outcomes, AfterFailure
    <3>2. jobs[r].status \in {"CLAIMED", "RUNNING"}
      BY <1>3 DEF JobMay, JobTable
    <3>3. starts[r] <= jobs[r].attempts + 1
      BY <1>1, <3>2 DEF StartsInv, StartsCount
    <3> QED
      BY <1>1, <3>1, <3>3
  <2>4. outcome # "RUNNING"
    BY DEF ReportRead, Outcomes, AfterFailure
  <2> HIDE DEF job, n
  <2>5. /\ \A b \in Actor : b # w => jobCalls'[b] = jobCalls[b]
        /\ jobCalls'[w].run = r /\ jobCalls'[w].job = job
    BY <1>1, <2>1, <2>2, Prepared
  <2>6. WriteCounts(w)'
    BY <1>1, <2>1, <2>3, <2>4, <2>5 DEF WriteCounts
  <2> QED
    BY <1>1, <2>5, <2>6, StartsRead
<1> QED
  BY <1>2, <1>3 DEF ReportRead

LEMMA StartsCancelRead ==
    ASSUME JobInv, StartsInv, NEW x \in Canceller, NEW r \in Run, CancelRead(x, r)
    PROVE  StartsInv'
<1>1. x \in Actor /\ jobs' = jobs /\ starts' = starts
  BY JobActors DEF CancelRead
<1>2. \A b \in Actor : b # x => jobCalls'[b] = jobCalls[b]
  BY DEF CancelRead, Prepare, JobInv, JobTypeOK
<1>3. CASE jobCalls'[x].step = "write"
  <2>1. JobInv'
    BY CancelReadKeeps
  <2>2. (WriteHolds(x))'
    BY <1>1, <1>3, <2>1 DEF JobInv, WritesSound
  <2>3. WriteCounts(x)'
    BY <1>1, <2>2 DEF WriteHolds, WriteCounts
  <2> QED
    BY <1>1, <1>2, <2>3, StartsRead
<1> QED
  BY <1>1, <1>2, <1>3, StartsRead

LEMMA StartsClaim ==
    ASSUME JobInv, StartsInv, NEW w \in Worker, NEW r \in Run,
           jobs[r].status \in {"SCHEDULED", "RETRY_WAIT"},
           Claim(w, r), UNCHANGED starts,
           jobCalls' = jobCalls \/ jobCalls' = [jobCalls EXCEPT ![w] = JobIdle]
    PROVE  StartsInv'
<1>1. r \in Created /\ jobs[r] \in Job /\ tokens \in Nat /\ MaxAttempts \in Nat \ {0}
  BY NotCreated, CreatedJob, JobConstants DEF JobInv, JobStatus, JobTypeOK
<1>2. /\ jobs'[r].status = "CLAIMED" /\ jobs'[r].token = tokens + 1
      /\ jobs'[r].attempts = jobs[r].attempts
      /\ \A q \in Run : q # r => jobs'[q] = jobs[q]
  BY <1>1 DEF JobInv, JobTypeOK, Claim, Job
<1>3. Created' = Created
  BY <1>1, <1>2 DEF Created, NoJob
<1>4. StartsCount(r)'
  BY <1>1, <1>2 DEF StartsInv, StartsCount, Job
<1>5. \A q \in Created : StartsCount(q)'
  BY <1>2, <1>4 DEF StartsInv, StartsCount, Created
<1>6. ASSUME NEW a \in Actor, jobCalls'[a].step = "write" PROVE WriteCounts(a)'
  <2>1. jobCalls'[a] = jobCalls[a]
    BY <1>6, JobActors DEF JobInv, JobTypeOK, JobIdle
  <2>2. /\ jobCalls[a] \in JobWriting /\ WriteHolds(a) /\ WriteCounts(a)
        /\ jobCalls[a].expected \in Nat /\ jobCalls[a].run \in Run
    BY <1>6, <2>1, JobCallKind DEF JobInv, WritesSound, JobWriting, StartsInv
  <2>3. tokens + 1 # jobCalls[a].expected
    BY <1>1, <2>2 DEF WriteHolds
  <2> QED
    BY <1>2, <2>1, <2>2, <2>3 DEF WriteCounts
<1> QED
  BY <1>3, <1>5, <1>6 DEF StartsInv

LEMMA StartsWrite ==
    ASSUME JobInv, StartsInv, NEW a \in Actor, JobWrite(a)
    PROVE  StartsInv'
<1> DEFINE call == jobCalls[a]
           job == call.job
<1>0. PICK r : r = call.run
  OBVIOUS
<1>1. /\ call \in JobWriting /\ r = call.run /\ r \in Created /\ r \in Run
      /\ jobCalls' = [jobCalls EXCEPT ![a] = JobIdle]
      /\ call.step = "write"
  BY <1>0, WriteSplits DEF Created, JobWrite
<1>2. /\ jobCalls'[a].step = "idle"
      /\ \A b \in Actor : b # a => jobCalls'[b] = jobCalls[b]
  BY <1>1 DEF JobInv, JobTypeOK, JobIdle
<1>3. CASE UNCHANGED <<jobs, executing, starts>>
  BY <1>1, <1>2, <1>3, StartsRead
<1>4. CASE /\ Fenced(call) /\ ~Settled(call) /\ jobs' = [jobs EXCEPT ![r] = job]
           /\ IF job.status = "RUNNING"
              THEN /\ executing' = executing \cup {<<a, r>>}
                   /\ starts' = [starts EXCEPT ![r] = @ + 1]
              ELSE UNCHANGED <<executing, starts>>
  <2>1. /\ jobs[r] \in Job /\ job \in Job
        /\ jobs[r].status \in JobTerminal => job.status = jobs[r].status
        /\ \/ /\ job.token = jobs[r].token /\ job.holder = jobs[r].holder
              /\ jobs[r].status \in Before[job.status] \cup JobTerminal
           \/ job.status = "CANCELLED" /\ job.token = 0 /\ job.holder = Nobody
    BY <1>1, <1>4, WriteMoves
  <2>2. jobs'[r] = job /\ \A q \in Run : q # r => jobs'[q] = jobs[q]
    BY <1>1, <1>4 DEF JobInv, JobTypeOK
  <2>3. Created' = Created
    BY <1>1, <2>1, <2>2 DEF Created, Job, NoJob
  <2>4. WriteHolds(a) /\ WriteFollows(a) /\ WriteCounts(a)
    BY <1>1 DEF JobInv, WritesSound, StartsInv
  <2>5. /\ starts[r] \in Nat /\ job.attempts \in Nat /\ jobs[r].attempts \in Nat
        /\ MaxAttempts \in Nat /\ starts[r] <= MaxAttempts
    BY <1>1, <2>1, JobConstants DEF JobInv, JobTypeOK, Job, StartsInv, StartsCount
  <2>6. \A q \in Run : q # r => starts'[q] = starts[q]
    BY <1>1, <1>4 DEF JobInv, JobTypeOK
  <2>7. CASE job.status = "RUNNING"
    <3>1. /\ jobs[r].status = "CLAIMED" /\ job.attempts = jobs[r].attempts /\ job.holder = a
          /\ a \in Worker
      BY <1>1, <2>1, <2>4, <2>7, JobActors
      DEF Before, JobStatus, JobTerminal, WriteHolds, WriteCounts
    <3>2. starts'[r] = starts[r] + 1 /\ starts[r] <= job.attempts /\ job.attempts < MaxAttempts
      BY <1>1, <1>4, <2>7, <3>1 DEF JobInv, JobTypeOK, StartsInv, StartsCount
    <3>3. StartsCount(r)'
      BY <2>2, <2>5, <2>7, <3>2 DEF StartsCount
    <3>4. ASSUME NEW b \in Actor, jobCalls'[b].step = "write" PROVE WriteCounts(b)'
      <4>1. b # a /\ jobCalls'[b] = jobCalls[b] /\ WriteHolds(b) /\ WriteFollows(b) /\ WriteCounts(b)
        BY <1>2, <3>4 DEF JobInv, WritesSound, StartsInv
      <4>2. CASE jobCalls[b].run # r
        BY <2>2, <2>6, <4>1, <4>2 DEF WriteCounts, WriteHolds, Created
      <4>3. CASE jobCalls[b].run = r /\ job.token # jobCalls[b].expected
        BY <2>2, <4>1, <4>3 DEF WriteCounts
      <4>4. CASE jobCalls[b].run = r /\ job.token = jobCalls[b].expected
        <5>1. jobs[r].holder = jobCalls[b].job.holder
          BY <2>1, <2>7, <4>1, <4>4 DEF WriteFollows
        <5>2. b \notin Worker
          BY <2>1, <2>7, <3>1, <4>1, <5>1 DEF WriteHolds
        <5> QED
          BY <4>1, <5>2, JobActors DEF WriteCounts, WriteHolds
      <4> QED
        BY <4>2, <4>3, <4>4
    <3> QED
      BY <1>1, <2>2, <2>3, <2>6, <3>3, <3>4 DEF StartsInv, StartsCount, Created
  <2>8. CASE job.status # "RUNNING"
    <3>1. starts' = starts
      BY <1>4, <2>8
    <3>2. StartsCount(r)'
      BY <1>1, <2>1, <2>2, <2>4, <2>5, <2>8, <3>1, JobActors
      DEF StartsCount, WriteHolds, WriteCounts, JobTerminal
    <3>3. ASSUME NEW b \in Actor, jobCalls'[b].step = "write" PROVE WriteCounts(b)'
      <4>1. b # a /\ jobCalls'[b] = jobCalls[b] /\ WriteHolds(b) /\ WriteFollows(b) /\ WriteCounts(b)
        BY <1>2, <3>3 DEF JobInv, WritesSound, StartsInv
      <4>2. CASE jobCalls[b].run # r
        BY <2>2, <3>1, <4>1, <4>2 DEF WriteCounts, WriteHolds, Created
      <4>3. CASE jobCalls[b].run = r /\ (job.token # jobCalls[b].expected \/ job.status \in JobTerminal)
        BY <2>2, <4>1, <4>3 DEF WriteCounts
      <4>4. CASE /\ jobCalls[b].run = r /\ job.token = jobCalls[b].expected
                 /\ job.status \notin JobTerminal
        <5>1. /\ job.token = jobs[r].token /\ jobs[r].status \notin JobTerminal
              /\ jobs[r].holder = jobCalls[b].job.holder
              /\ jobs[r].status \in Before[job.status]
              /\ jobs[r].status \in Before[jobCalls[b].job.status]
          BY <2>1, <4>1, <4>4 DEF WriteFollows, JobTerminal
        <5>2. CASE a \in Worker
          <6>1. b \notin Worker
            BY <2>1, <2>4, <4>1, <4>4, <5>1, <5>2 DEF WriteHolds, JobTerminal
          <6> QED
            BY <4>1, <6>1, JobActors DEF WriteCounts, WriteHolds
        <5>3. CASE a \notin Worker
          <6>1. job.status = "CANCEL_REQUESTED"
            BY <2>4, <4>4, <5>3, JobActors DEF WriteHolds, JobTerminal
          <6>2. jobCalls[b].job.status # "RUNNING"
            BY <5>1, <6>1 DEF Before, JobStatus
          <6> QED
            BY <2>2, <3>1, <4>1, <4>4, <5>1, <6>2 DEF WriteCounts
        <5> QED
          BY <5>2, <5>3
      <4> QED
        BY <4>2, <4>3, <4>4
    <3> QED
      BY <1>1, <2>2, <2>3, <3>1, <3>2, <3>3 DEF StartsInv, StartsCount, Created
  <2> QED
    BY <2>7, <2>8
<1> QED
  BY <1>1, <1>3, <1>4, WriteSplits

LEMMA StartsStep == JobInv /\ StartsInv /\ [JobNext]_jobVars => StartsInv'
<1> SUFFICES ASSUME JobInv, StartsInv, [JobNext]_jobVars PROVE StartsInv'
  OBVIOUS
<1>1. ASSUME NEW r \in Run, NEW k \in ExecutionKey, ScheduleRun(r, k) PROVE StartsInv'
  <2>1. /\ jobs'[r].status = "SCHEDULED" /\ jobs'[r].attempts = 0 /\ r \notin Created
        /\ \A q \in Run : q # r => jobs'[q] = jobs[q]
        /\ UNCHANGED <<starts, jobCalls>>
    BY <1>1 DEF ScheduleRun, JobInv, JobTypeOK, Created
  <2>2. Created' = Created \cup {r}
    BY <2>1 DEF Created, NoJob
  <2>3. starts[r] = 0
    BY <2>1 DEF StartsInv
  <2>4. ASSUME NEW a \in Actor, jobCalls[a].step = "write" PROVE WriteCounts(a)'
    <3>1. WriteCounts(a) /\ WriteHolds(a)
      BY <2>4 DEF StartsInv, JobInv, WritesSound
    <3> QED
      BY <2>1, <3>1 DEF WriteCounts, WriteHolds, Created
  <2> QED
    BY <2>1, <2>2, <2>3, <2>4, JobConstants DEF StartsInv, StartsCount, Created
<1>2. ASSUME NEW w \in Worker, NEW r \in Run, FindDue(w, r) PROVE StartsInv'
  <2>1. /\ jobCalls'[w].step = "claim"
        /\ \A b \in Actor : b # w => jobCalls'[b] = jobCalls[b]
    BY <1>2, JobActors DEF FindDue, JobInv, JobTypeOK
  <2> QED
    BY <1>2, <2>1, JobActors, StartsRead DEF FindDue
<1>3. ASSUME NEW w \in Worker, NEW r \in Run, Retry(w, r) PROVE StartsInv'
  BY <1>3, StartsClaim DEF Retry
<1>4. ASSUME NEW w \in Worker, NEW r \in Run, StartRead(w, r) PROVE StartsInv'
  BY <1>4, StartsStartRead
<1>5. ASSUME NEW w \in Worker, NEW r \in Run, NEW outcome \in JobStatus, ReportRead(w, r, outcome)
      PROVE  StartsInv'
  BY <1>5, StartsReportRead
<1>6. ASSUME NEW x \in Canceller, NEW r \in Run, CancelRead(x, r) PROVE StartsInv'
  BY <1>6, StartsCancelRead
<1>7. ASSUME NEW w \in Worker, ClaimDue(w) PROVE StartsInv'
  <2>1. jobCalls[w].run \in Run /\ w \in Actor
    BY <1>7, JobCallKind, JobActors DEF ClaimDue, JobInv, JobClaiming
  <2>2. CASE jobs[jobCalls[w].run].status = "SCHEDULED"
    BY <1>7, <2>1, <2>2, StartsClaim DEF ClaimDue
  <2>3. CASE jobs[jobCalls[w].run].status # "SCHEDULED"
    <3>1. /\ jobCalls'[w].step # "write"
          /\ \A b \in Actor : b # w => jobCalls'[b] = jobCalls[b]
      BY <1>7, <2>1 DEF ClaimDue, JobInv, JobTypeOK, JobIdle
    <3> QED
      BY <1>7, <2>1, <2>3, <3>1, StartsRead DEF ClaimDue
  <2> QED
    BY <2>2, <2>3
<1>8. ASSUME NEW a \in Actor, JobWrite(a) PROVE StartsInv'
  BY <1>8, StartsWrite
<1>9. CASE UNCHANGED jobVars
  BY <1>9 DEF jobVars, StartsInv, StartsCount, WriteCounts, Created
<1> QED
  BY <1>1, <1>2, <1>3, <1>4, <1>5, <1>6, <1>7, <1>8, <1>9 DEF JobNext

\* A run is started MaxAttempts times at most, for any bound and any interleaving.
THEOREM JobStartsBoundedHolds == JobSpec => []JobStartsBounded
<1>1. StartsInv => JobStartsBounded
  BY JobConstants DEF StartsInv, StartsCount, JobStartsBounded, Created
<1> QED
  BY <1>1, StartsInit, StartsStep, JobInvariant, PTL DEF JobSpec

(***************************************************************************)
(* ObjectStore, SchemaMigration and RequestLimits.                         *)
(***************************************************************************)

\* A reference that was returned names a complete file.  It is inductive with the
\* types: a file is created only where none is, and nothing leaves "complete".
THEOREM ObjectStoredHolds == ObjectSpec => [](ObjectTypeOK /\ ObjectStored)
<1> DEFINE Inv == ObjectTypeOK /\ ObjectStored
<1>1. ObjectInit => Inv
  BY DEF ObjectInit, ObjectTypeOK, ObjectStored
<1>2. Inv /\ [ObjectNext]_objectVars => Inv'
  <2> SUFFICES ASSUME Inv, [ObjectNext]_objectVars PROVE Inv'
    OBVIOUS
  <2> USE DEF ObjectTypeOK, ObjectStored
  <2>1. CASE UNCHANGED objectVars
    BY <2>1 DEF objectVars
  <2>2. ASSUME NEW p \in Storer, StopWriting(p) PROVE Inv'
    BY <2>2 DEF StopWriting
  <2>3. ASSUME NEW p \in Storer, NEW x \in Content, CreateObject(p, x) PROVE Inv'
    BY <2>3 DEF CreateObject
  <2>4. ASSUME NEW p \in Storer, NEW x \in Content, WriteObject(p, x) PROVE Inv'
    BY <2>4 DEF WriteObject
  <2>5. ASSUME NEW p \in Storer, NEW x \in Content, ReuseObject(p, x) PROVE Inv'
    BY <2>5 DEF ReuseObject, ExistingMatches
  <2>6. QED
    BY <2>1, <2>2, <2>3, <2>4, <2>5 DEF ObjectNext
<1>3. QED
  BY <1>1, <1>2, PTL DEF ObjectSpec

-----------------------------------------------------------------------------
\* What makes MigrationsInOrder inductive: only the holder of the lock has work, what
\* it has to do is what is not recorded, the script it ran is the first of that, and
\* a version whose script ran is recorded, being recorded, or was left unrecorded.
Serialised ==
    /\ \A m \in Migrator : todo[m] # {} \/ ran[m] # {} => advisory = m
    /\ \A m \in Migrator : todo[m] # {} => todo[m] = Version \ recorded
    /\ \A m \in Migrator : \A v \in ran[m] : IsNext(m, v) /\ ran[m] = {v}

Accounted ==
    \A v \in Version : runs[v] > 0 =>
        v \in recorded \cup unrecorded \/ \E m \in Migrator : v \in ran[m]

RanCreated == \A m \in Migrator : ran[m] \subseteq created

MigrationInv ==
    MigrationTypeOK /\ Serialised /\ Accounted /\ RanCreated /\ MigrationsInOrder

LEMMA MigrationInitInv == MigrationInit => MigrationInv
BY MigrationConstants DEF MigrationInit, MigrationInv, MigrationTypeOK, Serialised,
   Accounted, RanCreated, MigrationsInOrder, Version

\* Leaving keeps every part: the migrator has nothing to do any more, and what it ran
\* without recording is noted.
LEMMA LeaveKeeps ==
    ASSUME MigrationInv, NEW m \in Migrator, Leave(m), UNCHANGED <<created, recorded, runs>>
    PROVE  MigrationInv'
<1> USE DEF MigrationInv, Leave
<1>1. MigrationTypeOK'
  BY MigrationConstants DEF MigrationTypeOK, Unlock
<1>2. Serialised'
  BY MigrationConstants DEF MigrationTypeOK, Serialised, Unlock, IsNext
<1>3. Accounted'
  BY DEF MigrationTypeOK, Accounted
<1>4. RanCreated'
  BY DEF MigrationTypeOK, RanCreated
<1>5. MigrationsInOrder'
  BY DEF MigrationTypeOK, MigrationsInOrder
<1>6. QED
  BY <1>1, <1>2, <1>3, <1>4, <1>5

LEMMA MigrationStep == MigrationInv /\ [MigrationNext]_migrationVars => MigrationInv'
<1> SUFFICES ASSUME MigrationInv, [MigrationNext]_migrationVars PROVE MigrationInv'
  OBVIOUS
<1>1. CASE UNCHANGED migrationVars
  BY <1>1 DEF migrationVars, MigrationInv, MigrationTypeOK, Serialised, IsNext, Accounted,
     RanCreated, MigrationsInOrder
<1>2. ASSUME NEW m \in Migrator, BeginMigration(m) PROVE MigrationInv'
  <2> USE <1>2 DEF BeginMigration, AdvisoryFree, MigrationInv
  <2>1. MigrationTypeOK'
    BY DEF MigrationTypeOK
  <2>2. \A n \in Migrator : todo[n] = {} /\ ran[n] = {}
    BY MigrationConstants DEF Serialised
  <2>3. Serialised'
    BY <2>2 DEF Serialised, MigrationTypeOK, IsNext
  <2>4. Accounted' /\ RanCreated' /\ MigrationsInOrder'
    BY DEF Accounted, RanCreated, MigrationsInOrder
  <2>5. QED
    BY <2>1, <2>3, <2>4
<1>3. ASSUME NEW m \in Migrator, EndMigration(m) PROVE MigrationInv'
  BY <1>3, LeaveKeeps DEF EndMigration
<1>4. ASSUME NEW m \in Migrator, NEW v \in Version, RunScript(m, v) PROVE MigrationInv'
  <2> USE <1>4 DEF RunScript, MigrationInv
  <2>1. todo[m] = Version \ recorded /\ advisory = m
    BY DEF IsNext, Serialised
  <2>2. \A n \in Migrator : ran[n] = {}
    BY <2>1 DEF Serialised
  <2>3. \A u \in 1..(v - 1) : u \in recorded
    BY <2>1, MigrationConstants DEF IsNext, Version
  <2>4. runs[v] \in Nat /\ runs' \in [Version -> Nat]
    BY DEF MigrationTypeOK
  <2>5. MigrationTypeOK'
    BY <2>4 DEF MigrationTypeOK
  <2>6. Serialised'
    BY <2>1, <2>2 DEF Serialised, MigrationTypeOK, IsNext
  <2>7. Accounted'
    BY <2>2 DEF Accounted, MigrationTypeOK
  <2>8. RanCreated'
    BY DEF RanCreated, MigrationTypeOK
  <2>9. runs[v] > 0 => v \in unrecorded
    BY <2>1, <2>2 DEF Accounted, IsNext
  <2>10. MigrationsInOrder'
    <3>1. \A u \in recorded' : u \in created' /\ \A w \in 1..u : w \in recorded'
      BY DEF MigrationsInOrder
    <3>2. \A u \in created' : \A w \in 1..(u - 1) : w \in recorded'
      BY <2>3 DEF MigrationsInOrder
    <3>3. \A u \in Version : runs'[u] > 1 => u \in unrecorded'
      BY <2>4, <2>9 DEF MigrationsInOrder, MigrationTypeOK
    <3>4. QED
      BY <3>1, <3>2, <3>3 DEF MigrationsInOrder
  <2>11. QED
    BY <2>5, <2>6, <2>7, <2>8, <2>10
<1>5. ASSUME NEW m \in Migrator, NEW v \in Version, RecordVersion(m, v) PROVE MigrationInv'
  <2>1. CASE v \in recorded
    BY <1>5, <2>1, LeaveKeeps DEF RecordVersion
  <2>2. CASE v \notin recorded
    <3> USE <1>5, <2>2 DEF RecordVersion, MigrationInv
    <3>1. IsNext(m, v) /\ ran[m] = {v} /\ advisory = m /\ todo[m] = Version \ recorded
      BY DEF Serialised, IsNext
    <3>2. \A n \in Migrator : n # m => todo[n] = {} /\ ran[n] = {}
      BY <3>1 DEF Serialised
    <3>3. MigrationTypeOK'
      BY DEF MigrationTypeOK
    <3>4. Serialised'
      BY <3>1, <3>2 DEF Serialised, MigrationTypeOK, IsNext
    <3>5. Accounted'
      BY <3>1 DEF Accounted, MigrationTypeOK
    <3>6. RanCreated'
      BY DEF RanCreated, MigrationTypeOK
    <3>7. \A u \in 1..(v - 1) : u \in recorded
      BY <3>1, MigrationConstants DEF IsNext, Version
    <3>8. MigrationsInOrder'
      BY <3>7 DEF MigrationsInOrder, RanCreated, Version
    <3>9. QED
      BY <3>3, <3>4, <3>5, <3>6, <3>8
  <2>3. QED
    BY <2>1, <2>2
<1>6. QED
  BY <1>1, <1>2, <1>3, <1>4, <1>5 DEF MigrationNext

\* However many processes migrate at once, and wherever one stops, the versions are
\* recorded in order and a script runs again only if its migrator stopped before
\* recording it.
THEOREM MigrationsInOrderHolds == MigrationSpec => []MigrationsInOrder
<1>1. MigrationInv => MigrationsInOrder
  BY DEF MigrationInv
<1>2. QED
  BY MigrationInitInv, MigrationStep, <1>1, PTL DEF MigrationSpec

-----------------------------------------------------------------------------
\* The arithmetic of the limits: more time brings more, what the parts of a time bring
\* adds up, and the seconds that are rounded down and one more bring what is missing.
LEMMA MoreTimeBringsMore ==
    ASSUME NEW r \in Nat, NEW s \in Int, NEW t \in Int, s <= t
    PROVE  s * r <= t * r
<1>1. (t - s) * r >= 0
  OBVIOUS
<1>2. (t - s) * r = t * r - s * r
  OBVIOUS
<1>3. s * r \in Int /\ t * r \in Int
  OBVIOUS
<1>4. QED
  BY <1>1, <1>2, <1>3

LEMMA TimesAddUp ==
    ASSUME NEW r \in Int, NEW s \in Int, NEW t \in Int
    PROVE  (s + t) * r = s * r + t * r
OBVIOUS

\* What a stretch of time brings at a rate r.  Two stretches add up.
Span(r, from, to) == (to - from) * r

LEMMA SpansAddUp ==
    ASSUME NEW r \in Int, NEW from \in Int, NEW mid \in Int, NEW to \in Int
    PROVE  Span(r, from, to) = Span(r, from, mid) + Span(r, mid, to)
<1>1. to - from = (mid - from) + (to - mid)
  OBVIOUS
<1>2. ((mid - from) + (to - mid)) * r = (mid - from) * r + (to - mid) * r
  BY TimesAddUp
<1>3. QED
  BY <1>1, <1>2 DEF Span

LEMMA WaitBringsMissing ==
    ASSUME LimitConstants, NEW missing \in Nat
    PROVE  /\ RetryAfterSeconds(missing) \in Nat
           /\ RetryAfterSeconds(missing) * TicksPerSecond * Refill >= missing
<1> DEFINE rate == Refill * TicksPerSecond
           seconds == missing \div rate
<1>1. rate \in Nat /\ rate > 0
  BY DEF LimitConstants
<1>2. seconds \in Nat /\ missing = rate * seconds + (missing % rate) /\ missing % rate < rate
  <2> HIDE DEF rate
  <2>1. QED
    BY <1>1
<1>3. (seconds + 1) * rate >= missing
  <2>1. (seconds + 1) * rate = rate * seconds + rate
    <3> HIDE DEF rate, seconds
    <3>1. QED
      BY <1>1, <1>2
  <2>2. rate * seconds \in Nat /\ missing % rate \in Nat
    <3> HIDE DEF rate
    <3>1. QED
      BY <1>1, <1>2
  <2>3. QED
    <3> HIDE DEF rate, seconds
    <3>1. QED
      BY <1>1, <1>2, <2>1, <2>2
<1>4. (seconds + 1) * TicksPerSecond * Refill = (seconds + 1) * rate
  <2> HIDE DEF seconds
  <2>1. QED
    BY <1>2 DEF LimitConstants
<1>5. QED
  BY <1>2, <1>3, <1>4 DEF RetryAfterSeconds

-----------------------------------------------------------------------------
\* What makes RateBounded inductive: a bucket never holds more than its capacity; what
\* was admitted in the window and what is left come from a full bucket and the time
\* between the window's first stamp and the last; and at the promised time the bucket
\* will have earned a token, counted from its last stamp.
LimitInv ==
    /\ LimitTypeOK
    /\ \A b \in Bucket :
        /\ tokensLeft[b] <= Full
        /\ window[b] <= lastRefill[b] /\ lastRefill[b] <= clock
        /\ admitted[b] * Parts + tokensLeft[b] <= Full + (lastRefill[b] - window[b]) * Refill
        /\ retryAt[b] # 0 => tokensLeft[b] + (retryAt[b] - lastRefill[b]) * Refill >= Parts

LEMMA FullHoldsAToken == LimitConstants => Full \in Nat /\ Full >= Parts /\ Parts \in Nat /\ Refill \in Nat
<1> SUFFICES ASSUME LimitConstants PROVE Full >= Parts
  BY DEF Full, LimitConstants
<1>1. Capacity * Parts = (Capacity - 1) * Parts + Parts
  BY DEF LimitConstants
<1>2. (Capacity - 1) * Parts \in Nat
  BY DEF LimitConstants
<1>3. QED
  BY <1>1, <1>2 DEF Full, LimitConstants

\* What a bucket earned since its last stamp, as a number.
LEMMA EarnedIs ==
    ASSUME LimitConstants, LimitInv, NEW b \in Bucket
    PROVE  /\ (clock - lastRefill[b]) * Refill \in Nat
           /\ Earned(b) = tokensLeft[b] + (clock - lastRefill[b]) * Refill
           /\ Refilled(b) \in Nat /\ Refilled(b) <= Earned(b) /\ Refilled(b) <= Full
           /\ Refilled(b) # Earned(b) => Refilled(b) = Full
<1>1. clock - lastRefill[b] \in Nat /\ tokensLeft[b] \in Nat
  BY DEF LimitInv, LimitTypeOK
<1>2. (clock - lastRefill[b]) * Refill \in Nat
  BY <1>1 DEF LimitConstants
<1>3. QED
  BY <1>1, <1>2, FullHoldsAToken DEF Earned, Refilled

\* A bucket admits no more over a time than its capacity and its rate give, and who
\* waits as long as retryAfterSeconds() says is admitted.
THEOREM RateBoundedHolds == LimitSpec => []RateBounded
<1>1. LimitInit => LimitInv
  <2>1. ASSUME LimitInit, NEW b \in Bucket
        PROVE  /\ tokensLeft[b] = Full /\ lastRefill[b] = 0 /\ window[b] = 0
               /\ admitted[b] = 0 /\ retryAt[b] = 0 /\ clock = 0
    BY <2>1 DEF LimitInit
  <2>2. LimitInit => LimitTypeOK
    BY LimitConstants, FullHoldsAToken DEF LimitInit, LimitTypeOK
  <2>3. 0 * Parts = 0 /\ (0 - 0) * Refill = 0
    BY LimitConstants DEF LimitConstants
  <2>4. QED
    BY <2>1, <2>2, <2>3, LimitConstants, FullHoldsAToken DEF LimitInv
<1>2. LimitInv /\ [LimitNext]_limitVars => LimitInv'
  <2> SUFFICES ASSUME LimitInv, [LimitNext]_limitVars PROVE LimitInv'
    OBVIOUS
  <2> USE LimitConstants, FullHoldsAToken
  <2>1. CASE UNCHANGED limitVars
    BY <2>1 DEF limitVars, LimitInv, LimitTypeOK, Full
  <2>2. CASE MonotonicTick
    BY <2>2 DEF MonotonicTick, LimitInv, LimitTypeOK, Full
  <2>3. ASSUME NEW b \in Bucket, Admit(b) PROVE LimitInv'
    <3> DEFINE gained == (clock - lastRefill[b]) * Refill
    <3>1. /\ gained \in Nat /\ Refilled(b) <= tokensLeft[b] + gained
          /\ Refilled(b) \in Nat /\ Refilled(b) <= Full
      BY EarnedIs
    <3>2. LimitTypeOK'
      BY <2>3, <3>1 DEF Admit, LimitInv, LimitTypeOK
    <3>3. (clock - window[b]) * Refill = (lastRefill[b] - window[b]) * Refill + gained
      <4>1. clock \in Int /\ lastRefill[b] \in Int /\ window[b] \in Int /\ Refill \in Int
        BY DEF LimitInv, LimitTypeOK
      <4>2. Span(Refill, window[b], clock)
                = Span(Refill, window[b], lastRefill[b]) + Span(Refill, lastRefill[b], clock)
        BY ONLY <4>1, SpansAddUp
      <4>3. QED
        BY ONLY <4>2 DEF Span
    <3>4. (admitted[b] + 1) * Parts = admitted[b] * Parts + Parts
      BY DEF LimitInv, LimitTypeOK
    <3>5. /\ admitted[b] * Parts \in Int /\ (lastRefill[b] - window[b]) * Refill \in Int
          /\ tokensLeft[b] \in Nat
      BY DEF LimitInv, LimitTypeOK
    <3>6. /\ tokensLeft'[b] = Refilled(b) - Parts /\ lastRefill'[b] = clock
          /\ admitted'[b] = admitted[b] + 1 /\ retryAt'[b] = 0
          /\ window' = window /\ clock' = clock
      BY <2>3 DEF Admit, LimitInv, LimitTypeOK
    <3>7. admitted'[b] * Parts + tokensLeft'[b] <= Full' + (lastRefill'[b] - window'[b]) * Refill
      <4>1. admitted[b] * Parts + tokensLeft[b] <= Full + (lastRefill[b] - window[b]) * Refill
        BY DEF LimitInv
      <4>2. admitted[b] * Parts + Parts + (Refilled(b) - Parts) <= Full + (lastRefill[b] - window[b]) * Refill + gained
        <5> HIDE DEF gained
        <5>1. QED
          BY <4>1, <3>1, <3>5
      <4>3. Full' = Full
        BY DEF Full
      <4>4. /\ admitted'[b] * Parts = admitted[b] * Parts + Parts
            /\ (lastRefill'[b] - window'[b]) * Refill = (clock - window[b]) * Refill
        BY <3>4, <3>6
      <4>5. admitted'[b] * Parts + tokensLeft'[b] = admitted[b] * Parts + Parts + (Refilled(b) - Parts)
        BY <4>4, <3>6
      <4>6. Full' + (lastRefill'[b] - window'[b]) * Refill
              = Full + (lastRefill[b] - window[b]) * Refill + gained
        <5>1. (lastRefill[b] - window[b]) * Refill \in Int /\ Full \in Int
          BY <3>5
        <5>2. Full' + (lastRefill'[b] - window'[b]) * Refill
                = Full + ((lastRefill[b] - window[b]) * Refill + gained)
          BY <4>3, <4>4, <3>3
        <5>3. QED
          <6> HIDE DEF gained
          <6>1. QED
            BY <5>1, <5>2, <3>1
      <4>7. QED
        BY <4>2, <4>5, <4>6
    <3>8. ASSUME NEW c \in Bucket, c # b
          PROVE  /\ tokensLeft'[c] = tokensLeft[c] /\ lastRefill'[c] = lastRefill[c]
                 /\ admitted'[c] = admitted[c] /\ retryAt'[c] = retryAt[c]
      BY <2>3, <3>8 DEF Admit, LimitInv, LimitTypeOK
    <3>9. QED
      BY <3>1, <3>2, <3>6, <3>7, <3>8 DEF LimitInv, LimitTypeOK, Full
  <2>4. ASSUME NEW b \in Bucket, Refuse(b) PROVE LimitInv'
    <3> DEFINE gained == (clock - lastRefill[b]) * Refill
    <3>1. gained \in Nat /\ Refilled(b) = tokensLeft[b] + gained /\ Refilled(b) < Parts
      BY EarnedIs, <2>4 DEF Refuse
    <3>2. LimitTypeOK'
      BY <2>4, EarnedIs DEF Refuse, LimitInv, LimitTypeOK
    <3>3. /\ (clock - window[b]) * Refill = (lastRefill[b] - window[b]) * Refill + gained
          /\ (retryAt[b] - lastRefill[b]) * Refill = (retryAt[b] - clock) * Refill + gained
      <4>1. /\ clock \in Int /\ lastRefill[b] \in Int /\ window[b] \in Int
            /\ retryAt[b] \in Int /\ Refill \in Int
        BY DEF LimitInv, LimitTypeOK
      <4>2. (clock - window[b]) * Refill = (lastRefill[b] - window[b]) * Refill + gained
        <5>1. Span(Refill, window[b], clock)
                  = Span(Refill, window[b], lastRefill[b]) + Span(Refill, lastRefill[b], clock)
          BY ONLY <4>1, SpansAddUp
        <5> QED
          BY ONLY <5>1 DEF Span
      <4>3. (retryAt[b] - lastRefill[b]) * Refill = gained + (retryAt[b] - clock) * Refill
        <5>1. Span(Refill, lastRefill[b], retryAt[b])
                  = Span(Refill, lastRefill[b], clock) + Span(Refill, clock, retryAt[b])
          BY ONLY <4>1, SpansAddUp
        <5> QED
          BY ONLY <5>1 DEF Span
      <4>4. gained \in Int /\ (retryAt[b] - clock) * Refill \in Int
        <5>1. retryAt[b] - clock \in Int
          BY <4>1
        <5> QED
          BY <5>1, <4>1, <3>1
      <4>5. gained + (retryAt[b] - clock) * Refill = (retryAt[b] - clock) * Refill + gained
        <5> HIDE DEF gained
        <5>1. QED
          BY <4>4
      <4>6. QED
        BY <4>2, <4>3, <4>5
    <3>4. /\ admitted[b] * Parts \in Int /\ (lastRefill[b] - window[b]) * Refill \in Int
          /\ (retryAt[b] - clock) * Refill \in Int /\ tokensLeft[b] \in Nat
      BY DEF LimitInv, LimitTypeOK
    <3>5. /\ tokensLeft'[b] = Refilled(b) /\ lastRefill'[b] = clock
          /\ admitted' = admitted /\ retryAt' = retryAt /\ window' = window /\ clock' = clock
      BY <2>4 DEF Refuse, LimitInv, LimitTypeOK
    <3>6. /\ admitted[b] * Parts + tokensLeft[b] <= Full + (lastRefill[b] - window[b]) * Refill
          /\ retryAt[b] # 0 => tokensLeft[b] + (retryAt[b] - lastRefill[b]) * Refill >= Parts
      BY DEF LimitInv
    <3>7. /\ admitted[b] * Parts + Refilled(b) <= Full + (clock - window[b]) * Refill
          /\ retryAt[b] # 0 => Refilled(b) + (retryAt[b] - clock) * Refill >= Parts
      <4> HIDE DEF gained
      <4>1. QED
        BY <3>1, <3>3, <3>4, <3>6
    <3>8. ASSUME NEW c \in Bucket, c # b
          PROVE  tokensLeft'[c] = tokensLeft[c] /\ lastRefill'[c] = lastRefill[c]
      BY <2>4, <3>8 DEF Refuse, LimitInv, LimitTypeOK
    <3>9. ASSUME NEW c \in Bucket
          PROVE  /\ tokensLeft'[c] <= Full'
                 /\ window'[c] <= lastRefill'[c] /\ lastRefill'[c] <= clock'
                 /\ admitted'[c] * Parts + tokensLeft'[c]
                      <= Full' + (lastRefill'[c] - window'[c]) * Refill
                 /\ retryAt'[c] # 0 =>
                      tokensLeft'[c] + (retryAt'[c] - lastRefill'[c]) * Refill >= Parts
      <4>1. CASE c = b
        <5>1. Refilled(b) <= Full /\ window[b] <= clock
          BY EarnedIs DEF LimitInv, LimitTypeOK
        <5>2. QED
          BY <4>1, <5>1, <3>5, <3>7, <3>1 DEF Full, LimitInv, LimitTypeOK
      <4>2. CASE c # b
        BY <4>2, <3>5, <3>8 DEF LimitInv, Full
      <4>3. QED
        BY <4>1, <4>2
    <3>10. QED
      BY <3>2, <3>9 DEF LimitInv
  <2>5. ASSUME NEW b \in Bucket, AnswerRetry(b) PROVE LimitInv'
    <3> DEFINE missing == Parts - Refilled(b)
               wait == RetryAfterSeconds(missing) * TicksPerSecond
    <3>1. CASE Refilled(b) >= Parts
      BY <2>5, <3>1 DEF AnswerRetry, LimitInv, LimitTypeOK, Full
    <3>2. CASE Refilled(b) < Parts
      <4> DEFINE gained == (clock - lastRefill[b]) * Refill
      <4>1. gained \in Nat /\ Refilled(b) = tokensLeft[b] + gained /\ missing \in Nat
        BY EarnedIs, <3>2
      <4>2. wait \in Nat /\ wait * Refill >= missing
        BY WaitBringsMissing, <4>1 DEF LimitConstants
      <4>0. ~(Refilled(b) >= Parts)
        BY <3>2, EarnedIs
      <4>3. retryAt' = [retryAt EXCEPT ![b] = clock + wait]
            /\ UNCHANGED <<clock, tokensLeft, lastRefill, window, admitted>>
            /\ refused' = refused \ {b}
        BY <2>5, <4>0, Zenon DEF AnswerRetry
      <4>4. ((clock + wait) - lastRefill[b]) * Refill = gained + wait * Refill
        <5>1. /\ clock - lastRefill[b] \in Int /\ wait \in Int
              /\ (clock + wait) - lastRefill[b] = (clock - lastRefill[b]) + wait
          <6> HIDE DEF wait
          <6>1. QED
            BY <4>2 DEF LimitInv, LimitTypeOK
        <5>2. QED
          <6> HIDE DEF wait
          <6>1. QED
            BY <5>1, TimesAddUp
      <4>5. tokensLeft[b] + ((clock + wait) - lastRefill[b]) * Refill >= Parts
        <5>1. tokensLeft[b] \in Nat /\ wait * Refill \in Int
          <6> HIDE DEF wait
          <6>1. QED
            BY <4>2 DEF LimitInv, LimitTypeOK
        <5>2. QED
          <6> HIDE DEF wait, gained
          <6>1. QED
            BY <5>1, <4>1, <4>2, <4>4
      <4>6. QED
        <5> HIDE DEF wait
        <5>1. LimitTypeOK'
          BY <4>2, <4>3 DEF LimitInv, LimitTypeOK
        <5>2. QED
          BY <4>3, <4>5, <5>1 DEF LimitInv, LimitTypeOK, Full
    <3>3. QED
      BY <3>1, <3>2, EarnedIs
  <2>6. ASSUME NEW b \in Bucket, ObserveFrom(b) PROVE LimitInv'
    <3>1. 0 * Parts = 0 /\ (lastRefill[b] - lastRefill[b]) * Refill = 0
      BY DEF LimitInv, LimitTypeOK
    <3>2. QED
      BY <2>6, <3>1 DEF ObserveFrom, LimitInv, LimitTypeOK, Full
  <2>7. QED
    BY <2>1, <2>2, <2>3, <2>4, <2>5, <2>6 DEF LimitNext
<1>3. LimitInv => RateBounded
  <2> SUFFICES ASSUME LimitInv, NEW b \in Bucket
               PROVE  /\ admitted[b] * Parts <= Full + (clock - window[b]) * Refill
                      /\ retryAt[b] # 0 /\ clock >= retryAt[b] => Refilled(b) >= Parts
    BY DEF RateBounded
  <2> USE LimitConstants, FullHoldsAToken
  <2>1. /\ lastRefill[b] - window[b] \in Int /\ clock - window[b] \in Int
        /\ lastRefill[b] - window[b] <= clock - window[b] /\ tokensLeft[b] \in Nat
        /\ admitted[b] * Parts \in Int /\ (lastRefill[b] - window[b]) * Refill \in Int
        /\ (clock - window[b]) * Refill \in Int
    BY DEF LimitInv, LimitTypeOK
  <2>2. (lastRefill[b] - window[b]) * Refill <= (clock - window[b]) * Refill
    BY <2>1, MoreTimeBringsMore
  <2>3. admitted[b] * Parts + tokensLeft[b] <= Full + (lastRefill[b] - window[b]) * Refill
    BY DEF LimitInv
  <2>4. ASSUME retryAt[b] # 0, clock >= retryAt[b] PROVE Refilled(b) >= Parts
    <3>1. /\ retryAt[b] - lastRefill[b] \in Int /\ clock - lastRefill[b] \in Int
          /\ retryAt[b] - lastRefill[b] <= clock - lastRefill[b]
          /\ (retryAt[b] - lastRefill[b]) * Refill \in Int
      BY <2>4 DEF LimitInv, LimitTypeOK
    <3>2. (retryAt[b] - lastRefill[b]) * Refill <= (clock - lastRefill[b]) * Refill
      BY <3>1, MoreTimeBringsMore
    <3>3. tokensLeft[b] + (retryAt[b] - lastRefill[b]) * Refill >= Parts
      BY <2>4 DEF LimitInv
    <3>4. Earned(b) >= Parts
      BY <2>1, <3>1, <3>2, <3>3, EarnedIs
    <3>5. QED
      BY <3>4, EarnedIs
  <2>5. QED
    BY <2>1, <2>2, <2>3, <2>4
<1>4. QED
  BY <1>1, <1>2, <1>3, PTL DEF LimitSpec

-----------------------------------------------------------------------------
(***************************************************************************)
(* Commands: a caller that read a record and one that writes it may be any *)
(* number of steps of others apart.                                        *)
(***************************************************************************)
\* What a pending call holds.  A record that is to be created is pending; one that is
\* to be updated was read from a command that is still there with its identity, and
\* unless it was updated since, the update is one move along the flow.
UpdateSound(call) ==
    /\ Known(call.command)
    /\ call.row.scope = commands[call.command].scope
    /\ call.row.payload = commands[call.command].payload
    /\ call.read <= commands[call.command].updated
    /\ commands[call.command].updated = call.read =>
           <<commands[call.command].status, call.row.status>> \in CommandFlow

CallsSound ==
    \A c \in Caller :
        /\ calls[c].step = "create" => calls[c].row.status = "PENDING"
        /\ calls[c].step = "update" => UpdateSound(calls[c])

\* The unique index, and what the receipts name.
ScopesUnique == \A i, j \in Stored : commands[i].scope = commands[j].scope => i = j

ReceiptsStored == \A x \in receipts : Known(x.command) /\ Receipt(x.command) = x

CommandInv ==
    /\ CommandTypeOK
    /\ CallsSound
    /\ ScopesUnique
    /\ ReceiptsStored
    /\ CommandAnswersStand

LEMMA KnownRow == CommandTypeOK => \A i \in Command : Known(i) => commands[i] \in Row
BY DEF CommandTypeOK, Known

\* The step of a call tells what it holds.
LEMMA CallKind ==
    ASSUME CommandTypeOK, NEW c \in Caller
    PROVE  /\ calls[c].step = "create" => calls[c] \in Creating
           /\ calls[c].step = "update" => calls[c] \in Updating
           /\ calls[c] = Idle => calls[c].step = "idle"
BY DEF CommandTypeOK, Creating, Updating, Idle

\* A status reachable from a reachable one is reachable.
LEMMA OnwardClosed ==
    /\ \A s \in CommandStatus : s \in Onward[s]
    /\ \A s, t, u \in CommandStatus :
        t \in Onward[s] /\ <<t, u>> \in CommandFlow => u \in Onward[s]
BY DEF CommandStatus, Onward, CommandFlow

LEMMA FlowStatus == \A s, t : <<s, t>> \in CommandFlow => s \in CommandStatus /\ t \in CommandStatus
BY DEF CommandStatus, CommandFlow

LEMMA CommandInitInv == CommandInit => CommandInv
BY DEF CommandInit, CommandInv, CommandTypeOK, CallsSound, UpdateSound, ScopesUnique, ReceiptsStored,
   CommandAnswersStand, Stored, Known, Idle

\* A step that leaves the rows, receipts and answers alone keeps what is said of them.
LEMMA RowsStand ==
    ASSUME CommandInv, UNCHANGED <<commands, receipts, answers>>
    PROVE  (ScopesUnique /\ ReceiptsStored /\ CommandAnswersStand)'
BY DEF CommandInv, ScopesUnique, ReceiptsStored, CommandAnswersStand, Stored, Known, Receipt

-----------------------------------------------------------------------------
\* The two writes.  The row that a transition writes is fresh: it moves the command
\* it was read from along the flow and keeps its identity.
LEMMA CommandWriteMoves ==
    ASSUME CommandInv, NEW c \in Caller, calls[c].step = "update",
           Fresh(calls[c].command, calls[c])
    PROVE  LET i == calls[c].command
               row == calls[c].row
           IN /\ i \in Stored /\ commands[i] \in Row /\ row \in Row
              /\ <<commands[i].status, row.status>> \in CommandFlow
              /\ row.scope = commands[i].scope /\ row.payload = commands[i].payload
              /\ row.updated > commands[i].updated
BY KnownRow, CallKind DEF CommandInv, CallsSound, UpdateSound, Fresh, Stored, Updating

LEMMA TransitionWriteInv ==
    ASSUME CommandInv, NEW c \in Caller, TransitionWrite(c)
    PROVE  CommandInv'
<1> DEFINE i == calls[c].command
           row == calls[c].row
<1> USE DEF CommandInv
<1>1. calls[c].step = "update" /\ calls[c] \in Updating /\ calls' = [calls EXCEPT ![c] = Idle]
  BY CallKind DEF TransitionWrite
<1>2. i \in Command /\ row \in Row
  BY <1>1 DEF Updating
<1>3. CASE ~Fresh(i, calls[c])
  <2>1. UNCHANGED <<commands, receipts, answers, now>>
    BY <1>3 DEF TransitionWrite
  <2>2. CommandTypeOK'
    BY <1>1, <2>1 DEF CommandTypeOK
  <2>3. CallsSound'
    BY <1>1, <2>1 DEF CallsSound, UpdateSound, Known, CommandTypeOK, Idle
  <2>4. QED
    BY <2>1, <2>2, <2>3, RowsStand
<1>4. CASE Fresh(i, calls[c])
  <2>1. /\ commands' = [commands EXCEPT ![i] = row]
        /\ answers' = answers \cup {<<i, row.status>>}
        /\ UNCHANGED <<receipts, now>>
    BY <1>4 DEF TransitionWrite
  <2>2. /\ i \in Stored /\ commands[i] \in Row
        /\ <<commands[i].status, row.status>> \in CommandFlow
        /\ row.scope = commands[i].scope /\ row.payload = commands[i].payload
        /\ row.updated > commands[i].updated
    BY <1>1, <1>4, CommandWriteMoves
  <2>3. /\ \A j \in Command : commands'[j] # NoRow <=> Known(j)
        /\ \A j \in Stored : /\ commands'[j].scope = commands[j].scope
                             /\ commands'[j].payload = commands[j].payload
                             /\ j # i => commands'[j] = commands[j]
    <3>1. row # NoRow
      BY <1>2 DEF Row, NoRow, CommandStatus
    <3>2. QED
      BY <3>1, <2>1, <2>2 DEF Known, Stored, CommandTypeOK
  <2>4. CommandTypeOK'
    BY <1>1, <1>2, <2>1 DEF CommandTypeOK, Row
  <2>5. CallsSound'
    <3> SUFFICES ASSUME NEW d \in Caller
                 PROVE  /\ calls'[d].step = "create" => calls'[d].row.status = "PENDING"
                        /\ calls'[d].step = "update" => UpdateSound(calls[d])'
      BY DEF CallsSound
    <3>1. CASE d = c
      BY <3>1, <1>1 DEF CommandTypeOK, Idle
    <3>2. CASE d # c /\ calls[d].step = "create"
      BY <3>2, <1>1 DEF CallsSound, CommandTypeOK
    <3>3. CASE d # c /\ calls[d].step = "update"
      <4> DEFINE k == calls[d].command
      <4>1. calls'[d] = calls[d] /\ calls[d] \in Updating /\ k \in Command
        BY <3>3, <1>1, CallKind DEF CommandTypeOK, Updating
      <4>2. /\ Known(k) /\ commands[k] \in Row
            /\ UpdateSound(calls[d])
        BY <3>3, <4>1, KnownRow DEF CallsSound, UpdateSound
      <4> HIDE DEF k
      <4>3. CASE k # i
        <5>1. commands'[k] = commands[k] /\ commands'[k] # NoRow
          BY <4>1, <4>2, <4>3, <2>3 DEF Stored
        <5>2. QED
          BY <3>3, <4>1, <4>2, <5>1 DEF k, UpdateSound, Updating, Known
      <4>4. CASE k = i
        <5>1. calls[d].read < row.updated /\ row.updated \in Nat
          BY <4>1, <4>2, <4>4, <2>2, <1>2 DEF k, UpdateSound, Row, Updating
        <5>2. commands'[k] = row /\ commands'[k] # NoRow
          BY <4>1, <4>2, <4>4, <2>1, <2>2, <2>3 DEF CommandTypeOK, Stored
        <5>3. calls[d].row.scope = row.scope /\ calls[d].row.payload = row.payload
          BY <4>2, <4>4, <2>2 DEF k, UpdateSound, Known
        <5>4. calls[d].read \in Nat
          BY <4>1 DEF Updating
        <5>5. QED
          BY <3>3, <4>1, <5>1, <5>2, <5>3, <5>4 DEF k, UpdateSound, Known
      <4>5. QED
        BY <4>3, <4>4
    <3>4. CASE d # c /\ calls[d].step # "create" /\ calls[d].step # "update"
      BY <3>4, <1>1 DEF CommandTypeOK
    <3>5. QED
      BY <3>1, <3>2, <3>3, <3>4
  <2>6. ScopesUnique'
    BY <2>3 DEF ScopesUnique, Stored, Known
  <2>7. ReceiptsStored'
    BY <2>1, <2>3 DEF ReceiptsStored, Receipt, Stored, Known, CommandTypeOK, Submission
  <2>8. CommandAnswersStand'
    <3> SUFFICES ASSUME NEW a \in answers'
                 PROVE  Known(a[1])' /\ commands'[a[1]].status \in Onward[a[2]]
      BY DEF CommandAnswersStand
    <3>1. CASE a = <<i, row.status>>
      BY <3>1, <1>2, <2>1, <2>2, <2>3, OnwardClosed, FlowStatus DEF CommandTypeOK, Stored, Known
    <3>2. CASE a \in answers
      <4>1. Known(a[1]) /\ commands[a[1]].status \in Onward[a[2]]
            /\ a[1] \in Command /\ a[2] \in CommandStatus
        BY <3>2 DEF CommandAnswersStand, CommandTypeOK
      <4>2. CASE a[1] # i
        BY <4>1, <4>2, <2>3 DEF Stored, Known
      <4>3. CASE a[1] = i
        BY <4>1, <4>3, <1>2, <2>1, <2>2, <2>3, OnwardClosed, FlowStatus DEF CommandTypeOK, Stored, Known
      <4>4. QED
        BY <4>2, <4>3
    <3>3. QED
      BY <3>1, <3>2, <2>1
  <2>9. QED
    BY <2>4, <2>5, <2>6, <2>7, <2>8
<1>5. QED
  BY <1>3, <1>4

LEMMA CreateInv ==
    ASSUME CommandInv, NEW c \in Caller, Create(c)
    PROVE  CommandInv'
<1> DEFINE i == calls[c].command
           row == calls[c].row
           new == [scope |-> row.scope, command |-> i, payload |-> row.payload]
<1> USE DEF CommandInv
<1>1. calls[c].step = "create" /\ calls[c] \in Creating /\ calls' = [calls EXCEPT ![c] = Idle]
  BY CallKind DEF Create
<1>2. i \in Command /\ row \in Row
  BY <1>1 DEF Creating
<1>3. CASE ~Unique(i, row)
  <2>1. UNCHANGED <<commands, receipts, answers, now>>
    BY <1>3 DEF Create
  <2>2. CommandTypeOK'
    BY <1>1, <2>1 DEF CommandTypeOK
  <2>3. CallsSound'
    BY <1>1, <2>1 DEF CallsSound, UpdateSound, Known, CommandTypeOK, Idle
  <2>4. QED
    BY <2>1, <2>2, <2>3, RowsStand
<1>4. CASE Unique(i, row)
  <2>1. /\ commands' = [commands EXCEPT ![i] = row]
        /\ receipts' = receipts \cup {new}
        /\ UNCHANGED <<answers, now>>
    BY <1>4 DEF Create
  <2>2. ~Known(i) /\ (\A j \in Stored : commands[j].scope # row.scope) /\ row # NoRow
    BY <1>2, <1>4 DEF Unique, Row, NoRow, CommandStatus
  <2>3. /\ commands'[i] = row /\ Stored' = Stored \cup {i} /\ i \notin Stored
        /\ \A j \in Stored : commands'[j] = commands[j] /\ commands'[j] # NoRow
    BY <1>2, <2>1, <2>2 DEF Stored, Known, CommandTypeOK
  <2>4. CommandTypeOK'
    BY <1>1, <1>2, <2>1 DEF CommandTypeOK, Row, Submission
  <2>5. CallsSound'
    <3> SUFFICES ASSUME NEW d \in Caller
                 PROVE  /\ calls'[d].step = "create" => calls'[d].row.status = "PENDING"
                        /\ calls'[d].step = "update" => UpdateSound(calls[d])'
      BY DEF CallsSound
    <3>1. CASE d = c
      BY <3>1, <1>1 DEF CommandTypeOK, Idle
    <3>2. CASE d # c
      <4>1. calls'[d] = calls[d]
        BY <3>2, <1>1 DEF CommandTypeOK
      <4>2. ASSUME calls[d].step = "update" PROVE UpdateSound(calls[d])'
        <5>1. calls[d].command \in Stored /\ UpdateSound(calls[d])
          BY <4>2, CallKind DEF CallsSound, UpdateSound, Stored, Updating
        <5>2. commands'[calls[d].command] = commands[calls[d].command]
              /\ commands'[calls[d].command] # NoRow
          BY <2>3, <5>1
        <5>3. QED
          BY <4>1, <5>1, <5>2 DEF UpdateSound, Known
      <4>3. QED
        BY <4>1, <4>2 DEF CallsSound
    <3>3. QED
      BY <3>1, <3>2
  <2>6. ScopesUnique'
    BY <2>2, <2>3 DEF ScopesUnique
  <2>7. ReceiptsStored'
    BY <1>2, <2>1, <2>3 DEF ReceiptsStored, Receipt, Stored, Known, CommandTypeOK, Submission
  <2>8. CommandAnswersStand'
    BY <2>1, <2>3 DEF CommandAnswersStand, Stored, Known, CommandTypeOK
  <2>9. QED
    BY <2>4, <2>5, <2>6, <2>7, <2>8
<1>5. QED
  BY <1>3, <1>4

-----------------------------------------------------------------------------
LEMMA CommandStep == CommandInv /\ [CommandNext]_commandVars => CommandInv'
<1> SUFFICES ASSUME CommandInv, [CommandNext]_commandVars PROVE CommandInv'
  OBVIOUS
<1> USE DEF CommandInv
<1>1. CASE UNCHANGED commandVars \/ CommandTick
  <2>1. UNCHANGED <<commands, calls, receipts, answers>> /\ now' \in Nat
    BY <1>1 DEF commandVars, CommandTick, CommandTypeOK
  <2>2. CommandTypeOK' /\ CallsSound'
    BY <2>1 DEF CommandTypeOK, CallsSound, UpdateSound, Known
  <2>3. QED
    BY <2>1, <2>2, RowsStand
<1>2. ASSUME NEW c \in Caller, NEW s \in Scope, NEW p \in Payload, SubmitAgain(c, s, p)
      PROVE CommandInv'
  <2>1. PICK i \in Stored : receipts' = receipts \cup {Receipt(i)}
    BY <1>2 DEF SubmitAgain
  <2>2. UNCHANGED <<commands, calls, now, answers>> /\ commands[i] \in Row /\ i \in Command
    BY <1>2, KnownRow DEF SubmitAgain, Stored
  <2>3. CommandTypeOK'
    BY <2>1, <2>2 DEF CommandTypeOK, Receipt, Row, Submission
  <2>4. CallsSound' /\ ScopesUnique' /\ CommandAnswersStand'
    BY <2>2 DEF CallsSound, UpdateSound, ScopesUnique, CommandAnswersStand, Known, Stored
  <2>5. ReceiptsStored'
    BY <2>1, <2>2 DEF ReceiptsStored, Receipt, Known, Stored
  <2>6. QED
    BY <2>3, <2>4, <2>5
<1>3. ASSUME NEW c \in Caller, NEW i \in Command, NEW s \in Scope, NEW p \in Payload,
             SubmitNew(c, i, s, p)
      PROVE CommandInv'
  <2> DEFINE call == [step |-> "create", command |-> i,
                      row |-> [scope |-> s, payload |-> p, status |-> "PENDING", updated |-> now]]
  <2>1. calls' = [calls EXCEPT ![c] = call] /\ UNCHANGED <<commands, now, receipts, answers>>
    BY <1>3 DEF SubmitNew
  <2>2. call \in Creating
    BY DEF Creating, Row, CommandStatus, CommandTypeOK
  <2>3. CommandTypeOK'
    BY <2>1, <2>2 DEF CommandTypeOK
  <2>4. CallsSound'
    BY <2>1 DEF CallsSound, UpdateSound, Known, CommandTypeOK
  <2>5. QED
    BY <2>1, <2>3, <2>4, RowsStand
<1>4. ASSUME NEW c \in Caller, NEW i \in Command, NEW target \in CommandStatus,
             TransitionRead(c, i, target)
      PROVE CommandInv'
  <2> DEFINE row == [commands[i] EXCEPT !.status = target, !.updated = now]
             call == [step |-> "update", command |-> i, read |-> commands[i].updated,
                      row |-> row]
  <2>1. /\ calls' = [calls EXCEPT ![c] = call] /\ UNCHANGED <<commands, now, receipts, answers>>
        /\ Known(i) /\ <<commands[i].status, target>> \in CommandFlow
    BY <1>4 DEF TransitionRead
  <2>2. commands[i] \in Row
    BY <2>1, KnownRow
  <2>3. row \in Row /\ row.scope = commands[i].scope /\ row.payload = commands[i].payload
        /\ row.status = target
    BY <2>2 DEF Row, CommandTypeOK
  <2>4. call \in Updating
    BY <2>2, <2>3 DEF Updating, Row
  <2>5. CommandTypeOK'
    BY <2>1, <2>4 DEF CommandTypeOK
  <2>6. CallsSound'
    BY <2>1, <2>2, <2>3 DEF CallsSound, UpdateSound, Known, CommandTypeOK, Row
  <2>7. QED
    BY <2>1, <2>5, <2>6, RowsStand
<1>5. ASSUME NEW c \in Caller, Abandon(c) PROVE CommandInv'
  <2>1. calls' = [calls EXCEPT ![c] = Idle] /\ UNCHANGED <<commands, now, receipts, answers>>
    BY <1>5 DEF Abandon
  <2>2. CommandTypeOK'
    BY <2>1 DEF CommandTypeOK
  <2>3. CallsSound'
    BY <2>1 DEF CallsSound, UpdateSound, Known, CommandTypeOK, Idle
  <2>4. QED
    BY <2>1, <2>2, <2>3, RowsStand
<1>6. QED
  BY <1>1, <1>2, <1>3, <1>4, <1>5, CreateInv, TransitionWriteInv DEF CommandNext

\* The types of the store and of the calls, and the invariant they are part of.
THEOREM CommandInvariant == CommandSpec => []CommandInv
BY CommandInitInv, CommandStep, PTL DEF CommandSpec

\* What a caller was told of a command stands, whatever other callers read and write.
THEOREM CommandAnswersStandHolds == CommandSpec => []CommandAnswersStand
<1>1. CommandInv => CommandAnswersStand
  BY DEF CommandInv
<1>2. QED
  BY CommandInvariant, <1>1, PTL

-----------------------------------------------------------------------------
\* Every change of a stored command is one move along the flow.
THEOREM CommandMovesAlongFlowHolds == CommandSpec => CommandMovesAlongFlow
<1> DEFINE Moves == \A i \in Command : Known(i) /\ commands'[i] # commands[i] =>
        /\ <<commands[i].status, commands'[i].status>> \in CommandFlow
        /\ commands'[i].scope = commands[i].scope
        /\ commands'[i].payload = commands[i].payload
<1>1. CommandInv /\ [CommandNext]_commandVars => [Moves]_commandVars
  <2> SUFFICES ASSUME CommandInv, CommandNext PROVE Moves
    OBVIOUS
  <2>1. CASE UNCHANGED commands
    BY <2>1
  <2>2. ASSUME NEW c \in Caller, Create(c) PROVE Moves
    <3>1. \/ commands' = commands
          \/ /\ commands' = [commands EXCEPT ![calls[c].command] = calls[c].row]
             /\ ~Known(calls[c].command)
      BY <2>2 DEF Create, Unique
    <3>2. QED
      BY <3>1 DEF CommandInv, CommandTypeOK
  <2>3. ASSUME NEW c \in Caller, TransitionWrite(c) PROVE Moves
    <3>1. CASE ~Fresh(calls[c].command, calls[c])
      BY <2>3, <3>1 DEF TransitionWrite
    <3>2. CASE Fresh(calls[c].command, calls[c])
      <4>1. commands' = [commands EXCEPT ![calls[c].command] = calls[c].row]
            /\ calls[c].step = "update"
        BY <2>3, <3>2 DEF TransitionWrite
      <4>2. QED
        BY <4>1, <3>2, CommandWriteMoves DEF CommandInv, CommandTypeOK
    <3>3. QED
      BY <3>1, <3>2
  <2>4. QED
    BY <2>1, <2>2, <2>3
       DEF CommandNext, CommandTick, SubmitAgain, SubmitNew, TransitionRead, Abandon
<1>2. QED
  BY CommandInvariant, <1>1, PTL DEF CommandSpec, CommandMovesAlongFlow

-----------------------------------------------------------------------------
\* The store implements the write-once register: a create is a write, a repeated
\* submission a repeat, and a transition changes nothing the register shows.
LEMMA RegisterStep ==
    CommandInv /\ [CommandNext]_commandVars =>
        [Register!RegisterNext]_<<{Receipt(i) : i \in Stored}, receipts>>
<1> DEFINE Written == {Receipt(i) : i \in Stored}
<1> SUFFICES ASSUME CommandInv, [CommandNext]_commandVars
             PROVE  Register!RegisterNext \/ (Written' = Written /\ receipts' = receipts)
  OBVIOUS
<1>1. ASSUME UNCHANGED <<commands, receipts>>
      PROVE  Written' = Written /\ receipts' = receipts
  BY <1>1 DEF Receipt, Stored, Known
<1>2. ASSUME NEW c \in Caller, NEW s \in Scope, NEW p \in Payload, SubmitAgain(c, s, p)
      PROVE  Register!RegisterNext
  <2>1. PICK i \in Stored : receipts' = receipts \cup {Receipt(i)} /\ commands' = commands
    BY <1>2 DEF SubmitAgain
  <2>2. Receipt(i) \in Submission
    BY KnownRow DEF Receipt, Stored, Submission, Row, CommandInv
  <2>3. Written' = Written
    BY <2>1 DEF Receipt, Stored, Known
  <2>4. Register!Repeat(Receipt(i))
    BY <2>1, <2>3 DEF Register!Repeat
  <2>5. QED
    BY <2>2, <2>4 DEF Register!RegisterNext
<1>3. ASSUME NEW c \in Caller, Create(c)
      PROVE  Register!RegisterNext \/ (Written' = Written /\ receipts' = receipts)
  <2> DEFINE i == calls[c].command
             row == calls[c].row
             new == [scope |-> row.scope, command |-> i, payload |-> row.payload]
  <2>1. CASE ~Unique(i, row)
    BY <1>1, <1>3, <2>1 DEF Create
  <2>2. CASE Unique(i, row)
    <3>1. /\ commands' = [commands EXCEPT ![i] = row] /\ receipts' = receipts \cup {new}
          /\ calls[c] \in Creating
      BY <1>3, <2>2, CallKind DEF Create, CommandInv
    <3>2. i \in Command /\ row \in Row /\ new \in Submission /\ row # NoRow
      BY <3>1 DEF Creating, Row, Submission, NoRow, CommandStatus
    <3>3. /\ Stored' = Stored \cup {i} /\ i \notin Stored
          /\ \A j \in Stored : commands'[j] = commands[j]
      BY <2>2, <3>1, <3>2 DEF Stored, Known, Unique, CommandInv, CommandTypeOK
    <3>4. commands'[i] = row
      BY <3>1, <3>2 DEF CommandInv, CommandTypeOK
    <3>5. Written' = Written \cup {new}
      BY <3>3, <3>4 DEF Receipt
    <3>6. \A y \in Written : y.scope # new.scope
      BY <2>2 DEF Unique, Receipt
    <3>7. Register!Write(new)
      BY <3>1, <3>5, <3>6 DEF Register!Write
    <3>8. QED
      BY <3>2, <3>7 DEF Register!RegisterNext
  <2>3. QED
    BY <2>1, <2>2
<1>4. ASSUME NEW c \in Caller, TransitionWrite(c)
      PROVE  Written' = Written /\ receipts' = receipts
  <2> DEFINE i == calls[c].command
             row == calls[c].row
  <2>1. CASE ~Fresh(i, calls[c])
    BY <1>1, <1>4, <2>1 DEF TransitionWrite
  <2>2. CASE Fresh(i, calls[c])
    <3>1. /\ commands' = [commands EXCEPT ![i] = row] /\ receipts' = receipts
          /\ calls[c].step = "update"
      BY <1>4, <2>2 DEF TransitionWrite
    <3>2. /\ i \in Stored /\ row \in Row
          /\ row.scope = commands[i].scope /\ row.payload = commands[i].payload
      BY <2>2, <3>1, CommandWriteMoves
    <3>3. row # NoRow
      BY <3>2 DEF Row, NoRow, CommandStatus
    <3>4. Stored' = Stored
      BY <3>1, <3>2, <3>3 DEF Stored, Known, CommandInv, CommandTypeOK
    <3>5. \A j \in Stored : Receipt(j)' = Receipt(j)
      BY <3>1, <3>2 DEF Receipt, Stored, CommandInv, CommandTypeOK
    <3>6. QED
      BY <3>1, <3>4, <3>5
  <2>3. QED
    BY <2>1, <2>2
<1>5. QED
  BY <1>1, <1>2, <1>3, <1>4
     DEF CommandNext, commandVars, CommandTick, SubmitNew, TransitionRead, Abandon

\* The service implements the register: the command a scope's first submission created
\* is the one every later submission is answered with.
THEOREM SubmissionsRegisteredHolds == CommandSpec => SubmissionsRegistered
<1>1. CommandInit => Register!RegisterInit
  BY DEF CommandInit, Register!RegisterInit, Stored, Known
<1>2. QED
  BY <1>1, CommandInvariant, RegisterStep, PTL
     DEF CommandSpec, SubmissionsRegistered, Register!RegisterSpec

-----------------------------------------------------------------------------
(***************************************************************************)
(* StateStream: what a client was sent, what its generator holds and what  *)
(* is pending for it continue one another.                                 *)
(***************************************************************************)

\* Where a sequence that continues from n ends.
EndOf(s, n) == IF s = <<>> THEN n ELSE Last(s)

\* Sequence s holds, in order, the events that the client is due behind event n, up to
\* its last: those it follows, less the ones of skip.
Due(c, skip, events, m) == Follows(c, events[m]) /\ m \notin skip

Continues(c, skip, events, s, n) ==
    /\ n \in 0..Len(events)
    /\ EndOf(s, n) \in 0..Len(events)
    /\ Increasing(s)
    /\ \A m \in Nat : m \in ToSet(s) <=> n < m /\ m <= EndOf(s, n) /\ Due(c, skip, events, m)

NothingBehind(c, skip, events, n) == \A m \in 1..Len(events) : n < m => ~Due(c, skip, events, m)

SentTo(c) == EndOf(received[c], since[c])
HeldTo(c) == EndOf(batch[c], SentTo(c))
PendingTo(c) == EndOf(pending[c], HeldTo(c))

StreamSound(c) ==
    /\ Continues(c, missed[c], produced, received[c], since[c])
    /\ Continues(c, missed[c], produced, batch[c], SentTo(c))
    /\ Continues(c, missed[c], produced, pending[c], HeldTo(c))
    /\ stream[c] = "active" => NothingBehind(c, missed[c], produced, PendingTo(c))
    /\ stream[c] = "none" => batch[c] = <<>> /\ pending[c] = <<>>

\* What a replay from a cursor may leave out, and what is left out now.
BehindBacklog(c, cursor, n) == Cardinality(Followed(c, cursor, n)) > MaxBacklog

MissedSound(c) ==
    /\ missed[c] \subseteq 1..Latest
    /\ resumed[c] \in 0..Latest
    /\ ReplayWindow <= Retention =>
        /\ ReplayWindow <= MaxBacklog => missed[c] = {}
        /\ \A n \in missed[c] : resumed[c] < n => BehindBacklog(c, resumed[c], n)

BarredSound(c) == barred[c] # -1 => stream[c] # "active" /\ PendingTo(c) <= barred[c]

ClientSound(c) == StreamSound(c) /\ MissedSound(c) /\ BarredSound(c)

StreamInv == StreamTypeOK /\ \A c \in Client : ClientSound(c)

LEMMA LastOf ==
    ASSUME NEW s \in Seq(Nat), s # <<>>
    PROVE  /\ Len(s) \in Nat /\ Len(s) >= 1 /\ DOMAIN s = 1..Len(s)
           /\ Last(s) = s[Len(s)] /\ Head(s) = s[1]
           /\ Last(s) \in Nat /\ Last(s) \in ToSet(s)
           /\ Head(s) \in Nat /\ Head(s) \in ToSet(s)
BY DEF Last, ToSet

LEMMA IncreasingEnds ==
    ASSUME NEW s \in Seq(Nat), s # <<>>, Increasing(s)
    PROVE  \A m \in ToSet(s) : m \in Nat /\ Head(s) <= m /\ m <= Last(s)
BY DEF Increasing, ToSet, Last

LEMMA MembersNat == ASSUME NEW s \in Seq(Nat) PROVE ToSet(s) \subseteq Nat
BY DEF ToSet

\* What a member at the end adds to an increasing sequence.
LEMMA AppendIncreasing ==
    ASSUME NEW s \in Seq(Nat), NEW x \in Nat, Increasing(s), \A m \in ToSet(s) : m < x
    PROVE  /\ Append(s, x) \in Seq(Nat) /\ Append(s, x) # <<>> /\ Last(Append(s, x)) = x
           /\ ToSet(Append(s, x)) = ToSet(s) \cup {x}
           /\ Increasing(Append(s, x))
<1> DEFINE longer == Append(s, x)
<1>1. longer \in Seq(Nat) /\ Len(s) \in Nat /\ Len(longer) = Len(s) + 1
  OBVIOUS
<1>2. longer[Len(s) + 1] = x /\ \A i \in 1..Len(s) : longer[i] = s[i]
  OBVIOUS
<1>3. DOMAIN s = 1..Len(s)
  OBVIOUS
<1> HIDE DEF longer
<1>4. DOMAIN longer = 1..(Len(s) + 1)
  BY <1>1
<1>5. longer # <<>>
  BY <1>1
<1>6. Last(longer) = x
  BY <1>1, <1>2 DEF Last
<1>7. Len(s) + 1 \in DOMAIN longer
  BY <1>1, <1>4
<1>8. ToSet(longer) = ToSet(s) \cup {x}
  <2>1. ASSUME NEW m \in ToSet(longer) PROVE m \in ToSet(s) \cup {x}
    <3>1. PICK i \in 1..(Len(s) + 1) : m = longer[i]
      BY <1>4, <2>1 DEF ToSet
    <3>2. CASE i = Len(s) + 1
      BY <1>2, <3>1, <3>2
    <3>3. CASE i \in 1..Len(s)
      BY <1>2, <1>3, <3>1, <3>3 DEF ToSet
    <3> QED
      BY <1>1, <3>2, <3>3
  <2>2. ASSUME NEW m \in ToSet(s) PROVE m \in ToSet(longer)
    <3>1. PICK i \in 1..Len(s) : m = s[i]
      BY <1>3 DEF ToSet
    <3>2. i \in DOMAIN longer /\ m = longer[i]
      BY <1>1, <1>2, <1>4, <3>1
    <3> QED
      BY <3>2 DEF ToSet
  <2>3. x \in ToSet(longer)
    BY <1>2, <1>7 DEF ToSet
  <2> QED
    BY <2>1, <2>2, <2>3
<1>9. ASSUME NEW i \in 1..(Len(s) + 1), NEW j \in 1..(Len(s) + 1), i < j PROVE longer[i] < longer[j]
  <2>1. i \in 1..Len(s)
    BY <1>1, <1>9
  <2>2. longer[i] = s[i] /\ s[i] \in ToSet(s)
    BY <1>2, <1>3, <2>1 DEF ToSet
  <2>3. CASE j = Len(s) + 1
    BY <1>2, <2>2, <2>3
  <2>4. CASE j \in 1..Len(s)
    BY <1>2, <1>3, <1>9, <2>1, <2>2, <2>4 DEF Increasing
  <2> QED
    BY <1>1, <2>3, <2>4
<1>10. Increasing(longer)
  BY <1>4, <1>9 DEF Increasing
<1> QED
  BY <1>1, <1>5, <1>6, <1>8, <1>10 DEF longer

\* What the first member takes away from an increasing sequence.
LEMMA TailIncreasing ==
    ASSUME NEW s \in Seq(Nat), s # <<>>, Increasing(s)
    PROVE  /\ Tail(s) \in Seq(Nat)
           /\ ToSet(Tail(s)) = ToSet(s) \ {Head(s)}
           /\ IF Tail(s) = <<>> THEN Last(s) = Head(s) ELSE Last(Tail(s)) = Last(s)
           /\ Increasing(Tail(s))
<1> DEFINE rest == Tail(s)
<1>1. Len(s) \in Nat /\ Len(s) >= 1 /\ DOMAIN s = 1..Len(s) /\ Head(s) = s[1] /\ Last(s) = s[Len(s)]
  BY LastOf
<1>2. rest \in Seq(Nat) /\ Len(rest) = Len(s) - 1 /\ \A i \in 1..(Len(s) - 1) : rest[i] = s[i + 1]
  BY <1>1
<1> HIDE DEF rest
<1>3. DOMAIN rest = 1..(Len(s) - 1)
  BY <1>2
<1>4. \A i, j \in 1..Len(s) : i < j => s[i] < s[j]
  BY <1>1 DEF Increasing
<1>5. \A i \in 1..Len(s) : s[i] \in Nat
  OBVIOUS
<1>6. \A i \in 1..(Len(s) - 1) : i + 1 \in 1..Len(s) /\ 1 < i + 1
  BY <1>1
<1>7. ToSet(rest) = ToSet(s) \ {Head(s)}
  <2>1. ASSUME NEW m \in ToSet(rest) PROVE m \in ToSet(s) /\ m # Head(s)
    <3>1. PICK i \in 1..(Len(s) - 1) : m = s[i + 1]
      BY <1>2, <1>3 DEF ToSet
    <3>2. s[1] < s[i + 1] /\ s[1] \in Nat /\ s[i + 1] \in Nat
      BY <1>1, <1>4, <1>5, <1>6
    <3>3. s[i + 1] \in ToSet(s)
      BY <1>1, <1>6 DEF ToSet
    <3> QED
      BY <1>1, <3>1, <3>2, <3>3
  <2>2. ASSUME NEW m \in ToSet(s), m # Head(s) PROVE m \in ToSet(rest)
    <3>1. PICK i \in 1..Len(s) : m = s[i]
      BY <1>1 DEF ToSet
    <3>2. i # 1
      BY <1>1, <2>2, <3>1
    <3>3. i - 1 \in 1..(Len(s) - 1) /\ (i - 1) + 1 = i
      BY <1>1, <3>2
    <3>4. rest[i - 1] = m
      BY <1>2, <3>1, <3>3
    <3> QED
      BY <1>3, <3>3, <3>4 DEF ToSet
  <2> QED
    BY <2>1, <2>2
<1>8. IF rest = <<>> THEN Last(s) = Head(s) ELSE Last(rest) = Last(s)
  <2>1. CASE Len(s) = 1
    BY <1>1, <1>2, <2>1
  <2>2. CASE Len(s) # 1
    <3>1. Len(s) - 1 \in 1..(Len(s) - 1) /\ (Len(s) - 1) + 1 = Len(s) /\ Len(rest) # 0
      BY <1>1, <1>2, <2>2
    <3>2. rest # <<>>
      BY <3>1
    <3>3. rest[Len(s) - 1] = s[Len(s)]
      BY <1>2, <3>1
    <3>4. Last(rest) = s[Len(s)]
      BY <1>2, <3>3 DEF Last
    <3> QED
      BY <1>1, <3>2, <3>4
  <2> QED
    BY <2>1, <2>2
<1>9. Increasing(rest)
  <2>1. ASSUME NEW i \in 1..(Len(s) - 1), NEW j \in 1..(Len(s) - 1), i < j PROVE rest[i] < rest[j]
    <3>1. i + 1 < j + 1
      BY <2>1
    <3>2. s[i + 1] < s[j + 1]
      BY <1>4, <1>6, <3>1
    <3> QED
      BY <1>2, <3>2
  <2> QED
    BY <1>3, <2>1 DEF Increasing
<1> QED
  BY <1>2, <1>7, <1>8, <1>9 DEF rest

LEMMA EmptyContinues ==
    ASSUME NEW c, NEW skip, NEW events \in Seq(StreamAccount), NEW n \in 0..Len(events)
    PROVE  Continues(c, skip, events, <<>>, n) /\ EndOf(<<>>, n) = n
BY DEF Continues, EndOf, Increasing, ToSet

LEMMA ContinuesForth ==
    ASSUME NEW c, NEW skip, NEW events \in Seq(StreamAccount), NEW s \in Seq(Nat), NEW n, Continues(c, skip, events, s, n)
    PROVE  n \in Nat /\ EndOf(s, n) \in Nat /\ n <= EndOf(s, n) /\ EndOf(s, n) <= Len(events)
BY LastOf DEF Continues, EndOf

\* An event that is produced changes nothing in what continues up to an earlier one.
LEMMA ContinuesStill ==
    ASSUME NEW c, NEW skip, NEW events \in Seq(StreamAccount), NEW a \in StreamAccount,
           NEW s, NEW n, Continues(c, skip, events, s, n)
    PROVE  Continues(c, skip, Append(events, a), s, n)
<1>1. Len(events) \in Nat /\ Len(Append(events, a)) = Len(events) + 1
      /\ \A m \in 1..Len(events) : Append(events, a)[m] = events[m]
  OBVIOUS
<1>2. n \in 0..Len(events) /\ EndOf(s, n) \in 0..Len(events) /\ Increasing(s)
  BY DEF Continues
<1>3. \A m \in Nat : n < m /\ m <= EndOf(s, n) => Append(events, a)[m] = events[m]
  BY <1>1, <1>2
<1> QED
  BY <1>1, <1>2, <1>3 DEF Continues, Due

\* An event that the client follows is added behind what it was up to date with.
LEMMA ContinuesAppended ==
    ASSUME NEW c, NEW skip, NEW events \in Seq(StreamAccount), NEW a \in StreamAccount, Follows(c, a),
           skip \subseteq 1..Len(events), NEW s \in Seq(Nat), NEW n, Continues(c, skip, events, s, n),
           NothingBehind(c, skip, events, EndOf(s, n))
    PROVE  /\ Continues(c, skip, Append(events, a), Append(s, Len(events) + 1), n)
           /\ EndOf(Append(s, Len(events) + 1), n) = Len(events) + 1
<1> DEFINE next == Len(events) + 1
           longer == Append(s, next)
           more == Append(events, a)
<1>1. next \in Nat /\ Len(events) \in Nat /\ next = Len(events) + 1 /\ Len(more) = next
      /\ more[next] = a /\ \A m \in 1..Len(events) : more[m] = events[m]
  OBVIOUS
<1>2. n \in 0..Len(events) /\ EndOf(s, n) \in 0..Len(events) /\ Increasing(s)
  BY DEF Continues
<1> HIDE DEF next
<1>3. \A m \in ToSet(s) : m \in Nat /\ m < next
  <2>1. \A m \in ToSet(s) : m \in Nat /\ m <= EndOf(s, n)
    BY MembersNat DEF Continues
  <2> QED
    BY <1>1, <1>2, <2>1
<1>4. longer # <<>> /\ Last(longer) = next /\ ToSet(longer) = ToSet(s) \cup {next} /\ Increasing(longer)
  BY <1>1, <1>2, <1>3, AppendIncreasing
<1> HIDE DEF longer, more
<1>5. EndOf(longer, n) = next
  BY <1>4 DEF EndOf
<1>6. ASSUME NEW m \in Nat
      PROVE  m \in ToSet(longer) <=> n < m /\ m <= next /\ Due(c, skip, more, m)
  <2>1. CASE m = next
    <3>1. Due(c, skip, more, next)
      BY <1>1 DEF Due
    <3> QED
      BY <1>1, <1>2, <1>4, <2>1, <3>1
  <2>2. CASE m \in 1..Len(events)
    <3>1. (Due(c, skip, more, m) <=> Due(c, skip, events, m)) /\ m # next /\ m <= next
      BY <1>1, <2>2 DEF Due
    <3>2. m \in ToSet(s) <=> n < m /\ m <= EndOf(s, n) /\ Due(c, skip, events, m)
      BY DEF Continues
    <3>3. EndOf(s, n) < m => ~Due(c, skip, events, m)
      BY <2>2 DEF NothingBehind
    <3> QED
      BY <1>1, <1>2, <1>4, <2>2, <3>1, <3>2, <3>3
  <2>3. CASE m = 0
    <3>1. m \notin ToSet(s)
      BY <1>2, <2>3 DEF Continues
    <3> QED
      BY <1>1, <1>2, <1>4, <2>3, <3>1
  <2>4. CASE m > next
    <3>1. m \notin ToSet(s)
      BY <1>1, <1>3, <2>4
    <3> QED
      BY <1>1, <1>4, <2>4, <3>1
  <2>5. m = 0 \/ m \in 1..Len(events) \/ m = next \/ m > next
    BY <1>1
  <2> QED
    BY <2>1, <2>2, <2>3, <2>4, <2>5
<1>7. n \in 0..Len(more) /\ next \in 0..Len(more)
  BY <1>1, <1>2
<1>8. Continues(c, skip, more, longer, n)
  BY <1>4, <1>5, <1>6, <1>7 DEF Continues
<1> QED
  BY <1>5, <1>8 DEF next, longer, more

\* The first event of what continues r may be moved to r.
LEMMA ContinuesMoved ==
    ASSUME NEW c, NEW skip, NEW events \in Seq(StreamAccount), NEW r \in Seq(Nat), NEW s \in Seq(Nat), NEW n,
           Continues(c, skip, events, r, n), Continues(c, skip, events, s, EndOf(r, n)), s # <<>>
    PROVE  /\ Continues(c, skip, events, Append(r, Head(s)), n)
           /\ EndOf(Append(r, Head(s)), n) = Head(s)
           /\ Continues(c, skip, events, Tail(s), Head(s))
           /\ EndOf(Tail(s), Head(s)) = EndOf(s, EndOf(r, n))
<1> DEFINE first == Head(s)
           longer == Append(r, first)
           rest == Tail(s)
           end == EndOf(r, n)
           last == EndOf(s, end)
<1>1. first \in Nat /\ first \in ToSet(s) /\ last = Last(s)
  BY LastOf DEF EndOf
<1>2. n \in Nat /\ n <= end /\ end \in Nat /\ last \in Nat /\ last <= Len(events) /\ Len(events) \in Nat
  BY ContinuesForth
<1>3. n \in 0..Len(events) /\ Increasing(r) /\ Increasing(s)
  BY DEF Continues
<1>4. \A m \in Nat : m \in ToSet(r) <=> n < m /\ m <= end /\ Due(c, skip, events, m)
  BY DEF Continues
<1>5. \A m \in Nat : m \in ToSet(s) <=> end < m /\ m <= last /\ Due(c, skip, events, m)
  BY DEF Continues
<1>6. end < first /\ first <= last /\ Due(c, skip, events, first)
  BY <1>1, <1>5
<1>7. \A m \in ToSet(s) : m \in Nat /\ first <= m
  BY <1>3, IncreasingEnds
<1>8. \A m \in ToSet(r) : m \in Nat /\ m < first
  <2>1. \A m \in ToSet(r) : m \in Nat /\ m <= end
    BY <1>4, MembersNat
  <2> QED
    BY <1>1, <1>2, <1>6, <2>1
<1>9. longer # <<>> /\ Last(longer) = first /\ ToSet(longer) = ToSet(r) \cup {first} /\ Increasing(longer)
  BY <1>1, <1>3, <1>8, AppendIncreasing
<1>10. ToSet(rest) = ToSet(s) \ {first} /\ Increasing(rest)
       /\ IF rest = <<>> THEN Last(s) = first ELSE Last(rest) = Last(s)
  BY <1>3, TailIncreasing
<1> HIDE DEF first, longer, rest, end, last
<1>11. EndOf(longer, n) = first /\ EndOf(rest, first) = last
  BY <1>1, <1>9, <1>10 DEF EndOf
<1>12. first \in 0..Len(events) /\ last \in 0..Len(events)
  BY <1>1, <1>2, <1>6
<1>13. Continues(c, skip, events, longer, n)
  <2>1. ASSUME NEW m \in Nat
        PROVE  m \in ToSet(longer) <=> n < m /\ m <= first /\ Due(c, skip, events, m)
    <3>1. CASE m <= end
      BY <1>1, <1>2, <1>4, <1>6, <1>9, <3>1
    <3>2. CASE end < m /\ m < first
      <4>1. m \notin ToSet(s)
        BY <1>1, <1>7, <3>2
      <4>2. m \notin ToSet(r) /\ m <= last
        BY <1>1, <1>2, <1>4, <1>6, <3>2
      <4> QED
        BY <1>1, <1>5, <1>9, <3>2, <4>1, <4>2
    <3>3. CASE m = first
      BY <1>1, <1>2, <1>6, <1>9, <3>3
    <3>4. CASE first < m
      <4>1. m \notin ToSet(r) /\ m # first
        BY <1>1, <1>8, <3>4
      <4> QED
        BY <1>1, <1>9, <3>4, <4>1
    <3> QED
      BY <1>1, <1>2, <3>1, <3>2, <3>3, <3>4
  <2> QED
    BY <1>3, <1>9, <1>11, <1>12, <2>1 DEF Continues
<1>14. Continues(c, skip, events, rest, first)
  <2>1. ASSUME NEW m \in Nat
        PROVE  m \in ToSet(rest) <=> first < m /\ m <= last /\ Due(c, skip, events, m)
    <3>1. m \in ToSet(rest) <=> m \in ToSet(s) /\ m # first
      BY <1>10
    <3>2. m \in ToSet(s) => first <= m
      BY <1>7
    <3>3. first < m => end < m
      BY <1>1, <1>2, <1>6
    <3> QED
      BY <1>1, <1>5, <3>1, <3>2, <3>3
  <2> QED
    BY <1>10, <1>11, <1>12, <2>1 DEF Continues
<1> QED
  BY <1>11, <1>13, <1>14 DEF first, longer, rest, end, last

\* The sequence of the least members of a set: what it leaves out has as many before it
\* as it has room for.
LEMMA OldestFirst ==
    ASSUME NEW E \in SUBSET Nat, IsFiniteSet(E), NEW limit \in Nat, NEW s \in Oldest(E, limit)
    PROVE  /\ s \in Seq(Nat) /\ Increasing(s) /\ ToSet(s) \subseteq E
           /\ \A e \in E \ ToSet(s) : Cardinality({n \in E : n <= e}) > limit
<1> DEFINE All == Cardinality(E)
           N == IF All < limit THEN All ELSE limit
           Below(e) == {n \in E : n <= e}
<1>1. All \in Nat /\ N \in Nat
  BY FS_CardinalityType
<1>2. s \in [1..N -> E] /\ \A i \in 1..N : Cardinality(Below(s[i])) = i
  BY <1>1 DEF Oldest
<1>3. N = IF All < limit THEN All ELSE limit
  OBVIOUS
<1> HIDE DEF N
<1>4. s \in Seq(Nat) /\ DOMAIN s = 1..N
  <2>1. s \in [1..N -> Nat]
    BY <1>2
  <2> QED
    BY <1>1, <2>1
<1>5. ASSUME NEW e \in Nat, NEW f \in Nat, e <= f
      PROVE  /\ IsFiniteSet(Below(e)) /\ Cardinality(Below(e)) \in Nat
             /\ Cardinality(Below(e)) <= Cardinality(Below(f))
             /\ Cardinality(Below(e)) = Cardinality(Below(f)) => Below(e) = Below(f)
  <2>1. Below(e) \subseteq E /\ Below(f) \subseteq E
    OBVIOUS
  <2>2. IsFiniteSet(Below(e)) /\ IsFiniteSet(Below(f))
    BY <2>1, FS_Subset
  <2>3. Below(e) \subseteq Below(f)
    <3>1. \A n \in E : n \in Nat /\ (n <= e => n <= f)
      BY <1>5
    <3> QED
      BY <3>1
  <2> QED
    BY <2>2, <2>3, FS_Subset, FS_CardinalityType
<1>6. \A e \in E : e \in Below(e) /\ Below(e) \subseteq E
  OBVIOUS
<1> HIDE DEF Below
<1>7. ASSUME NEW i \in 1..N, NEW j \in 1..N, i < j PROVE s[i] < s[j]
  <2>1. s[i] \in Nat /\ s[j] \in Nat
    BY <1>2
  <2>2. s[j] <= s[i] => j <= i
    BY <1>2, <1>5, <2>1
  <2> QED
    BY <1>1, <1>7, <2>1, <2>2
<1>8. Increasing(s)
  BY <1>4, <1>7 DEF Increasing
<1>9. ASSUME NEW e \in E, Cardinality(Below(e)) <= limit PROVE e \in ToSet(s)
  <2> DEFINE k == Cardinality(Below(e))
  <2>1. e \in Nat
    OBVIOUS
  <2>2. k \in Nat /\ k <= All /\ k # 0
    BY <1>6, FS_Subset, FS_EmptySet, FS_CardinalityType
  <2>3. k <= limit
    BY <1>9
  <2> HIDE DEF k, All
  <2>4. k \in 1..N
    BY <1>1, <1>3, <2>2, <2>3
  <2>5. s[k] \in E /\ s[k] \in Nat /\ Cardinality(Below(s[k])) = k
    BY <1>2, <2>4
  <2>6. s[k] <= e => e \in Below(s[k])
    BY <1>5, <1>6, <2>1, <2>5 DEF k
  <2>7. e <= s[k] => s[k] \in Below(e)
    BY <1>5, <1>6, <2>1, <2>5 DEF k
  <2>8. s[k] = e
    BY <2>1, <2>5, <2>6, <2>7 DEF Below
  <2> QED
    BY <1>4, <2>4, <2>8 DEF ToSet
<1>10. ASSUME NEW e \in E \ ToSet(s) PROVE Cardinality(Below(e)) > limit
  <2>1. Cardinality(Below(e)) \in Nat
    BY <1>5
  <2> QED
    BY <1>9, <2>1
<1>11. ToSet(s) \subseteq E
  BY <1>2, <1>4 DEF ToSet
<1> QED
  BY <1>4, <1>8, <1>10, <1>11 DEF Below

\* What a client follows behind a cursor is counted within the events behind it.
LEMMA FollowedFinite ==
    ASSUME NEW c, NEW k \in Nat, NEW n, Latest \in Nat
    PROVE  /\ IsFiniteSet(Followed(c, k, n)) /\ Cardinality(Followed(c, k, n)) \in Nat
           /\ k <= Latest => Cardinality(Followed(c, k, n)) <= Latest - k
<1> DEFINE behind == (k + 1)..Latest
<1>1. k + 1 \in Int /\ Latest \in Int
  OBVIOUS
<1>2. /\ IsFiniteSet(behind)
      /\ Cardinality(behind) = IF k + 1 > Latest THEN 0 ELSE Latest - (k + 1) + 1
  BY <1>1, FS_Interval
<1>3. Followed(c, k, n) \in SUBSET behind
  BY DEF Followed
<1> HIDE DEF behind
<1>4. IsFiniteSet(Followed(c, k, n)) /\ Cardinality(Followed(c, k, n)) <= Cardinality(behind)
  BY <1>2, <1>3, FS_Subset
<1>5. Cardinality(Followed(c, k, n)) \in Nat
  BY <1>4, FS_CardinalityType
<1> QED
  BY <1>2, <1>4, <1>5

\* The replay of a client whose cursor is inside the window brings it up to date with
\* what the replay does not leave out.
LEMMA ReplayExact ==
    ASSUME StreamTypeOK, NEW c, NEW cursor \in 0..Latest, cursor >= Latest - ReplayWindow,
           NEW s \in EventsSince(c, cursor, MaxBacklog), NEW skip,
           \A m \in Nat : cursor < m => (m \in skip <=> m \in Followed(c, cursor, Latest) \ ToSet(s))
    PROVE  /\ s \in Seq(Nat)
           /\ Continues(c, skip, produced, s, cursor)
           /\ NothingBehind(c, skip, produced, EndOf(s, cursor))
           /\ ReplayWindow <= Retention =>
                 \A n \in Followed(c, cursor, Latest) \ ToSet(s) : BehindBacklog(c, cursor, n)
<1> DEFINE E == Matching(c, cursor + 1)
<1>1. Latest \in Nat /\ Latest = Len(produced) /\ ReplayWindow \in Nat /\ Retention \in Nat /\ MaxBacklog \in Nat
      /\ cursor \in Nat
  BY StreamConstants DEF StreamTypeOK, Latest
<1>2. \A m : m \in E <=> m \in 1..Latest /\ m > Latest - Retention /\ cursor < m /\ Follows(c, produced[m])
  BY <1>1 DEF Matching, Retained
<1> HIDE DEF E
<1>3. E \subseteq Followed(c, cursor, Latest)
  BY <1>1, <1>2 DEF Followed
<1>4. E \in SUBSET Nat /\ IsFiniteSet(E)
  BY <1>1, <1>2, <1>3, FollowedFinite, FS_Subset
<1>5. /\ s \in Seq(Nat) /\ Increasing(s) /\ ToSet(s) \subseteq E
      /\ \A e \in E \ ToSet(s) : Cardinality({n \in E : n <= e}) > MaxBacklog
  BY <1>1, <1>4, OldestFirst DEF EventsSince, E
<1>6. EndOf(s, cursor) \in cursor..Latest /\ \A m \in ToSet(s) : m \in Nat /\ m <= EndOf(s, cursor)
  <2>1. CASE s = <<>>
    BY <1>1, <2>1 DEF EndOf, ToSet
  <2>2. CASE s # <<>>
    <3>1. Last(s) \in E
      BY <1>5, <2>2, LastOf
    <3> QED
      BY <1>1, <1>2, <1>5, <2>2, <3>1, IncreasingEnds DEF EndOf
  <2> QED
    BY <2>1, <2>2
<1>7. ASSUME NEW m \in Nat, m <= Latest, cursor < m, Due(c, skip, produced, m) PROVE m \in ToSet(s)
  BY <1>1, <1>7 DEF Due, Followed
<1>8. ASSUME NEW m \in ToSet(s) PROVE cursor < m /\ Due(c, skip, produced, m)
  <2>1. m \in Nat /\ m \in E
    BY <1>4, <1>5
  <2> QED
    BY <1>2, <2>1 DEF Due
<1>9. Continues(c, skip, produced, s, cursor)
  <2>1. cursor \in 0..Len(produced) /\ EndOf(s, cursor) \in 0..Len(produced)
    BY <1>1, <1>6
  <2>2. ASSUME NEW m \in Nat
        PROVE  m \in ToSet(s) <=> cursor < m /\ m <= EndOf(s, cursor) /\ Due(c, skip, produced, m)
    <3>1. m <= EndOf(s, cursor) => m <= Latest
      BY <1>1, <1>6
    <3> QED
      BY <1>6, <1>7, <1>8, <3>1
  <2> QED
    BY <1>5, <2>1, <2>2 DEF Continues
<1>10. NothingBehind(c, skip, produced, EndOf(s, cursor))
  <2> SUFFICES ASSUME NEW m \in 1..Latest, EndOf(s, cursor) < m, Due(c, skip, produced, m) PROVE FALSE
    BY <1>1 DEF NothingBehind
  <2>1. m \in Nat /\ m <= Latest /\ cursor < m
    BY <1>1, <1>6
  <2>2. m \in ToSet(s)
    BY <1>7, <2>1
  <2> QED
    BY <1>1, <1>6, <2>1, <2>2
<1>11. ASSUME ReplayWindow <= Retention, NEW n \in Followed(c, cursor, Latest) \ ToSet(s)
       PROVE  BehindBacklog(c, cursor, n)
  <2>1. n \in 1..Latest /\ cursor < n /\ Follows(c, produced[n])
    BY DEF Followed
  <2>2. n \in E \ ToSet(s)
    BY <1>1, <1>2, <1>11, <2>1
  <2> DEFINE below == {m \in E : m <= n}
  <2>3. Cardinality(below) > MaxBacklog
    BY <1>5, <2>2
  <2>4. below \subseteq Followed(c, cursor, n)
    BY <1>1, <1>2 DEF Followed
  <2> HIDE DEF below
  <2>5. /\ IsFiniteSet(below) /\ Cardinality(below) <= Cardinality(Followed(c, cursor, n))
        /\ Cardinality(Followed(c, cursor, n)) \in Nat
    BY <1>1, <2>4, FollowedFinite, FS_Subset
  <2>6. Cardinality(below) \in Nat
    BY <2>5, FS_CardinalityType
  <2> QED
    BY <1>1, <2>3, <2>5, <2>6 DEF BehindBacklog
<1> QED
  BY <1>5, <1>9, <1>10, <1>11

LEMMA StreamTypes ==
    ASSUME StreamTypeOK, NEW c \in Client
    PROVE  /\ produced \in Seq(StreamAccount) /\ Latest \in Nat /\ Latest = Len(produced)
           /\ received[c] \in Seq(Nat) /\ batch[c] \in Seq(Nat) /\ pending[c] \in Seq(Nat)
           /\ since[c] \in Nat
<1>1. Seq(Sequence) \subseteq Seq(Nat)
  <2>1. Sequence \subseteq Nat
    BY StreamConstants DEF Sequence
  <2> HIDE DEF Sequence
  <2>2. ASSUME NEW s \in Seq(Sequence) PROVE s \in Seq(Nat)
    <3>1. Len(s) \in Nat /\ s \in [1..Len(s) -> Sequence]
      OBVIOUS
    <3>2. s \in [1..Len(s) -> Nat]
      BY <2>1, <3>1
    <3> QED
      BY <3>1, <3>2
  <2> QED
    BY <2>2
<1> QED
  BY <1>1 DEF StreamTypeOK, Latest

LEMMA InSequence ==
    ASSUME StreamTypeOK, NEW c, NEW skip, NEW s \in Seq(Nat), NEW n, Continues(c, skip, produced, s, n)
    PROVE  s \in Seq(Sequence)
<1>1. Len(produced) \in Nat /\ Len(produced) <= MaxSequence /\ MaxSequence \in Nat
  BY StreamConstants DEF StreamTypeOK
<1>2. n \in Nat /\ EndOf(s, n) \in Nat /\ EndOf(s, n) <= Len(produced)
  BY <1>1 DEF Continues
<1>3. \A m \in ToSet(s) : m \in Nat /\ n < m /\ m <= EndOf(s, n)
  BY MembersNat DEF Continues
<1>4. \A i \in 1..Len(s) : s[i] \in ToSet(s)
  BY DEF ToSet
<1>5. \A i \in 1..Len(s) : s[i] \in Sequence
  BY <1>1, <1>2, <1>3, <1>4 DEF Sequence
<1>6. Len(s) \in Nat /\ s \in [1..Len(s) -> Nat]
  OBVIOUS
<1>7. s \in [1..Len(s) -> Sequence]
  BY <1>5, <1>6
<1> QED
  BY <1>6, <1>7

\* Nothing that a client has changes.
LEMMA ClientKept ==
    ASSUME NEW c \in Client, ClientSound(c), UNCHANGED produced,
           received'[c] = received[c], batch'[c] = batch[c], pending'[c] = pending[c],
           since'[c] = since[c], stream'[c] = stream[c], resumed'[c] = resumed[c],
           missed'[c] = missed[c], barred'[c] = barred[c]
    PROVE  ClientSound(c)'
<1>1. StreamSound(c)' /\ BarredSound(c)'
  BY DEF ClientSound, StreamSound, BarredSound, SentTo, HeldTo, PendingTo
<1>2. MissedSound(c)'
  BY DEF ClientSound, MissedSound, Latest, BehindBacklog, Followed
<1> QED
  BY <1>1, <1>2 DEF ClientSound

\* Only what a client was sent or was left out by its replays matters to MissedSound.
LEMMA MissedKept ==
    ASSUME NEW c \in Client, MissedSound(c), UNCHANGED produced,
           resumed'[c] = resumed[c], missed'[c] = missed[c]
    PROVE  MissedSound(c)'
BY DEF MissedSound, Latest, BehindBacklog, Followed

\* What a client has ends no earlier the later in its way it is.
LEMMA EndsInOrder ==
    ASSUME StreamTypeOK, NEW c \in Client, StreamSound(c)
    PROVE  /\ SentTo(c) \in 0..Latest /\ HeldTo(c) \in 0..Latest /\ PendingTo(c) \in 0..Latest
           /\ SentTo(c) <= HeldTo(c) /\ HeldTo(c) <= PendingTo(c)
           /\ \A n \in ToSet(received[c]) : n \in Nat /\ n <= SentTo(c)
<1>1. /\ Continues(c, missed[c], produced, received[c], since[c])
      /\ Continues(c, missed[c], produced, batch[c], SentTo(c))
      /\ Continues(c, missed[c], produced, pending[c], HeldTo(c))
  BY DEF StreamSound
<1>2. Latest \in Nat /\ Latest = Len(produced)
  BY StreamTypes
<1>3. SentTo(c) \in Nat /\ SentTo(c) <= Latest
  BY <1>1, <1>2, StreamTypes, ContinuesForth DEF SentTo
<1>4. HeldTo(c) \in Nat /\ SentTo(c) <= HeldTo(c) /\ HeldTo(c) <= Latest
  BY <1>1, <1>2, StreamTypes, ContinuesForth DEF HeldTo
<1>5. PendingTo(c) \in Nat /\ HeldTo(c) <= PendingTo(c) /\ PendingTo(c) <= Latest
  BY <1>1, <1>2, StreamTypes, ContinuesForth DEF PendingTo
<1>6. \A n \in ToSet(received[c]) : n \in Nat /\ n <= SentTo(c)
  <2>1. ToSet(received[c]) \subseteq Nat
    BY StreamTypes, MembersNat
  <2> QED
    BY <1>1, <2>1 DEF Continues, SentTo
<1> QED
  BY <1>2, <1>3, <1>4, <1>5, <1>6

LEMMA StreamInitInv == StreamInit => StreamInv
<1> SUFFICES ASSUME StreamInit PROVE StreamInv
  OBVIOUS
<1>1. StreamTypeOK
  BY StreamConstants DEF StreamInit, StreamTypeOK
<1>2. ASSUME NEW c \in Client PROVE ClientSound(c)
  <2>1. /\ produced = <<>> /\ received[c] = <<>> /\ batch[c] = <<>> /\ pending[c] = <<>>
        /\ since[c] = 0 /\ stream[c] = "none" /\ resumed[c] = 0 /\ missed[c] = {} /\ barred[c] = -1
    BY DEF StreamInit
  <2>2. MissedSound(c) /\ BarredSound(c)
    BY <2>1 DEF MissedSound, BarredSound, Latest
  <2>3. produced \in Seq(StreamAccount) /\ 0 \in 0..Len(produced)
    BY <2>1
  <2>4. Continues(c, missed[c], produced, <<>>, 0) /\ EndOf(<<>>, 0) = 0
    BY <2>3, EmptyContinues
  <2> QED
    BY <2>1, <2>2, <2>4 DEF ClientSound, StreamSound, SentTo, HeldTo
<1> QED
  BY <1>1, <1>2 DEF StreamInv

\* What is due up to an event is what it was when only later events are left out anew.
LEMMA SameUpTo ==
    ASSUME NEW c, NEW events, NEW skip, NEW more, NEW s, NEW n, Continues(c, skip, events, s, n),
           \A m \in Nat : m <= EndOf(s, n) => (m \in skip <=> m \in more)
    PROVE  Continues(c, more, events, s, n)
BY DEF Continues, Due

LEMMA OpenKeeps ==
    ASSUME StreamInv, NEW c \in Client, Open(c) PROVE StreamInv'
<1>1. /\ stream[c] = "none" /\ UNCHANGED produced
      /\ pending' = [pending EXCEPT ![c] = <<>>]
  BY DEF Open
<1>2. StreamTypeOK /\ StreamSound(c) /\ MissedSound(c) /\ BarredSound(c) /\ batch[c] = <<>>
  BY <1>1 DEF StreamInv, ClientSound, StreamSound
<1>3. produced \in Seq(StreamAccount) /\ Latest \in Nat /\ Latest = Len(produced) /\ since[c] \in Nat
      /\ received[c] \in Seq(Nat) /\ Latest' = Latest
  BY <1>1, <1>2, StreamTypes DEF Latest
<1>4. SentTo(c) \in 0..Latest /\ Continues(c, missed[c], produced, received[c], since[c])
  BY <1>2, EndsInOrder DEF StreamSound
<1>5. pending' \in [Client -> Seq(Sequence)] /\ pending'[c] = <<>>
  BY <1>1, <1>2 DEF StreamTypeOK
<1>6. Latest \in 0..Len(produced) /\ 1..Latest \subseteq Sequence
  BY <1>2, <1>3, StreamConstants DEF StreamTypeOK, Sequence
<1>7. CASE BehindWindow(c)
  <2>1. /\ received' = [received EXCEPT ![c] = <<>>] /\ missed' = [missed EXCEPT ![c] = {}]
        /\ UNCHANGED <<stream, batch, since, resumed, barred>>
    BY <1>7 DEF Open
  <2>2. StreamTypeOK'
    BY <1>1, <1>2, <1>5, <2>1 DEF StreamTypeOK
  <2>3. /\ received'[c] = <<>> /\ batch'[c] = <<>> /\ pending'[c] = <<>> /\ since'[c] = since[c]
        /\ stream'[c] = "none" /\ missed'[c] = {} /\ resumed'[c] = resumed[c] /\ barred'[c] = barred[c]
    BY <1>1, <1>2, <1>5, <2>1 DEF StreamTypeOK
  <2>4. since[c] \in 0..Len(produced)
    BY <1>4 DEF Continues
  <2>5. Continues(c, {}, produced, <<>>, since[c]) /\ EndOf(<<>>, since[c]) = since[c]
    BY <1>3, <2>4, EmptyContinues
  <2>6. StreamSound(c)'
    BY <1>1, <2>3, <2>5 DEF StreamSound, SentTo, HeldTo
  <2>7. MissedSound(c)'
    BY <1>2, <1>3, <2>3 DEF MissedSound
  <2>8. BarredSound(c)'
    <3>1. PendingTo(c)' = since[c]
      BY <2>3, <2>5 DEF PendingTo, HeldTo, SentTo
    <3>2. since[c] <= SentTo(c) /\ SentTo(c) \in Nat /\ SentTo(c) <= PendingTo(c) /\ PendingTo(c) \in Nat
      <4>1. SentTo(c) \in 0..Latest /\ PendingTo(c) \in 0..Latest /\ SentTo(c) <= HeldTo(c)
            /\ HeldTo(c) <= PendingTo(c) /\ HeldTo(c) \in 0..Latest
        BY <1>2, EndsInOrder
      <4>2. since[c] <= SentTo(c)
        BY <1>3, <1>4, ContinuesForth DEF SentTo
      <4> QED
        BY <1>3, <4>1, <4>2
    <3>3. barred[c] \in Int
      BY <1>2 DEF StreamTypeOK
    <3> QED
      BY <1>2, <1>3, <2>3, <3>1, <3>2, <3>3 DEF BarredSound
  <2>9. ASSUME NEW d \in Client, d # c PROVE ClientSound(d)'
    BY <1>1, <1>2, <2>1, <2>9, ClientKept DEF StreamInv, StreamTypeOK
  <2> QED
    BY <2>2, <2>6, <2>7, <2>8, <2>9 DEF StreamInv, ClientSound
<1>8. CASE ~BehindWindow(c) /\ Cursor(c) >= 0
  <2>1. /\ stream' = [stream EXCEPT ![c] = "active"] /\ UNCHANGED received
        /\ since' = [since EXCEPT ![c] = since[c]]
        /\ resumed' = [resumed EXCEPT ![c] = Cursor(c)]
        /\ barred' = [barred EXCEPT ![c] = -1]
    BY <1>8 DEF Open
  <2>2. PICK replay \in EventsSince(c, Cursor(c), MaxBacklog) :
            batch' = [batch EXCEPT ![c] = replay] /\ missed' = [missed EXCEPT ![c] = LeftOut(c, replay)]
    BY <1>8 DEF Open, Replays
  <2>3. received[c] # <<>> /\ Cursor(c) = SentTo(c)
    BY <1>8 DEF Cursor, SentTo, EndOf
  <2> DEFINE skip == LeftOut(c, replay)
             cursor == SentTo(c)
             beyond == Followed(c, cursor, Latest) \ ToSet(replay)
  <2>4. cursor \in 0..Latest /\ cursor \in Nat /\ cursor >= Latest - ReplayWindow
    BY <1>3, <1>4, <1>8, <2>3, StreamConstants DEF BehindWindow
  <2>5. skip = {n \in missed[c] : n <= cursor} \cup beyond
    BY <1>8, <2>3 DEF LeftOut
  <2>6. \A n \in beyond : n \in 1..Latest /\ cursor < n
    BY DEF Followed
  <2>7. missed[c] \subseteq 1..Latest
    BY <1>2 DEF MissedSound
  <2> HIDE DEF skip, beyond
  <2>8. \A m \in Nat : cursor < m => (m \in skip <=> m \in beyond)
    BY <1>3, <2>4, <2>5
  <2>9. \A m \in Nat : m <= cursor => (m \in skip <=> m \in missed[c])
    BY <1>3, <2>4, <2>5, <2>6
  <2>10. skip \subseteq 1..Latest
    BY <2>5, <2>6, <2>7
  <2>11. /\ replay \in Seq(Nat)
         /\ Continues(c, skip, produced, replay, cursor)
         /\ NothingBehind(c, skip, produced, EndOf(replay, cursor))
         /\ ReplayWindow <= Retention => \A n \in beyond : BehindBacklog(c, cursor, n)
    <3> HIDE DEF cursor
    <3>1. replay \in EventsSince(c, cursor, MaxBacklog)
      BY <2>2, <2>3 DEF cursor
    <3>2. \A m \in Nat : cursor < m => (m \in skip <=> m \in Followed(c, cursor, Latest) \ ToSet(replay))
      BY <2>8 DEF beyond
    <3> QED
      BY <1>2, <2>4, <3>1, <3>2, ReplayExact DEF beyond
  <2>12. replay \in Seq(Sequence)
    BY <1>2, <2>11, InSequence
  <2>13. StreamTypeOK'
    <3>1. skip \in SUBSET Sequence
      BY <1>6, <2>10
    <3>2. missed' = [missed EXCEPT ![c] = skip]
      BY <2>2 DEF skip
    <3>3. Cursor(c) \in Nat
      BY <2>3, <2>4
    <3> QED
      BY <1>1, <1>2, <1>5, <2>1, <2>2, <2>12, <3>1, <3>2, <3>3 DEF StreamTypeOK
  <2>14. /\ received'[c] = received[c] /\ batch'[c] = replay /\ since'[c] = since[c] /\ stream'[c] = "active"
         /\ missed'[c] = skip /\ resumed'[c] = cursor /\ barred'[c] = -1
    BY <1>2, <2>1, <2>2, <2>3 DEF StreamTypeOK, skip
  <2>15. Continues(c, skip, produced, <<>>, EndOf(replay, cursor))
         /\ EndOf(<<>>, EndOf(replay, cursor)) = EndOf(replay, cursor)
    <3>1. EndOf(replay, cursor) \in 0..Len(produced)
      BY <2>11 DEF Continues
    <3> QED
      BY <1>3, <3>1, EmptyContinues
  <2>16. Continues(c, skip, produced, received[c], since[c])
    BY <1>4, <2>9, SameUpTo DEF SentTo
  <2>17. StreamSound(c)'
    <3>1. SentTo(c)' = cursor /\ HeldTo(c)' = EndOf(replay, cursor) /\ PendingTo(c)' = EndOf(replay, cursor)
      BY <1>5, <2>14, <2>15 DEF SentTo, HeldTo, PendingTo
    <3> QED
      BY <1>1, <1>5, <2>11, <2>14, <2>15, <2>16, <3>1 DEF StreamSound
  <2>18. MissedSound(c)'
    <3>1. ASSUME ReplayWindow <= Retention, NEW n \in skip, cursor < n PROVE BehindBacklog(c, cursor, n)
      <4>1. n \in beyond
        BY <2>4, <2>8, <2>10, <3>1
      <4> QED
        BY <2>11, <3>1, <4>1
    <3>2. ASSUME ReplayWindow <= Retention, ReplayWindow <= MaxBacklog PROVE skip = {}
      <4>1. missed[c] = {}
        BY <1>2, <3>2 DEF MissedSound
      <4>2. ASSUME NEW n \in beyond PROVE FALSE
        <5>1. Cardinality(Followed(c, cursor, n)) > MaxBacklog
          BY <2>11, <3>2, <4>2 DEF BehindBacklog
        <5>2. /\ Cardinality(Followed(c, cursor, n)) \in Nat
              /\ Cardinality(Followed(c, cursor, n)) <= Latest - cursor
          BY <1>3, <2>4, FollowedFinite
        <5> HIDE DEF cursor
        <5> QED
          BY <1>3, <2>4, <3>2, <5>1, <5>2, StreamConstants
      <4> QED
        BY <2>5, <4>1, <4>2
    <3>3. ASSUME NEW n PROVE BehindBacklog(c, resumed[c], n)' <=> BehindBacklog(c, cursor, n)
      BY <1>1, <1>3, <2>14 DEF BehindBacklog, Followed, Latest
    <3> QED
      BY <1>3, <2>4, <2>10, <2>14, <3>1, <3>2, <3>3 DEF MissedSound
  <2>19. BarredSound(c)'
    BY <2>14 DEF BarredSound
  <2>20. ASSUME NEW d \in Client, d # c PROVE ClientSound(d)'
    BY <1>1, <1>2, <2>1, <2>2, <2>20, ClientKept DEF StreamInv, StreamTypeOK
  <2> QED
    BY <2>13, <2>17, <2>18, <2>19, <2>20 DEF StreamInv, ClientSound
<1>9. CASE ~BehindWindow(c) /\ ~(Cursor(c) >= 0)
  <2>1. /\ stream' = [stream EXCEPT ![c] = "active"] /\ UNCHANGED received
        /\ since' = [since EXCEPT ![c] = Latest] /\ batch' = [batch EXCEPT ![c] = <<>>]
        /\ resumed' = [resumed EXCEPT ![c] = Latest] /\ missed' = [missed EXCEPT ![c] = {}]
        /\ barred' = [barred EXCEPT ![c] = -1]
    BY <1>9 DEF Open, Replays, LeftOut
  <2>2. received[c] = <<>>
    BY <1>3, <1>9, LastOf DEF Cursor
  <2>3. StreamTypeOK'
    BY <1>1, <1>2, <1>3, <1>5, <2>1 DEF StreamTypeOK
  <2>4. /\ received'[c] = <<>> /\ batch'[c] = <<>> /\ since'[c] = Latest /\ stream'[c] = "active"
        /\ missed'[c] = {} /\ resumed'[c] = Latest /\ barred'[c] = -1
    BY <1>2, <2>1, <2>2 DEF StreamTypeOK
  <2>5. Continues(c, {}, produced, <<>>, Latest) /\ EndOf(<<>>, Latest) = Latest
    BY <1>3, <1>6, EmptyContinues
  <2>6. NothingBehind(c, {}, produced, Latest)
    BY <1>3 DEF NothingBehind
  <2>7. StreamSound(c)'
    <3>1. SentTo(c)' = Latest /\ HeldTo(c)' = Latest /\ PendingTo(c)' = Latest
      BY <1>5, <2>4, <2>5 DEF SentTo, HeldTo, PendingTo
    <3> QED
      BY <1>1, <1>5, <2>4, <2>5, <2>6, <3>1 DEF StreamSound
  <2>8. MissedSound(c)' /\ BarredSound(c)'
    BY <1>3, <2>4 DEF MissedSound, BarredSound
  <2>9. ASSUME NEW d \in Client, d # c PROVE ClientSound(d)'
    BY <1>1, <1>2, <2>1, <2>9, ClientKept DEF StreamInv, StreamTypeOK
  <2> QED
    BY <2>3, <2>7, <2>8, <2>9 DEF StreamInv, ClientSound
<1> QED
  BY <1>7, <1>8, <1>9

LEMMA DeliverKeepsStream ==
    ASSUME StreamInv, NEW a \in StreamAccount, Deliver(a) PROVE StreamInv'
<1> DEFINE next == Latest + 1
<1>1. /\ Latest < MaxSequence /\ produced' = Append(produced, a)
      /\ pending' = [c \in Client |-> IF c \in Receivers(a) THEN Append(pending[c], next) ELSE pending[c]]
      /\ stream' = [c \in Client |-> IF c \in Overflowing(a) THEN "closed" ELSE stream[c]]
      /\ UNCHANGED <<batch, received, since, resumed, missed, barred>>
  BY DEF Deliver
<1>2. StreamTypeOK /\ \A c \in Client : ClientSound(c)
  BY DEF StreamInv
<1>3. produced \in Seq(StreamAccount) /\ Latest \in Nat /\ Latest = Len(produced)
      /\ Len(produced') = next /\ produced'[next] = a
      /\ \A m \in 1..Latest : produced'[m] = produced[m]
  BY <1>1, <1>2 DEF StreamTypeOK, Latest
<1>4. next \in Sequence
  BY <1>1, <1>3, StreamConstants DEF Sequence
<1> HIDE DEF next
<1>5. StreamTypeOK'
  <2>1. produced' \in Seq(StreamAccount) /\ Len(produced') <= MaxSequence
    BY <1>1, <1>3, <1>4, StreamConstants DEF Sequence
  <2>2. \A c \in Client : Append(pending[c], next) \in Seq(Sequence) /\ pending[c] \in Seq(Sequence)
    BY <1>2, <1>4 DEF StreamTypeOK
  <2> HIDE DEF Sequence
  <2>3. pending' \in [Client -> Seq(Sequence)]
    BY <1>1, <2>2
  <2>4. stream' \in [Client -> {"none", "active", "closed"}]
    BY <1>1, <1>2 DEF StreamTypeOK
  <2> QED
    BY <1>1, <1>2, <2>1, <2>3, <2>4 DEF StreamTypeOK
<1>6. ASSUME NEW c \in Client PROVE ClientSound(c)'
  <2>1. received'[c] = received[c] /\ batch'[c] = batch[c] /\ since'[c] = since[c]
        /\ resumed'[c] = resumed[c] /\ missed'[c] = missed[c] /\ barred'[c] = barred[c]
        /\ SentTo(c)' = SentTo(c) /\ HeldTo(c)' = HeldTo(c)
    BY <1>1 DEF SentTo, HeldTo
  <2>2. received[c] \in Seq(Nat) /\ batch[c] \in Seq(Nat) /\ pending[c] \in Seq(Nat)
    BY <1>2, StreamTypes
  <2>3. Continues(c, missed[c], produced', received[c], since[c]) /\ Continues(c, missed[c], produced', batch[c], SentTo(c))
    BY <1>1, <1>2, <1>3, ContinuesStill DEF ClientSound, StreamSound
  <2>6. MissedSound(c)'
    <3>1. MissedSound(c) /\ Latest' = Latest + 1
      BY <1>2, <1>3 DEF ClientSound, Latest, next
    <3>2. ASSUME NEW n \in missed[c] PROVE Followed(c, resumed[c], n)' = Followed(c, resumed[c], n)
      <4>1. n \in 1..Latest
        BY <3>1 DEF MissedSound
      <4>2. \A m : m \in Followed(c, resumed[c], n)' <=> m \in Followed(c, resumed[c], n)
        BY <1>3, <2>1, <3>1, <4>1 DEF Followed
      <4> QED
        BY <4>2
    <3> QED
      BY <1>3, <2>1, <3>1, <3>2 DEF MissedSound, BehindBacklog
  <2>4. CASE c \in Receivers(a)
    <3>1. stream[c] = "active" /\ Follows(c, a) /\ barred[c] = -1
      BY <1>2, <2>4 DEF Receivers, ClientSound, BarredSound
    <3>2. pending'[c] = Append(pending[c], next) /\ stream'[c] # "none"
      BY <1>1, <2>4, <3>1
    <3>3. Continues(c, missed[c], produced, pending[c], HeldTo(c)) /\ NothingBehind(c, missed[c], produced, EndOf(pending[c], HeldTo(c)))
      BY <1>2, <3>1 DEF ClientSound, StreamSound, PendingTo
    <3>4. Continues(c, missed[c], produced', pending'[c], HeldTo(c)) /\ EndOf(pending'[c], HeldTo(c)) = next
      <4>1. /\ Continues(c, missed[c], Append(produced, a), Append(pending[c], Len(produced) + 1), HeldTo(c))
            /\ EndOf(Append(pending[c], Len(produced) + 1), HeldTo(c)) = Len(produced) + 1
        <5>1. produced \in Seq(StreamAccount) /\ pending[c] \in Seq(Nat) /\ Follows(c, a)
              /\ missed[c] \subseteq 1..Len(produced)
          BY <1>2, <1>3, <2>2, <3>1 DEF ClientSound, MissedSound
        <5> QED
          BY <3>3, <5>1, ContinuesAppended
      <4>2. next = Len(produced) + 1
        BY <1>3 DEF next
      <4> QED
        BY <1>1, <3>2, <4>1, <4>2
    <3>5. PendingTo(c)' = next
      BY <2>1, <3>4 DEF PendingTo
    <3>6. NothingBehind(c, missed[c], produced', next)
      <4>1. \A m \in 1..next : ~(next < m)
        BY <1>3 DEF next
      <4> QED
        BY <1>3, <4>1 DEF NothingBehind
    <3> QED
      BY <2>1, <2>3, <2>6, <3>1, <3>2, <3>4, <3>5, <3>6 DEF ClientSound, StreamSound, BarredSound
  <2>5. CASE c \notin Receivers(a)
    <3>1. pending'[c] = pending[c] /\ stream'[c] = stream[c]
      BY <1>1, <1>2, <2>5 DEF Overflowing, StreamTypeOK
    <3>2. PendingTo(c)' = PendingTo(c)
      BY <2>1, <3>1 DEF PendingTo
    <3>3. Continues(c, missed[c], produced', pending[c], HeldTo(c))
      BY <1>1, <1>2, <1>3, ContinuesStill DEF ClientSound, StreamSound
    <3>4. stream[c] = "active" => NothingBehind(c, missed[c], produced', PendingTo(c))
      <4>1. SUFFICES ASSUME stream[c] = "active" PROVE NothingBehind(c, missed[c], produced', PendingTo(c))
        OBVIOUS
      <4>2. ~Follows(c, a) /\ NothingBehind(c, missed[c], produced, PendingTo(c))
        BY <1>2, <2>5, <4>1 DEF Receivers, ClientSound, StreamSound
      <4>3. ASSUME NEW m \in 1..next, PendingTo(c) < m PROVE ~Due(c, missed[c], produced', m)
        <5>1. CASE m = next
          BY <1>3, <4>2, <5>1 DEF Due
        <5>2. CASE m \in 1..Latest
          BY <1>3, <4>2, <4>3, <5>2 DEF NothingBehind, Due
        <5> QED
          BY <1>3, <5>1, <5>2 DEF next
      <4> QED
        BY <1>3, <4>3 DEF NothingBehind
    <3> QED
      BY <1>2, <2>1, <2>3, <2>6, <3>1, <3>2, <3>3, <3>4 DEF ClientSound, StreamSound, BarredSound
  <2> QED
    BY <2>4, <2>5
<1> QED
  BY <1>5, <1>6 DEF StreamInv

LEMMA RevokeKeeps ==
    ASSUME StreamInv, NEW p \in Principal, RevokePrincipal(p) PROVE StreamInv'
<1>1. /\ barred' = [c \in Client |-> IF PrincipalOf[c] = p /\ barred[c] = -1 THEN Latest ELSE barred[c]]
      /\ stream' = [c \in Client |-> IF PrincipalOf[c] = p /\ stream[c] = "active" THEN "closed" ELSE stream[c]]
      /\ UNCHANGED <<produced, pending, batch, received, since, resumed, missed>>
  BY DEF RevokePrincipal, Barred
<1>2. StreamTypeOK /\ Latest \in Int
  BY DEF StreamInv, StreamTypeOK, Latest
<1>3. StreamTypeOK'
  BY <1>1, <1>2 DEF StreamTypeOK
<1>4. ASSUME NEW c \in Client PROVE ClientSound(c)'
  <2>1. StreamSound(c) /\ MissedSound(c) /\ BarredSound(c)
    BY DEF StreamInv, ClientSound
  <2>2. SentTo(c)' = SentTo(c) /\ HeldTo(c)' = HeldTo(c) /\ PendingTo(c)' = PendingTo(c)
    BY <1>1 DEF SentTo, HeldTo, PendingTo
  <2>3. stream'[c] = "active" => stream[c] = "active" /\ PrincipalOf[c] # p
    BY <1>1
  <2>4. stream'[c] = "none" => stream[c] = "none"
    BY <1>1
  <2>5. StreamSound(c)' /\ MissedSound(c)'
    BY <1>1, <2>1, <2>2, <2>3, <2>4, MissedKept DEF StreamSound
  <2>6. PendingTo(c) <= Latest
    BY <1>2, <2>1, EndsInOrder
  <2>7. barred'[c] = IF PrincipalOf[c] = p /\ barred[c] = -1 THEN Latest ELSE barred[c]
    BY <1>1
  <2>8. BarredSound(c)'
    BY <2>1, <2>2, <2>3, <2>6, <2>7 DEF BarredSound
  <2> QED
    BY <2>5, <2>8 DEF ClientSound
<1> QED
  BY <1>3, <1>4 DEF StreamInv

LEMMA SendKeeps ==
    ASSUME StreamInv, NEW c \in Client, Send(c) PROVE StreamInv'
<1> DEFINE first == Head(batch[c])
<1>1. /\ batch[c] # <<>>
      /\ received' = [received EXCEPT ![c] = Append(received[c], first)]
      /\ batch' = [batch EXCEPT ![c] = Tail(batch[c])]
      /\ UNCHANGED <<produced, stream, pending, since, resumed, missed, barred>>
  BY DEF Send
<1>2. StreamTypeOK /\ StreamSound(c) /\ MissedSound(c) /\ BarredSound(c)
  BY DEF StreamInv, ClientSound
<1>3. /\ produced \in Seq(StreamAccount)
      /\ received[c] \in Seq(Nat) /\ batch[c] \in Seq(Nat) /\ pending[c] \in Seq(Nat)
  BY <1>2, StreamTypes
<1>4. batch[c] \in Seq(Sequence) /\ received[c] \in Seq(Sequence)
  BY <1>2 DEF StreamTypeOK
<1>5. Append(received[c], first) \in Seq(Sequence) /\ Tail(batch[c]) \in Seq(Sequence)
  <2> HIDE DEF Sequence
  <2> QED
    BY <1>1, <1>4
<1>6. StreamTypeOK'
  BY <1>1, <1>2, <1>5 DEF StreamTypeOK
<1>7. received'[c] = Append(received[c], first) /\ batch'[c] = Tail(batch[c])
  BY <1>1, <1>2 DEF StreamTypeOK
<1>8. /\ Continues(c, missed[c], produced, Append(received[c], first), since[c])
      /\ EndOf(Append(received[c], first), since[c]) = first
      /\ Continues(c, missed[c], produced, Tail(batch[c]), first)
      /\ EndOf(Tail(batch[c]), first) = EndOf(batch[c], EndOf(received[c], since[c]))
  BY <1>1, <1>2, <1>3, ContinuesMoved DEF StreamSound, SentTo
<1>9. SentTo(c)' = first /\ HeldTo(c)' = HeldTo(c) /\ PendingTo(c)' = PendingTo(c)
  BY <1>1, <1>7, <1>8 DEF SentTo, HeldTo, PendingTo
<1>10. stream[c] # "none"
  BY <1>1, <1>2 DEF StreamSound
<1> HIDE DEF first
<1>11. ClientSound(c)'
  BY <1>1, <1>2, <1>7, <1>8, <1>9, <1>10, MissedKept DEF ClientSound, StreamSound, BarredSound
<1>12. ASSUME NEW d \in Client, d # c PROVE ClientSound(d)'
  BY <1>1, <1>2, <1>12, ClientKept DEF StreamInv, StreamTypeOK
<1> QED
  BY <1>6, <1>11, <1>12 DEF StreamInv

\* A client whose generator holds nothing and for which nothing is pending.
LEMMA EmptiedKept ==
    ASSUME StreamInv, NEW c \in Client, StreamTypeOK',
           UNCHANGED <<produced, received, since, resumed, missed, barred>>, stream'[c] = "none",
           batch'[c] = <<>>, pending'[c] = <<>>
    PROVE  ClientSound(c)'
<1>1. StreamTypeOK /\ StreamSound(c) /\ MissedSound(c) /\ BarredSound(c)
  BY DEF StreamInv, ClientSound
<1>2. produced \in Seq(StreamAccount) /\ Latest = Len(produced)
  BY <1>1, StreamTypes
<1>3. SentTo(c) \in 0..Latest /\ PendingTo(c) \in 0..Latest /\ SentTo(c) <= PendingTo(c)
  BY <1>1, EndsInOrder
<1>4. Continues(c, missed[c], produced, <<>>, SentTo(c)) /\ EndOf(<<>>, SentTo(c)) = SentTo(c)
  BY <1>2, <1>3, EmptyContinues
<1>5. SentTo(c)' = SentTo(c) /\ HeldTo(c)' = SentTo(c) /\ PendingTo(c)' = SentTo(c)
  BY <1>4 DEF SentTo, HeldTo, PendingTo
<1>6. barred[c] \in Int
  BY <1>1 DEF StreamTypeOK
<1> QED
  BY <1>1, <1>3, <1>4, <1>5, <1>6, MissedKept DEF ClientSound, StreamSound, BarredSound

LEMMA PollKeeps ==
    ASSUME StreamInv, NEW c \in Client, Poll(c) PROVE StreamInv'
<1>1. /\ batch[c] = <<>> /\ stream[c] # "none"
      /\ pending' = [pending EXCEPT ![c] = <<>>]
      /\ UNCHANGED <<produced, received, since, resumed, missed, barred>>
  BY DEF Poll
<1>2. StreamTypeOK /\ StreamSound(c) /\ MissedSound(c) /\ BarredSound(c)
  BY DEF StreamInv, ClientSound
<1>3. pending' \in [Client -> Seq(Sequence)] /\ pending'[c] = <<>> /\ pending[c] \in Seq(Sequence)
  BY <1>1, <1>2 DEF StreamTypeOK
<1>4. CASE stream[c] = "closed"
  <2>1. stream' = [stream EXCEPT ![c] = "none"] /\ UNCHANGED batch
    BY <1>4 DEF Poll
  <2>2. StreamTypeOK'
    BY <1>1, <1>2, <1>3, <2>1 DEF StreamTypeOK
  <2>3. stream'[c] = "none" /\ batch'[c] = <<>>
    BY <1>1, <1>2, <2>1 DEF StreamTypeOK
  <2>4. ClientSound(c)'
    BY <1>1, <1>3, <2>2, <2>3, EmptiedKept
  <2>5. ASSUME NEW d \in Client, d # c PROVE ClientSound(d)'
    BY <1>1, <1>2, <2>1, <2>5, ClientKept DEF StreamInv, StreamTypeOK
  <2> QED
    BY <2>2, <2>4, <2>5 DEF StreamInv
<1>5. CASE stream[c] # "closed"
  <2>1. batch' = [batch EXCEPT ![c] = pending[c]] /\ UNCHANGED stream
    BY <1>5 DEF Poll
  <2>2. StreamTypeOK'
    BY <1>1, <1>2, <1>3, <2>1 DEF StreamTypeOK
  <2>3. batch'[c] = pending[c]
    BY <1>2, <2>1 DEF StreamTypeOK
  <2>4. HeldTo(c) = SentTo(c) /\ PendingTo(c) \in 0..Latest
    BY <1>1, <1>2, EndsInOrder DEF HeldTo, EndOf
  <2>5. produced \in Seq(StreamAccount) /\ Latest = Len(produced)
    BY <1>2, StreamTypes
  <2>6. Continues(c, missed[c], produced, <<>>, PendingTo(c)) /\ EndOf(<<>>, PendingTo(c)) = PendingTo(c)
    BY <2>4, <2>5, EmptyContinues
  <2>7. SentTo(c)' = SentTo(c) /\ HeldTo(c)' = PendingTo(c) /\ PendingTo(c)' = PendingTo(c)
    BY <1>1, <1>3, <2>3, <2>4, <2>6 DEF SentTo, HeldTo, PendingTo
  <2>8. ClientSound(c)'
    BY <1>1, <1>2, <1>3, <2>1, <2>3, <2>4, <2>6, <2>7, MissedKept DEF ClientSound, StreamSound, BarredSound
  <2>9. ASSUME NEW d \in Client, d # c PROVE ClientSound(d)'
    BY <1>1, <1>2, <2>1, <2>9, ClientKept DEF StreamInv, StreamTypeOK
  <2> QED
    BY <2>2, <2>8, <2>9 DEF StreamInv
<1> QED
  BY <1>4, <1>5

LEMMA DisconnectKeeps ==
    ASSUME StreamInv, NEW c \in Client, Disconnect(c) PROVE StreamInv'
<1>1. /\ stream' = [stream EXCEPT ![c] = "none"]
      /\ batch' = [batch EXCEPT ![c] = <<>>] /\ pending' = [pending EXCEPT ![c] = <<>>]
      /\ UNCHANGED <<produced, received, since, resumed, missed, barred>>
  BY DEF Disconnect
<1>2. StreamTypeOK
  BY DEF StreamInv
<1>3. StreamTypeOK'
  BY <1>1, <1>2 DEF StreamTypeOK
<1>4. stream'[c] = "none" /\ batch'[c] = <<>> /\ pending'[c] = <<>>
  BY <1>1, <1>2 DEF StreamTypeOK
<1>5. ClientSound(c)'
  BY <1>1, <1>3, <1>4, EmptiedKept
<1>6. ASSUME NEW d \in Client, d # c PROVE ClientSound(d)'
  BY <1>1, <1>2, <1>6, ClientKept DEF StreamInv, StreamTypeOK
<1> QED
  BY <1>3, <1>5, <1>6 DEF StreamInv

\* The invariant of the stream.
LEMMA StreamInvariant == StreamSpec => []StreamInv
<1>1. StreamInv /\ [StreamNext]_streamVars => StreamInv'
  <2> SUFFICES ASSUME StreamInv, [StreamNext]_streamVars PROVE StreamInv'
    OBVIOUS
  <2>1. ASSUME NEW a \in StreamAccount, Deliver(a) PROVE StreamInv'
    BY <2>1, DeliverKeepsStream
  <2>2. ASSUME NEW p \in Principal, RevokePrincipal(p) PROVE StreamInv'
    BY <2>2, RevokeKeeps
  <2>3. ASSUME NEW c \in Client, Open(c) PROVE StreamInv'
    BY <2>3, OpenKeeps
  <2>4. ASSUME NEW c \in Client, Send(c) PROVE StreamInv'
    BY <2>4, SendKeeps
  <2>5. ASSUME NEW c \in Client, Poll(c) PROVE StreamInv'
    BY <2>5, PollKeeps
  <2>6. ASSUME NEW c \in Client, Disconnect(c) PROVE StreamInv'
    BY <2>6, DisconnectKeeps
  <2>7. CASE UNCHANGED streamVars
    <3>1. StreamTypeOK'
      BY <2>7 DEF streamVars, StreamInv, StreamTypeOK
    <3>2. ASSUME NEW c \in Client PROVE ClientSound(c)'
      BY <2>7, ClientKept DEF streamVars, StreamInv
    <3> QED
      BY <3>1, <3>2 DEF StreamInv
  <2> QED
    BY <2>1, <2>2, <2>3, <2>4, <2>5, <2>6, <2>7 DEF StreamNext
<1> QED
  BY <1>1, StreamInitInv, PTL DEF StreamSpec

\* A client saw, once and in order, every event of its accounts from its first open to
\* the last that it was sent, less what replays left out, for any number of clients,
\* events and reconnections and for any limits.  Nothing is left out when the window fits
\* into the backlog and the retention, and only what is behind a full replay when it fits
\* into the retention alone.
THEOREM StreamExactHolds == StreamSpec => []StreamExact
<1>1. StreamInv => StreamExact
  <2> SUFFICES ASSUME StreamInv, NEW c \in Client, received[c] # <<>>
               PROVE  /\ Increasing(received[c])
                      /\ ToSet(received[c]) = Followed(c, since[c], Last(received[c])) \ missed[c]
                      /\ ReplayWindow <= Retention =>
                          /\ ReplayWindow <= MaxBacklog => missed[c] = {}
                          /\ \A n \in missed[c] : resumed[c] < n =>
                                 Cardinality(Followed(c, resumed[c], n)) > MaxBacklog
    BY DEF StreamExact
  <2>1. StreamTypeOK /\ Continues(c, missed[c], produced, received[c], since[c]) /\ MissedSound(c)
    BY DEF StreamInv, ClientSound, StreamSound
  <2>2. /\ received[c] \in Seq(Nat) /\ Latest = Len(produced) /\ Latest \in Nat
        /\ ToSet(received[c]) \subseteq Nat
    BY <2>1, StreamTypes, MembersNat
  <2>3. EndOf(received[c], since[c]) = Last(received[c])
    BY DEF EndOf
  <2>4. since[c] \in 0..Latest /\ Last(received[c]) \in 0..Latest
    BY <2>1, <2>2, <2>3 DEF Continues
  <2>5. \A m \in Nat : m \in ToSet(received[c]) <=>
            since[c] < m /\ m <= Last(received[c]) /\ Due(c, missed[c], produced, m)
    BY <2>1, <2>3 DEF Continues
  <2>6. ASSUME NEW m \in Nat
        PROVE  m \in ToSet(received[c]) <=> m \in Followed(c, since[c], Last(received[c])) \ missed[c]
    BY <2>2, <2>4, <2>5 DEF Followed, Due
  <2>7. Followed(c, since[c], Last(received[c])) \subseteq Nat
    BY DEF Followed
  <2>8. ToSet(received[c]) = Followed(c, since[c], Last(received[c])) \ missed[c]
    BY <2>2, <2>6, <2>7
  <2> QED
    BY <2>1, <2>8 DEF Continues, MissedSound, BehindBacklog
<1> QED
  BY <1>1, StreamInvariant, PTL

\* After a revocation no client of the principal is sent what is produced later, until it
\* opens a subscription again.
THEOREM StreamRevokedHolds == StreamSpec => []StreamRevoked
<1>1. StreamInv => StreamRevoked
  <2> SUFFICES ASSUME StreamInv, NEW c \in Client, NEW n \in ToSet(received[c]), barred[c] # -1
               PROVE  n <= barred[c]
    BY DEF StreamRevoked
  <2>1. StreamTypeOK /\ StreamSound(c) /\ PendingTo(c) <= barred[c]
    BY DEF StreamInv, ClientSound, BarredSound
  <2>2. barred[c] \in Int
    BY <2>1 DEF StreamTypeOK
  <2>3. n \in Nat /\ n <= SentTo(c) /\ SentTo(c) <= HeldTo(c) /\ HeldTo(c) <= PendingTo(c)
        /\ SentTo(c) \in Nat /\ HeldTo(c) \in Nat /\ PendingTo(c) \in Nat
    BY <2>1, EndsInOrder
  <2> QED
    BY <2>1, <2>2, <2>3
<1> QED
  BY <1>1, StreamInvariant, PTL
==============================================================================
