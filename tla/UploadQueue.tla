---------------------------- MODULE UploadQueue ----------------------------
(* The upload queue of upload.rs: jobs that workers claim for a time (the   *)
(* lease), settle, or lose.  The queue is a file that survives its workers. *)
(* Workers settle what they claimed; retries and uncertain ends check the   *)
(* token of the claim, completions and failures do not, and may come after  *)
(* the lease is over.                                                       *)
EXTENDS Naturals, Sequences

CONSTANTS queue_limit, MaxClaims

ASSUME UploadQueueAssumption == {queue_limit, MaxClaims} \subseteq Nat

VARIABLES
    jobs,     \* in order of their creation
    claims    \* history: every claim by its token, and how its attempt ended

uploadQueueVars == <<jobs, claims>>

NoToken == 0
JobStates == {"Pending", "Running", "RetryScheduled", "Succeeded", "DeadLetter",
              "Uncertain"}

UploadJob == [state : JobStates, due : BOOLEAN, token : 0 .. MaxClaims,
              expired : BOOLEAN, uncertain : BOOLEAN]

create_job ==
    /\ Len(jobs) < queue_limit
    /\ jobs' = Append(jobs, [state |-> "Pending", due |-> TRUE, token |-> NoToken,
                             expired |-> FALSE, uncertain |-> FALSE])
    /\ UNCHANGED claims

(* Mutation: a running job may be claimed again.                            *)
is_claimable_running(job) ==
    job.state \in {"Pending", "RetryScheduled", "Uncertain", "Running"}

is_claimable(job) == job.state \in {"Pending", "RetryScheduled", "Uncertain"}

(* claim_next takes the first job that is claimable, due and not leased.    *)
Available(job) ==
    is_claimable(job) /\ job.due /\ (job.token = NoToken \/ job.expired)

claim_next ==
    \E j \in DOMAIN jobs :
        /\ Len(claims) < MaxClaims
        /\ Available(jobs[j]) /\ \A k \in 1 .. j - 1 : ~Available(jobs[k])
        /\ jobs' = [jobs EXCEPT ![j].state = "Running", ![j].token = Len(claims) + 1,
                                ![j].expired = FALSE]
        /\ claims' = Append(claims, [job |-> j, late |-> FALSE, outcome |-> "open"])

(* The lease of a claim runs out, and the time of a retry comes.            *)
LeaseExpires(t) ==
    /\ ~claims[t].late
    /\ claims' = [claims EXCEPT ![t].late = TRUE]
    /\ jobs' = [j \in DOMAIN jobs |->
                  IF jobs[j].token = t THEN [jobs[j] EXCEPT !.expired = TRUE] ELSE jobs[j]]

RetryComesDue(j) ==
    /\ ~jobs[j].due
    /\ jobs' = [jobs EXCEPT ![j].due = TRUE]
    /\ UNCHANGED claims

Released(job, state) ==
    [job EXCEPT !.state = state, !.token = NoToken, !.expired = FALSE]

(* Mutation: a lost worker is taken for one that did nothing.               *)
Recovered_as_new(job) == Released(job, "RetryScheduled")

Recovered(job) == [Released(job, "Uncertain") EXCEPT !.uncertain = TRUE]

recover_expired_leases ==
    /\ jobs' = [j \in DOMAIN jobs |->
                  IF jobs[j].state = "Running" /\ jobs[j].expired
                  THEN Recovered(jobs[j]) ELSE jobs[j]]
    /\ UNCHANGED claims

----------------------------------------------------------------------------
(* The worker of claim t reports how its attempt ended.                     *)
Reports(t, outcome) ==
    claims[t].outcome = "open" /\ claims' = [claims EXCEPT ![t].outcome = outcome]

(* job_for_claim: another token, or none, and nothing is recorded.          *)
Claimed(t, job) ==
    LET j == claims[t].job
    IN jobs' = IF jobs[j].token = t THEN [jobs EXCEPT ![j] = job] ELSE jobs

schedule_retry(t) ==
    /\ Reports(t, "failed")
    /\ Claimed(t, [Released(jobs[claims[t].job], "RetryScheduled") EXCEPT !.due = FALSE])

mark_uncertain(t) ==
    /\ Reports(t, "unknown")
    /\ Claimed(t, [Released(jobs[claims[t].job], "Uncertain") EXCEPT !.uncertain = TRUE])

mark_completed(t) ==
    /\ Reports(t, "completed")
    /\ jobs' = [jobs EXCEPT ![claims[t].job] =
                  [Released(@, "Succeeded") EXCEPT !.due = TRUE, !.uncertain = FALSE]]

mark_failed(t) ==
    /\ Reports(t, "failed")
    /\ jobs' = [jobs EXCEPT ![claims[t].job] = Released(@, "DeadLetter")]

----------------------------------------------------------------------------
UploadQueueInit == jobs = <<>> /\ claims = <<>>

UploadQueueNext ==
    \/ create_job \/ claim_next \/ recover_expired_leases
    \/ \E j \in DOMAIN jobs : RetryComesDue(j)
    \/ \E t \in DOMAIN claims :
        LeaseExpires(t) \/ schedule_retry(t) \/ mark_uncertain(t)
        \/ mark_completed(t) \/ mark_failed(t)

UploadQueueSpec == UploadQueueInit /\ [][UploadQueueNext]_uploadQueueVars

UploadQueueTypeOK ==
    /\ jobs \in Seq(UploadJob) /\ Len(jobs) <= queue_limit
    /\ claims \in Seq([job : DOMAIN jobs, late : BOOLEAN,
                       outcome : {"open", "failed", "unknown", "completed"}])

(* While a job runs, its claim is the only one within its lease, and when   *)
(* an earlier attempt at it was lost or ended without an answer, the job    *)
(* says so: nothing is uploaded a second time as if it were the first,      *)
(* however late workers report.                                             *)
RepeatIsMarked ==
    \A j \in DOMAIN jobs, t \in DOMAIN claims :
        ( /\ jobs[j].state = "Running"
          /\ claims[t].job = j /\ t # jobs[j].token
          /\ claims[t].outcome \in {"open", "unknown"} )
            => jobs[j].uncertain /\ (claims[t].outcome = "open" => claims[t].late)
=============================================================================
