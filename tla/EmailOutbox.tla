---------------------------- MODULE EmailOutbox ----------------------------
(***************************************************************************)
(* The authentication emails: action tokens and their outbox jobs in       *)
(* PostgreSQL, the API transactions that issue, supersede and use them,    *)
(* the job workers (the Bun loop or one scheduled Worker invocation) that  *)
(* claim jobs under a time lease, hand them to the email provider and      *)
(* record the outcome, and the cleanup that removes old rows.              *)
(*                                                                         *)
(* A token and its job are inserted together and share an identifier here. *)
(* Every SQL statement is one atomic step; a statement whose sender has    *)
(* stopped waiting (client timeout) is in "late" until the server applies  *)
(* or drops it.  Each worker takes the time once per batch from its own    *)
(* clock and uses it to the end of the batch, as the code does.            *)
(***************************************************************************)
EXTENDS Integers, FiniteSets

CONSTANTS Issues,        \* identifiers of the tokens and jobs ever issued
          Subjects,      \* pairs of an account and a purpose
          Workers,       \* slots running one batch at a time
          Unverifiable,  \* issues whose signing key is no longer configured
          ClaimLimit,    \* CLAIM_LIMIT
          SendConcurrency,
          LeaseTime,     \* LEASE_SECONDS
          MaxAttempts,   \* MAX_ATTEMPTS
          RetryDelay,    \* RetryDelay[n]: backoff after attempt n
          TokenLife,     \* lifetime of an action token
          Retention,     \* how long settled rows are kept
          Skew,          \* how far a time in use may be from the true one: the
                         \* clocks differ, and a request reads its clock first
                         \* and uses the time at the end
          None

VARIABLES
  now,         \* the true time
  tokens,      \* rows of auth_tokens
  jobs,        \* rows of auth_email_jobs
  issued,      \* history: issues made so far
  superseded,  \* history: tokens invalidated by a newer one
  stage,       \* where each worker's batch is
  lease,       \* the worker holds a release lease
  at,          \* the time an admitted batch has read, before its claim
  lanes,       \* concurrent send loops of the batch that are still alive
  claim,       \* the worker's copies of the jobs it claimed
  late,        \* outcome statements nobody waits for any more
  delivered,   \* messages the provider accepted, by idempotency key
  calls        \* history: provider calls made for each job

rows    == <<tokens, jobs, issued, superseded>>
batch   == <<stage, lease, at, lanes, claim>>
outside == <<delivered, calls>>
vars    == <<now, rows, batch, late, outside>>

-----------------------------------------------------------------------------
\* Times are positive; 0 stands for SQL null.
Token == [subject : Subjects, expires : Nat, consumed : Nat]
Job   == [available : Nat, until : Nat, attempts : 0..MaxAttempts,
          sent : Nat, updated : Nat]

\* A claimed job as the worker knows it.  "at": the batch's time.  "valid":
\* its token passed tokenInvalidReason, which looks only at what the claim
\* returned.
Claim == [attempt : 1..MaxAttempts, at : Nat \ {0}, valid : BOOLEAN,
          step : {"queued", "sending", "marking", "retrying", "failing"}]

\* An outcome statement; "attempt" is history, the statement does not carry it.
Statement == [op : {"mark", "retry", "fail"}, id : Issues, until : Nat,
              at : Nat \ {0}, available : Nat, attempt : 1..MaxAttempts]

ASSUME OutboxAssumption ==
  /\ IsFiniteSet(Issues) /\ Unverifiable \subseteq Issues
  /\ ClaimLimit \in Nat \ {0} /\ SendConcurrency \in Nat \ {0}
  /\ LeaseTime \in Nat \ {0} /\ MaxAttempts \in Nat \ {0}
  /\ RetryDelay \in [1..MaxAttempts -> Nat \ {0}]
  /\ TokenLife \in Nat \ {0} /\ Retention \in Nat /\ Skew \in Nat
  /\ None \notin Token /\ None \notin Job /\ None \notin Claim

Init ==
  /\ now = 1
  /\ tokens = [i \in Issues |-> None]
  /\ jobs = [i \in Issues |-> None]
  /\ issued = {}
  /\ superseded = {}
  /\ stage = [w \in Workers |-> "idle"]
  /\ lease = [w \in Workers |-> FALSE]
  /\ at = [w \in Workers |-> 0]
  /\ lanes = [w \in Workers |-> 0]
  /\ claim = [w \in Workers |-> [i \in Issues |-> None]]
  /\ late = {}
  /\ delivered = {}
  /\ calls = [i \in Issues |-> 0]

\* What some process may take for the current time.
Reading == (IF now > Skew THEN now - Skew ELSE 1)..(now + Skew)

Present(i) == jobs[i] # None
Unsent(i)  == Present(i) /\ jobs[i].sent = 0

\* Time matters only while a row waits for it on somebody's clock.
Timers ==
  UNION {{jobs[i].available, jobs[i].until} : i \in {j \in Issues : Unsent(j)}}
  \cup {tokens[i].expires + Retention : i \in {j \in Issues : tokens[j] # None}}

Tick ==
  /\ \E t \in Timers : now < t + Skew
  /\ now' = now + 1
  /\ UNCHANGED <<rows, batch, late, outside>>

-----------------------------------------------------------------------------
(* The API.                                                                 *)

\* The unconsumed tokens of subject s.
Live(s) == {i \in Issues : tokens[i] # None /\ tokens[i].subject = s
                           /\ tokens[i].consumed = 0}

\* Mutant: the jobs of the invalidated tokens stay.
WithoutJobsOfKept(s) == jobs

\* What buildInvalidateTokensAndJobsQuery leaves of the jobs.
WithoutJobsOf(s) == [i \in Issues |-> IF i \in Live(s) /\ Unsent(i)
                                      THEN None ELSE jobs[i]]

\* registerPending, queueVerificationEmail and queuePasswordReset, in one
\* transaction that holds the account's row: consume the subject's tokens,
\* delete their unsent jobs, insert the new token and its job.
Issue(i, s) ==
  /\ i \notin issued
  /\ \E t \in Reading :
       /\ tokens' = [j \in Issues |->
            IF j = i THEN [subject |-> s, expires |-> t + TokenLife, consumed |-> 0]
            ELSE IF j \in Live(s) THEN [tokens[j] EXCEPT !.consumed = t]
            ELSE tokens[j]]
       /\ jobs' = [WithoutJobsOf(s) EXCEPT ![i] =
            [available |-> t, until |-> 0, attempts |-> 0, sent |-> 0,
             updated |-> t]]
  /\ issued' = issued \cup {i}
  /\ superseded' = superseded \cup Live(s)
  /\ UNCHANGED <<now, batch, late, outside>>

\* consumeEmailVerification and resetPasswordAndRevokeSessions: the user
\* follows the link of a delivered email.
Consume(i) ==
  /\ i \in delivered
  /\ tokens[i] # None
  /\ \E t \in Reading :
       /\ tokens[i].consumed = 0 /\ tokens[i].expires > t
       /\ tokens' = [tokens EXCEPT ![i].consumed = t]
  /\ UNCHANGED <<now, jobs, issued, superseded, batch, late, outside>>

-----------------------------------------------------------------------------
(* A worker's batch.                                                        *)

NoClaims == [i \in Issues |-> None]
Idle(w)  == stage[w] = "idle" /\ claim[w] = NoClaims

\* leasedUntil of a claim made at t.
LeaseEnd(t) == t + LeaseTime

\* runAdmittedBatch is admitted; processEmailBatch reads its clock.
Admit(w) ==
  /\ Idle(w)
  /\ lease' = [lease EXCEPT ![w] = TRUE]
  /\ stage' = [stage EXCEPT ![w] = "admitted"]
  /\ \E t \in Reading : at' = [at EXCEPT ![w] = t]
  /\ UNCHANGED <<now, rows, lanes, claim, late, outside>>

\* Mutant: one attempt too many.
ClaimableOnceMore(i, t) ==
  /\ Unsent(i) /\ tokens[i] # None
  /\ jobs[i].attempts <= MaxAttempts
  /\ jobs[i].available <= t
  /\ jobs[i].until <= t

\* Mutant: a job is claimable only when nobody holds its lease.
ClaimableUnleased(i, t) ==
  /\ Unsent(i) /\ tokens[i] # None
  /\ jobs[i].attempts < MaxAttempts
  /\ jobs[i].available <= t
  /\ jobs[i].until = 0

\* Mutant: a job whose lease has not expired is claimable.
ClaimableIgnoringLease(i, t) ==
  /\ Unsent(i) /\ tokens[i] # None
  /\ jobs[i].attempts < MaxAttempts
  /\ jobs[i].available <= t

Claimable(i, t) ==
  /\ Unsent(i) /\ tokens[i] # None
  /\ jobs[i].attempts < MaxAttempts
  /\ jobs[i].available <= t
  /\ jobs[i].until <= t

\* The first jobs in due order, as many as the limit allows.
FirstDue(due) ==
  {s \in SUBSET due :
     /\ Cardinality(s) = IF Cardinality(due) < ClaimLimit
                         THEN Cardinality(due) ELSE ClaimLimit
     /\ \A i \in s, j \in due \ s : jobs[i].available <= jobs[j].available}

\* tokenInvalidReason finds nothing wrong.
ValidAt(i, t) == /\ tokens[i].consumed = 0
                 /\ tokens[i].expires > t
                 /\ i \notin Unverifiable

\* claimEmailJobs: lease the due jobs, count the attempt and return them
\* with their tokens.  With no job the batch is already over.
ClaimJobs(w) ==
  /\ stage[w] = "admitted"
  /\ \E s \in FirstDue({i \in Issues : Claimable(i, at[w])}) :
       /\ jobs' = [i \in Issues |->
            IF i \in s
            THEN [jobs[i] EXCEPT !.until = LeaseEnd(at[w]),
                                 !.attempts = jobs[i].attempts + 1,
                                 !.updated = at[w]]
            ELSE jobs[i]]
       /\ claim' = [claim EXCEPT ![w] = [i \in Issues |->
            IF i \in s
            THEN [attempt |-> jobs[i].attempts + 1, at |-> at[w],
                  valid |-> ValidAt(i, at[w]), step |-> "queued"]
            ELSE None]]
       /\ lanes' = [lanes EXCEPT ![w] = IF Cardinality(s) < SendConcurrency
                                        THEN Cardinality(s) ELSE SendConcurrency]
       /\ stage' = [stage EXCEPT ![w] = IF s = {} THEN "releasing" ELSE "running"]
       /\ at' = [at EXCEPT ![w] = 0]
  /\ UNCHANGED <<now, tokens, issued, superseded, lease, late, outside>>

\* The claim fails before it reaches the database: the batch rejects.
ClaimFails(w) ==
  /\ stage[w] = "admitted"
  /\ stage' = [stage EXCEPT ![w] = "releasing"]
  /\ at' = [at EXCEPT ![w] = 0]
  /\ UNCHANGED <<now, rows, lease, lanes, claim, late, outside>>

Step(w, i, step) == claim[w][i] # None /\ claim[w][i].step = step
Active(w) == {i \in Issues : claim[w][i] # None /\ claim[w][i].step # "queued"}

Becomes(w, i, step) == claim' = [claim EXCEPT ![w][i].step = step]

\* A live lane takes the next job of the batch.
TakeNext(w, i) ==
  /\ Step(w, i, "queued")
  /\ Cardinality(Active(w)) < lanes[w]

\* processJob on a job whose token is invalid goes straight to failJob.
RejectToken(w, i) ==
  /\ TakeNext(w, i)
  /\ ~claim[w][i].valid
  /\ Becomes(w, i, "failing")
  /\ UNCHANGED <<now, rows, stage, lease, at, lanes, late, outside>>

\* processJob calls the provider.
StartSend(w, i) ==
  /\ TakeNext(w, i)
  /\ claim[w][i].valid
  /\ Becomes(w, i, "sending")
  /\ calls' = [calls EXCEPT ![i] = @ + 1]
  /\ UNCHANGED <<now, rows, stage, lease, at, lanes, late, delivered>>

\* The provider accepts the message, once per idempotency key, and says so.
SendAccepted(w, i) ==
  /\ Step(w, i, "sending")
  /\ delivered' = delivered \cup {i}
  /\ Becomes(w, i, "marking")
  /\ UNCHANGED <<now, rows, stage, lease, at, lanes, late, calls>>

\* Mutant: the lane tries again by itself, whatever the row's attempts say.
AfterRetryableErrorAtOnce(w, i) == Becomes(w, i, "queued")

\* What the catch block does with a retryable error.
AfterRetryableError(w, i) ==
  Becomes(w, i, IF claim[w][i].attempt >= MaxAttempts THEN "failing"
                                                       ELSE "retrying")

\* Timeout, 429, 5xx, an unreadable success or a concurrent request: the
\* message may have been accepted all the same.
SendUnclear(w, i) ==
  /\ Step(w, i, "sending")
  /\ delivered' \in {delivered, delivered \cup {i}}
  /\ AfterRetryableError(w, i)
  /\ UNCHANGED <<now, rows, stage, lease, at, lanes, late, calls>>

\* Any other status: the provider refuses the message for good.
SendRejected(w, i) ==
  /\ Step(w, i, "sending")
  /\ Becomes(w, i, "failing")
  /\ UNCHANGED <<now, rows, stage, lease, at, lanes, late, outside>>

-----------------------------------------------------------------------------
(* Recording the outcome.                                                   *)

\* Mutant: the outcome statements name the job but not the lease.
FenceIdOnly(st) == Present(st.id)

\* id = ... and leased_until = ...
Fence(st) == Present(st.id) /\ jobs[st.id].until = st.until

Outcome(w, i, op) ==
  LET c == claim[w][i]
  IN  [op |-> op, id |-> i, until |-> LeaseEnd(c.at), at |-> c.at,
       available |-> IF op = "retry" THEN c.at + RetryDelay[c.attempt] ELSE 0,
       attempt |-> c.attempt]

\* Mutant: a failed delivery is due again at once.
AppliedNoBackoff(st, row) ==
  CASE st.op = "mark"  -> [row EXCEPT !.sent = st.at, !.until = 0, !.updated = st.at]
    [] st.op = "retry" -> [row EXCEPT !.available = st.at, !.until = 0,
                                      !.updated = st.at]
    [] st.op = "fail"  -> [row EXCEPT !.attempts = MaxAttempts, !.until = 0,
                                      !.updated = st.at]

\* markEmailJobSent, retryEmailJob and failEmailJob on the row they match.
Applied(st, row) ==
  CASE st.op = "mark"  -> [row EXCEPT !.sent = st.at, !.until = 0, !.updated = st.at]
    [] st.op = "retry" -> [row EXCEPT !.available = st.available, !.until = 0,
                                      !.updated = st.at]
    [] st.op = "fail"  -> [row EXCEPT !.attempts = MaxAttempts, !.until = 0,
                                      !.updated = st.at]

Apply(st) == jobs' = IF Fence(st) THEN [jobs EXCEPT ![st.id] = Applied(st, @)]
                                  ELSE jobs

\* The lanes end with the last job; n of them are alive until then.
LanesLeft(w, n) ==
  lanes' = [lanes EXCEPT ![w] = IF claim'[w] = NoClaims THEN 0 ELSE n]

\* The batch of w settles when this leaves it no job, or when it rejects.
Settle(w, rejects) ==
  stage' = [stage EXCEPT ![w] =
    IF @ = "running" /\ (rejects \/ claim'[w] = NoClaims) THEN "releasing" ELSE @]

\* The lane is done with job i.
LaneDone(w, i) ==
  /\ claim' = [claim EXCEPT ![w][i] = None]
  /\ LanesLeft(w, lanes[w])
  /\ Settle(w, FALSE)

StepOf(op) == CASE op = "mark" -> "marking" [] op = "retry" -> "retrying"
                [] op = "fail" -> "failing"

Record(w, i, op) ==
  /\ Step(w, i, StepOf(op))
  /\ Apply(Outcome(w, i, op))
  /\ LaneDone(w, i)
  /\ UNCHANGED <<now, tokens, issued, superseded, lease, at, late, outside>>

\* The statement fails for the lane; the server may still apply it later.
\* A failed mark is caught and handled like a failed delivery.
MarkFails(w, i) ==
  /\ Step(w, i, "marking")
  /\ late' \in {late, late \cup {Outcome(w, i, "mark")}}
  /\ AfterRetryableError(w, i)
  /\ UNCHANGED <<now, rows, stage, lease, at, lanes, outside>>

\* A failed retry or fail statement is not caught: its lane dies, Promise.all
\* rejects the batch at once, and the other lanes go on by themselves.  When
\* the last lane dies nobody is left to take the queued jobs.
LaneDies(w, i, op) ==
  /\ op \in {"retry", "fail"}
  /\ Step(w, i, StepOf(op))
  /\ late' \in {late, late \cup {Outcome(w, i, op)}}
  /\ claim' = [claim EXCEPT ![w] =
                 IF lanes[w] = 1 THEN NoClaims ELSE [@ EXCEPT ![i] = None]]
  /\ LanesLeft(w, lanes[w] - 1)
  /\ Settle(w, TRUE)
  /\ UNCHANGED <<now, rows, lease, at, outside>>

\* The server gets to a statement nobody waits for, or never does.
ApplyLate(st) ==
  /\ Apply(st)
  /\ late' = late \ {st}
  /\ UNCHANGED <<now, tokens, issued, superseded, batch, outside>>

LoseLate(st) ==
  /\ late' = late \ {st}
  /\ UNCHANGED <<now, rows, batch, outside>>

-----------------------------------------------------------------------------
\* The finally block of runAdmittedBatch.
Release(w) ==
  /\ stage[w] = "releasing"
  /\ lease' = [lease EXCEPT ![w] = FALSE]
  /\ stage' = [stage EXCEPT ![w] = "idle"]
  /\ UNCHANGED <<now, rows, at, lanes, claim, late, outside>>

\* SIGTERM: the lanes finish the job they are on and take no other; a batch
\* with no job in flight settles.
Shutdown(w) ==
  /\ \E i \in Issues : Step(w, i, "queued")
  /\ claim' = [claim EXCEPT ![w] =
                 [i \in Issues |-> IF i \in Active(w) THEN claim[w][i] ELSE None]]
  /\ LanesLeft(w, lanes[w])
  /\ Settle(w, FALSE)
  /\ UNCHANGED <<now, rows, lease, at, late, outside>>

\* The process is killed; statements it had sent may still be applied, and a
\* claim it had sent leaves its jobs leased.
Crash(w) ==
  /\ ~Idle(w)
  /\ \E sent \in SUBSET {Outcome(w, i, op) : i \in Active(w),
                                             op \in {"mark", "retry", "fail"}} :
       /\ \A st \in sent : Step(w, st.id, StepOf(st.op))
       /\ late' = late \cup sent
  /\ claim' = [claim EXCEPT ![w] = NoClaims]
  /\ stage' = [stage EXCEPT ![w] = "idle"]
  /\ lease' = [lease EXCEPT ![w] = FALSE]
  /\ at' = [at EXCEPT ![w] = 0]
  /\ lanes' = [lanes EXCEPT ![w] = 0]
  /\ UNCHANGED <<now, rows, outside>>

\* Tokens long expired or consumed.
StaleToken(i, t) ==
  /\ tokens[i] # None
  /\ \/ tokens[i].expires + Retention <= t
     \/ tokens[i].consumed # 0 /\ tokens[i].consumed + Retention <= t

\* Mutant: old jobs count as settled whatever their attempts.
SettledIfOld(i, t) == Present(i) /\ jobs[i].updated + Retention <= t

\* Jobs long sent or exhausted.
Settled(i, t) ==
  /\ Present(i)
  /\ \/ jobs[i].sent # 0 /\ jobs[i].sent + Retention <= t
     \/ jobs[i].attempts >= MaxAttempts /\ jobs[i].updated + Retention <= t

\* cleanupExpired, one transaction; the jobs of deleted tokens go with them.
Cleanup(t) ==
  /\ \E i \in Issues : StaleToken(i, t) \/ Settled(i, t)
  /\ tokens' = [i \in Issues |-> IF StaleToken(i, t) THEN None ELSE tokens[i]]
  /\ jobs' = [i \in Issues |-> IF StaleToken(i, t) \/ Settled(i, t)
                               THEN None ELSE jobs[i]]
  /\ UNCHANGED <<now, issued, superseded, batch, late, outside>>

-----------------------------------------------------------------------------
LaneNext(w, i) ==
  \/ RejectToken(w, i)
  \/ StartSend(w, i)
  \/ SendAccepted(w, i)
  \/ SendUnclear(w, i)
  \/ SendRejected(w, i)
  \/ \E op \in {"mark", "retry", "fail"} : Record(w, i, op) \/ LaneDies(w, i, op)
  \/ MarkFails(w, i)

WorkerNext(w) ==
  \/ Admit(w)
  \/ ClaimJobs(w)
  \/ ClaimFails(w)
  \/ \E i \in Issues : LaneNext(w, i)
  \/ Release(w)
  \/ Shutdown(w)
  \/ Crash(w)

ApiNext(i) == Consume(i) \/ \E s \in Subjects : Issue(i, s)

Next ==
  \/ Tick
  \/ \E i \in Issues : ApiNext(i)
  \/ \E w \in Workers : WorkerNext(w)
  \/ \E st \in late : ApplyLate(st) \/ LoseLate(st)
  \/ \E t \in Reading : Cleanup(t)

Spec == Init /\ [][Next]_vars

\* Time goes on; the loop (or the minute trigger) starts batches, an admitted
\* batch is not always killed before its claim reaches the database, a send
\* ends by its 10 s timeout, and a worker that is not killed goes on.
WorkFairness ==
  /\ WF_vars(Tick)
  /\ \A w \in Workers :
       /\ WF_vars(Admit(w))
       /\ SF_vars(ClaimJobs(w))
       /\ WF_vars(Release(w))
       /\ \A i \in Issues : WF_vars(LaneNext(w, i))

FairSpec == Spec /\ WorkFairness

-----------------------------------------------------------------------------
(* What the outbox promises.                                                *)

TypeOK ==
  /\ now \in Nat \ {0}
  /\ tokens \in [Issues -> Token \cup {None}]
  /\ jobs \in [Issues -> Job \cup {None}]
  /\ issued \subseteq Issues /\ superseded \subseteq issued
  /\ stage \in [Workers -> {"idle", "admitted", "running", "releasing"}]
  /\ lease \in [Workers -> BOOLEAN]
  /\ at \in [Workers -> Nat]
  /\ lanes \in [Workers -> Nat]
  /\ claim \in [Workers -> [Issues -> Claim \cup {None}]]
  /\ late \subseteq Statement
  /\ delivered \subseteq issued
  /\ calls \in [Issues -> Nat]

\* The outcome statements identify a claim by the job's id and the time its
\* lease ends.  Two claims of one job never get the same end, whatever the
\* workers' clocks read and however late a statement arrives: a lane or a late
\* statement whose fence matches belongs to the job's current attempt.
FenceIdentifiesClaim ==
  \A i \in Issues : Present(i) =>
    /\ \A w \in Workers :
         claim[w][i] # None /\ jobs[i].until = LeaseEnd(claim[w][i].at) =>
           claim[w][i].attempt = jobs[i].attempts
    /\ \A st \in late :
         st.id = i /\ Fence(st) => st.attempt = jobs[i].attempts

\* Takeovers, crashes, retries and lost replies together call the provider at
\* most MAX_ATTEMPTS times for one job.
ProviderCallsBounded == \A i \in Issues : calls[i] <= MaxAttempts

\* A job is handed to a second worker while the first still works on it only
\* if the first one's lease has run out on the second one's clock.
OneSenderPerLease ==
  \A v, w \in Workers, i \in Issues :
    i \in Active(v) /\ i \in Active(w) /\ claim[v][i].attempt < claim[w][i].attempt
      => LeaseEnd(claim[v][i].at) <= claim[w][i].at

\* A job recorded as sent stays exactly as recorded until cleanup: the retry
\* that follows a lost reply to its own mark, late statements and stale
\* workers all miss it.
SentIsFinal ==
  [][\A i \in Issues : Present(i) /\ ~Unsent(i) => jobs'[i] \in {jobs[i], None}]_jobs

\* An unsent email disappears only when it can no longer be of use: its token
\* is superseded, consumed or expired, or its attempts are used up.
VanishingIsHarmless ==
  \A i \in Issues : Unsent(i) /\ jobs'[i] = None =>
    \/ i \in superseded'
    \/ jobs[i].attempts = MaxAttempts
    \/ tokens[i].consumed # 0
    \/ tokens[i].expires <= now + Skew
OnlyDeadMailVanishes == [][VanishingIsHarmless]_jobs

\* Once a newer link is requested, no batch picks up the older one, even one
\* whose job had been claimed, retried or abandoned before.
NewClaim(w, i) == claim[w][i] = None /\ claim'[w][i] # None
SupersededStaysQuiet ==
  [][\A w \in Workers, i \in Issues : NewClaim(w, i) => i \notin superseded]_claim

\* Every queued email is settled: sent, given up after its attempts, or
\* removed; crashes and lost statements cannot leave it pending for ever.
EveryJobSettles ==
  \A i \in Issues :
    Unsent(i) ~> ~Present(i) \/ ~Unsent(i) \/ jobs[i].attempts = MaxAttempts

\* "Closing the gate waits for already admitted email sends": an email is
\* being sent only under its batch's release lease.
SendsAreAdmitted ==
  \A w \in Workers : (\E i \in Issues : Step(w, i, "sending")) => lease[w]
=============================================================================
