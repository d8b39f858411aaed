------------------------- MODULE EmailOutboxProofs -------------------------
(***************************************************************************)
(* Proofs about EmailOutbox, for any number of issues, workers and         *)
(* attempts and any clock skew.                                            *)
(***************************************************************************)
EXTENDS EmailOutbox, FiniteSetTheorems, TLAPS

-----------------------------------------------------------------------------
(* Lemmas about the helpers.                                                *)

\* A clock never reads zero.
LEMMA ReadingPositive == ASSUME TypeOK, NEW t \in Reading PROVE t \in Nat \ {0}
  BY OutboxAssumption DEF TypeOK, Reading

\* What moving one claimed job to another step changes.
LEMMA BecomesFacts ==
  ASSUME TypeOK, NEW w \in Workers, NEW i \in Issues, claim[w][i] # None,
         NEW step \in {"queued", "sending", "marking", "retrying", "failing"},
         Becomes(w, i, step)
  PROVE  /\ claim' \in [Workers -> [Issues -> Claim \cup {None}]]
         /\ \A v \in Workers, j \in Issues :
              /\ claim'[v][j] = None <=> claim[v][j] = None
              /\ claim[v][j] # None => /\ claim'[v][j].attempt = claim[v][j].attempt
                                       /\ claim'[v][j].at = claim[v][j].at
<1> DEFINE c == [claim[w][i] EXCEPT !.step = step]
<1>1. claim[w][i] \in Claim
  BY DEF TypeOK
<1>2. c \in Claim /\ c.attempt = claim[w][i].attempt /\ c.at = claim[w][i].at
  BY <1>1 DEF Claim
<1>3. claim' = [claim EXCEPT ![w] = [claim[w] EXCEPT ![i] = c]]
  BY DEF TypeOK, Becomes
<1>4. c # None
  BY <1>2, OutboxAssumption
<1> HIDE DEF c
<1>5. QED BY <1>2, <1>3, <1>4 DEF TypeOK

\* The statement a lane sends carries its claim's lease.
LEMMA OutcomeFacts ==
  ASSUME TypeOK, NEW w \in Workers, NEW i \in Issues, claim[w][i] # None,
         NEW op \in {"mark", "retry", "fail"}
  PROVE  /\ Outcome(w, i, op) \in Statement
         /\ Outcome(w, i, op).op = op
         /\ Outcome(w, i, op).id = i
         /\ Outcome(w, i, op).attempt = claim[w][i].attempt
         /\ Outcome(w, i, op).at = claim[w][i].at
         /\ Outcome(w, i, op).until = LeaseEnd(claim[w][i].at)
         /\ op = "retry" => Outcome(w, i, op).available > claim[w][i].at
  BY OutboxAssumption DEF TypeOK, Outcome, Statement, Claim, LeaseEnd

\* A job row stays one whatever legal number of attempts it is given.
LEMMA RowWithAttempts ==
  ASSUME NEW row \in Job, NEW n \in 0..MaxAttempts, NEW t \in Nat
  PROVE  [row EXCEPT !.attempts = n, !.until = 0, !.updated = t] \in Job
  BY DEF Job

LEMMA RowExhausted ==
  ASSUME NEW row \in Job, NEW t \in Nat
  PROVE  [row EXCEPT !.attempts = MaxAttempts, !.until = 0, !.updated = t] \in Job
<1>1. PICK n \in 0..MaxAttempts : n = MaxAttempts
  BY OutboxAssumption
<1>2. [row EXCEPT !.attempts = n, !.until = 0, !.updated = t] \in Job
  BY RowWithAttempts
<1>3. QED BY <1>1, <1>2

\* Applying a statement changes at most the row it matches, within its type.
LEMMA ApplyFacts ==
  ASSUME TypeOK, NEW st \in Statement, Apply(st)
  PROVE  /\ jobs' \in [Issues -> Job \cup {None}]
         /\ \A i \in Issues :
              jobs'[i] = IF i = st.id /\ Fence(st) THEN Applied(st, jobs[i])
                                                   ELSE jobs[i]
         /\ Fence(st) => jobs'[st.id] \in Job /\ jobs'[st.id] # None
<1>1. CASE ~Fence(st)
  BY <1>1 DEF TypeOK, Apply
<1>2. CASE Fence(st)
  <2>1. st.id \in Issues /\ jobs[st.id] \in Job
    BY <1>2 DEF TypeOK, Fence, Present, Statement
  <2>2. Applied(st, jobs[st.id]) \in Job
    <3>1. CASE st.op = "mark"
      BY <2>1, <3>1, OutboxAssumption DEF Applied, Statement, Job
    <3>2. CASE st.op = "retry"
      BY <2>1, <3>2, OutboxAssumption DEF Applied, Statement, Job
    <3>3. CASE st.op = "fail"
      <4>1. Applied(st, jobs[st.id])
              = [jobs[st.id] EXCEPT !.attempts = MaxAttempts, !.until = 0,
                                    !.updated = st.at]
        BY <3>3 DEF Applied
      <4>2. st.at \in Nat
        BY DEF Statement
      <4>3. QED BY <2>1, <4>1, <4>2, RowExhausted
    <3>4. QED BY <3>1, <3>2, <3>3 DEF Statement
  <2>3. Applied(st, jobs[st.id]) # None
    BY <2>2, OutboxAssumption
  <2>4. QED BY <1>2, <2>1, <2>2, <2>3 DEF TypeOK, Apply
<1>3. QED BY <1>1, <1>2

-----------------------------------------------------------------------------
(* Type correctness.                                                        *)

\* What TypeOK leaves out and its preservation needs: nothing exists of an
\* issue before it is made, and an admitted batch has read its clock.
Fresh ==
  \A i \in Issues \ issued :
    /\ tokens[i] = None /\ jobs[i] = None
    /\ \A w \in Workers : claim[w][i] = None
    /\ \A st \in late : st.id # i

Admitted ==
  \A w \in Workers : stage[w] = "admitted" => at[w] # 0 /\ claim[w] = NoClaims

\* A statement nobody waits for is as its lane sent it.
LateOK ==
  \A st \in late : /\ st.until = LeaseEnd(st.at)
                   /\ st.op = "retry" => st.available > st.at

\* As long as a batch has jobs, one of its lanes is alive.
LanesAlive ==
  \A w \in Workers : claim[w] # NoClaims => lanes[w] # 0

Base == TypeOK /\ Fresh /\ Admitted /\ LateOK /\ LanesAlive

\* The base invariant holds initially.
LEMMA BaseInit == Init => Base
  BY OutboxAssumption DEF Init, Base, TypeOK, Fresh, Admitted, LateOK, LanesAlive, NoClaims

\* The API's two transactions.
LEMMA ApiBase ==
  ASSUME Base, NEW i \in Issues, ApiNext(i) PROVE Base'
<1>1. CASE Consume(i)
  <2>1. PICK t \in Reading : /\ tokens[i].consumed = 0 /\ tokens[i].expires > t
                             /\ tokens' = [tokens EXCEPT ![i].consumed = t]
    BY <1>1 DEF Consume
  <2>2. t \in Nat /\ tokens[i] \in Token
    BY <1>1, ReadingPositive DEF Base, TypeOK, Consume
  <2>3. tokens' \in [Issues -> Token \cup {None}]
    BY <2>1, <2>2 DEF Base, TypeOK, Token
  <2>4. \A j \in Issues \ issued : tokens'[j] = None
    BY <1>1, <2>1 DEF Base, Fresh, TypeOK, Consume
  <2>5. QED BY <1>1, <2>3, <2>4
       DEF Base, TypeOK, Fresh, Admitted, LateOK, LanesAlive, Consume, batch, outside
<1>2. ASSUME NEW s \in Subjects, Issue(i, s) PROVE Base'
  <2>1. PICK t \in Reading :
       /\ tokens' = [j \in Issues |->
            IF j = i THEN [subject |-> s, expires |-> t + TokenLife, consumed |-> 0]
            ELSE IF j \in Live(s) THEN [tokens[j] EXCEPT !.consumed = t]
            ELSE tokens[j]]
       /\ jobs' = [WithoutJobsOf(s) EXCEPT ![i] =
            [available |-> t, until |-> 0, attempts |-> 0, sent |-> 0,
             updated |-> t]]
    BY <1>2 DEF Issue
  <2>2. t \in Nat
    BY ReadingPositive DEF Base
  <2>3. \A j \in Live(s) : j \in issued /\ tokens[j] \in Token
    BY DEF Live, Base, TypeOK, Fresh
  <2>4. tokens' \in [Issues -> Token \cup {None}]
    <3>1. t + TokenLife \in Nat
      BY <2>2, OutboxAssumption
    <3>2. [subject |-> s, expires |-> t + TokenLife, consumed |-> 0] \in Token
      BY <3>1 DEF Token
    <3>3. \A j \in Live(s) : [tokens[j] EXCEPT !.consumed = t] \in Token
      BY <2>2, <2>3 DEF Token
    <3>4. tokens \in [Issues -> Token \cup {None}]
      BY DEF Base, TypeOK
    <3>5. QED BY <2>1, <3>2, <3>3, <3>4
  <2>5. jobs' \in [Issues -> Job \cup {None}]
    <3>1. 0 \in 0..MaxAttempts
      BY OutboxAssumption
    <3>2. QED BY <2>1, <2>2, <3>1 DEF Base, TypeOK, Job, WithoutJobsOf
  <2>6. superseded' \subseteq issued'
    BY <1>2, <2>3 DEF Issue, Base, TypeOK
  <2>7. \A j \in Issues \ issued' : tokens'[j] = None /\ jobs'[j] = None
    BY <1>2, <2>1, <2>3 DEF Issue, WithoutJobsOf, Base, Fresh, TypeOK
  <2>8. QED BY <1>2, <2>4, <2>5, <2>6, <2>7
       DEF Base, TypeOK, Fresh, Admitted, LateOK, LanesAlive, Issue, batch, outside
<1>3. QED BY <1>1, <1>2 DEF ApiNext

\* Lanes are counted in Nat, and none is left only when no job is.
LEMMA LanesLeftFacts ==
  ASSUME TypeOK, NEW w \in Workers, NEW n \in Nat, LanesLeft(w, n)
  PROVE  /\ lanes' \in [Workers -> Nat]
         /\ \A v \in Workers : v # w => lanes'[v] = lanes[v]
         /\ claim'[w] # NoClaims => lanes'[w] = n
  BY DEF TypeOK, LanesLeft

\* A batch that settles is on its way to release its lease.
LEMMA SettleFacts ==
  ASSUME TypeOK, NEW w \in Workers, NEW rejects \in BOOLEAN, Settle(w, rejects)
  PROVE  /\ stage' \in [Workers -> {"idle", "admitted", "running", "releasing"}]
         /\ \A v \in Workers : stage'[v] = "admitted" <=> stage[v] = "admitted"
  BY DEF TypeOK, Settle

\* A claim that is gone leaves the other claims alone.
LEMMA DropFacts ==
  ASSUME TypeOK, NEW w \in Workers, NEW i \in Issues,
         claim' = [claim EXCEPT ![w][i] = None]
  PROVE  /\ claim' \in [Workers -> [Issues -> Claim \cup {None}]]
         /\ \A v \in Workers, j \in Issues :
              claim'[v][j] = IF v = w /\ j = i THEN None ELSE claim[v][j]
  BY DEF TypeOK

\* A worker with a claim of an issue: the issue was made, the batch is past
\* its admission.
LEMMA ClaimedFacts ==
  ASSUME Base, NEW w \in Workers, NEW i \in Issues, claim[w][i] # None
  PROVE  i \in issued /\ stage[w] # "admitted" /\ claim[w][i] \in Claim
  BY DEF Base, TypeOK, Fresh, Admitted, NoClaims

\* The steps of a lane.
LEMMA LaneBase ==
  ASSUME Base, NEW w \in Workers, NEW i \in Issues, LaneNext(w, i) PROVE Base'
<1> SUFFICES ASSUME claim[w][i] # None PROVE Base'
  BY DEF LaneNext, RejectToken, StartSend, TakeNext, SendAccepted, SendUnclear,
         SendRejected, Record, LaneDies, MarkFails, Step
<1>0. i \in issued /\ stage[w] # "admitted"
  BY ClaimedFacts
<1>1. ASSUME NEW step \in {"queued", "sending", "marking", "retrying", "failing"},
             Becomes(w, i, step),
             UNCHANGED <<now, rows, stage, lease, at, lanes>>,
             late' \subseteq late \cup {Outcome(w, i, "mark")},
             delivered' \subseteq issued, calls' \in [Issues -> Nat]
      PROVE  Base'
  <2>1. /\ claim' \in [Workers -> [Issues -> Claim \cup {None}]]
        /\ \A v \in Workers, j \in Issues : claim'[v][j] = None <=> claim[v][j] = None
    BY <1>1, BecomesFacts DEF Base
  <2>2. Outcome(w, i, "mark") \in Statement
        /\ Outcome(w, i, "mark").id = i
        /\ Outcome(w, i, "mark").op = "mark"
        /\ Outcome(w, i, "mark").until = LeaseEnd(Outcome(w, i, "mark").at)
    BY OutcomeFacts DEF Base
  <2>3. TypeOK'
    BY <1>1, <2>1, <2>2 DEF Base, TypeOK, rows
  <2>4. Fresh'
    BY <1>0, <1>1, <2>1, <2>2 DEF Base, Fresh, rows
  <2>5. Admitted'
    <3>1. \A v \in Workers : stage[v] = "admitted" => claim'[v] = claim[v]
      BY <1>0, <1>1 DEF Becomes, Base, TypeOK
    <3>2. QED BY <1>1, <3>1 DEF Base, Admitted
  <2>6. LateOK'
    BY <1>1, <2>2 DEF Base, LateOK
  <2>7. LanesAlive'
    <3>1. \A v \in Workers : v # w => claim'[v] = claim[v]
      BY <1>1 DEF Becomes, Base, TypeOK
    <3>2. claim[w] # NoClaims
      BY DEF NoClaims
    <3>3. QED BY <1>1, <3>1, <3>2 DEF Base, LanesAlive, NoClaims
  <2>8. QED BY <2>3, <2>4, <2>5, <2>6, <2>7 DEF Base
<1>2. CASE RejectToken(w, i)
  BY <1>1, <1>2 DEF RejectToken, outside, Base, TypeOK
<1>3. CASE StartSend(w, i)
  <2>1. calls' \in [Issues -> Nat]
    BY <1>3 DEF StartSend, Base, TypeOK
  <2>2. QED BY <1>1, <1>3, <2>1 DEF StartSend, Base, TypeOK
<1>4. CASE SendAccepted(w, i)
  BY <1>0, <1>1, <1>4 DEF SendAccepted, Base, TypeOK
<1>5. CASE SendUnclear(w, i)
  BY <1>0, <1>1, <1>5 DEF SendUnclear, AfterRetryableError, Base, TypeOK
<1>6. CASE SendRejected(w, i)
  BY <1>1, <1>6 DEF SendRejected, outside, Base, TypeOK
<1>7. CASE MarkFails(w, i)
  BY <1>1, <1>7 DEF MarkFails, AfterRetryableError, outside, Base, TypeOK
<1>8. ASSUME NEW op \in {"mark", "retry", "fail"}, Record(w, i, op) PROVE Base'
  <2>1. Outcome(w, i, op) \in Statement /\ Outcome(w, i, op).id = i
    BY OutcomeFacts DEF Base
  <2>2. jobs' \in [Issues -> Job \cup {None}]
        /\ \A j \in Issues : j # i => jobs'[j] = jobs[j]
    BY <1>8, <2>1, ApplyFacts DEF Record, Base
  <2>3. /\ claim' \in [Workers -> [Issues -> Claim \cup {None}]]
        /\ \A v \in Workers, j \in Issues :
             claim'[v][j] = IF v = w /\ j = i THEN None ELSE claim[v][j]
    <3>1. claim' = [claim EXCEPT ![w][i] = None]
      BY <1>8 DEF Record, LaneDone
    <3>2. claim \in [Workers -> [Issues -> Claim \cup {None}]]
      BY DEF Base, TypeOK
    <3>3. QED BY <3>1, <3>2
  <2>4. /\ lanes' \in [Workers -> Nat]
        /\ \A v \in Workers : v # w => lanes'[v] = lanes[v]
        /\ claim'[w] # NoClaims => lanes'[w] = lanes[w]
    BY <1>8, LanesLeftFacts DEF Record, LaneDone, Base, TypeOK
  <2>5. /\ stage' \in [Workers -> {"idle", "admitted", "running", "releasing"}]
        /\ \A v \in Workers : stage'[v] = "admitted" <=> stage[v] = "admitted"
    BY <1>8, SettleFacts DEF Record, LaneDone, Base
  <2>6. TypeOK'
    <3>1. UNCHANGED <<now, tokens, issued, superseded, lease, at, late, outside>>
      BY <1>8 DEF Record
    <3>2. QED BY <2>2, <2>3, <2>4, <2>5, <3>1 DEF outside, Base, TypeOK
  <2>7. Fresh'
    BY <1>0, <1>8, <2>2, <2>3 DEF Record, Base, Fresh
  <2>8. Admitted'
    <3>1. \A v \in Workers : stage[v] = "admitted" => claim'[v] = claim[v]
      BY <1>0, <1>8 DEF Record, LaneDone, Base, TypeOK
    <3>2. QED BY <1>8, <2>5, <3>1 DEF Record, Base, Admitted
  <2>9. LanesAlive'
    <3>1. \A v \in Workers : v # w => claim'[v] = claim[v]
      BY <1>8 DEF Record, LaneDone, Base, TypeOK
    <3>2. claim[w] # NoClaims
      BY DEF NoClaims
    <3>3. QED BY <2>4, <3>1, <3>2 DEF Base, LanesAlive, NoClaims
  <2>10. QED BY <1>8, <2>6, <2>7, <2>8, <2>9 DEF Record, Base, LateOK
<1>9. ASSUME NEW op \in {"mark", "retry", "fail"}, LaneDies(w, i, op) PROVE Base'
  <2>1. /\ Outcome(w, i, op) \in Statement /\ Outcome(w, i, op).id = i
        /\ Outcome(w, i, op).until = LeaseEnd(Outcome(w, i, op).at)
        /\ op = "retry" => Outcome(w, i, op).available > Outcome(w, i, op).at
        /\ Outcome(w, i, op).op = op
    BY OutcomeFacts DEF Base
  <2>2. late' \subseteq late \cup {Outcome(w, i, op)}
    BY <1>9 DEF LaneDies
  <2>3. claim' \in [Workers -> [Issues -> Claim \cup {None}]]
    BY <1>9 DEF LaneDies, NoClaims, Base, TypeOK
  <2>4. \A v \in Workers, j \in Issues : claim'[v][j] # None => claim'[v][j] = claim[v][j]
    BY <1>9 DEF LaneDies, NoClaims, Base, TypeOK
  <2>5. /\ lanes' \in [Workers -> Nat]
        /\ \A v \in Workers : v # w => lanes'[v] = lanes[v]
        /\ claim'[w] # NoClaims => lanes'[w] = lanes[w] - 1
    <3>1. lanes[w] - 1 \in Nat
      BY DEF Base, LanesAlive, NoClaims, TypeOK
    <3>2. QED BY <1>9, <3>1, LanesLeftFacts DEF LaneDies, Base
  <2>6. /\ stage' \in [Workers -> {"idle", "admitted", "running", "releasing"}]
        /\ \A v \in Workers : stage'[v] = "admitted" <=> stage[v] = "admitted"
    BY <1>9, SettleFacts DEF LaneDies, Base
  <2>7. TypeOK'
    BY <1>9, <2>1, <2>2, <2>3, <2>5, <2>6 DEF LaneDies, rows, outside, Base, TypeOK
  <2>8. Fresh'
    BY <1>0, <1>9, <2>1, <2>2, <2>4 DEF LaneDies, rows, Base, Fresh
  <2>9. Admitted'
    <3>1. \A v \in Workers : stage[v] = "admitted" => claim'[v] = claim[v]
      BY <1>0, <1>9 DEF LaneDies, Base, TypeOK
    <3>2. QED BY <1>9, <2>6, <3>1 DEF LaneDies, Base, Admitted
  <2>10. LateOK'
    BY <2>1, <2>2 DEF Base, LateOK
  <2>11. LanesAlive'
    <3>1. \A v \in Workers : v # w => claim'[v] = claim[v]
      BY <1>9 DEF LaneDies, Base, TypeOK
    <3>2. lanes[w] \in Nat /\ lanes[w] # 0
      BY DEF Base, LanesAlive, NoClaims, TypeOK
    <3>3. claim'[w] # NoClaims => lanes[w] # 1
      BY <1>9 DEF LaneDies, Base, TypeOK
    <3>4. QED BY <2>5, <3>1, <3>2, <3>3 DEF Base, LanesAlive, NoClaims
  <2>12. QED BY <2>7, <2>8, <2>9, <2>10, <2>11 DEF Base
<1>10. QED BY <1>2, <1>3, <1>4, <1>5, <1>6, <1>7, <1>8, <1>9 DEF LaneNext

\* The jobs a claim may take are some of those that are due.
LEMMA FirstDueSubset ==
  ASSUME NEW due, NEW s \in FirstDue(due) PROVE s \subseteq due
  BY DEF FirstDue

\* A set of issues that is not empty has a positive number of members.
LEMMA IssuesCount ==
  ASSUME NEW s \in SUBSET Issues
  PROVE  /\ Cardinality(s) \in Nat
         /\ s # {} => Cardinality(s) # 0
<1>1. IsFiniteSet(s)
  BY FS_Subset, OutboxAssumption
<1>2. QED BY <1>1, FS_CardinalityType, FS_EmptySet

\* What a claim of the jobs s does to the rows and to the worker's copies.
ClaimedRow(w, i) ==
  /\ jobs'[i].until = LeaseEnd(at[w])
  /\ jobs'[i].attempts = jobs[i].attempts + 1
  /\ jobs'[i].available = jobs[i].available
  /\ jobs'[i].sent = jobs[i].sent
  /\ jobs'[i] # None

ClaimedCopy(w, i) ==
  /\ claim'[w][i].attempt = jobs[i].attempts + 1
  /\ claim'[w][i].at = at[w]

ClaimMove(w, s) ==
  /\ at[w] \in Nat \ {0}
  /\ \A i \in s : Claimable(i, at[w]) /\ jobs[i].attempts + 1 \in 1..MaxAttempts
  /\ jobs' \in [Issues -> Job \cup {None}]
  /\ \A i \in s : ClaimedRow(w, i)
  /\ \A i \in Issues : i \notin s => jobs'[i] = jobs[i]
  /\ claim' \in [Workers -> [Issues -> Claim \cup {None}]]
  /\ \A v \in Workers : v # w => claim'[v] = claim[v]
  /\ \A i \in s : ClaimedCopy(w, i)
  /\ \A i \in Issues : i \notin s => claim'[w][i] = None
  /\ lanes' \in [Workers -> Nat]
  /\ \A v \in Workers : v # w => lanes'[v] = lanes[v]
  /\ s # {} => lanes'[w] # 0
  /\ stage' = [stage EXCEPT ![w] = IF s = {} THEN "releasing" ELSE "running"]

LEMMA ClaimFacts ==
  ASSUME Base, NEW w \in Workers, ClaimJobs(w)
  PROVE  \E s \in SUBSET Issues : ClaimMove(w, s)
<1> DEFINE due == {i \in Issues : Claimable(i, at[w])}
<1>1. PICK s \in FirstDue(due) :
       /\ jobs' = [i \in Issues |->
            IF i \in s
            THEN [jobs[i] EXCEPT !.until = LeaseEnd(at[w]),
                                 !.attempts = jobs[i].attempts + 1,
                                 !.updated = at[w]]
            ELSE jobs[i]]
       /\ claim' = [claim EXCEPT ![w] = [i \in Issues |->
            IF i \in s
            THEN [attempt |-> jobs[i].attempts + 1, at |-> at[w],
                  valid |-> ValidAt(i, at[w]), step |-> "queued"]
            ELSE None]]
       /\ lanes' = [lanes EXCEPT ![w] = IF Cardinality(s) < SendConcurrency
                                        THEN Cardinality(s) ELSE SendConcurrency]
       /\ stage' = [stage EXCEPT ![w] = IF s = {} THEN "releasing" ELSE "running"]
  BY DEF ClaimJobs
<1>2. s \subseteq due
  BY FirstDueSubset
<1>3. at[w] \in Nat \ {0} /\ LeaseEnd(at[w]) \in Nat
  <2>1. stage[w] = "admitted"
    BY DEF ClaimJobs
  <2>2. at[w] \in Nat /\ at[w] # 0
    BY <2>1 DEF Base, TypeOK, Admitted
  <2>3. QED BY <2>2, OutboxAssumption DEF LeaseEnd
<1>4. \A i \in s : jobs[i] \in Job /\ jobs[i].attempts + 1 \in 1..MaxAttempts
  BY <1>2, OutboxAssumption DEF Claimable, Unsent, Present, Base, TypeOK, Job
<1>5. \A i \in s : jobs'[i] \in Job /\ jobs'[i] # None
                   /\ jobs'[i].until = LeaseEnd(at[w])
                   /\ jobs'[i].attempts = jobs[i].attempts + 1
                   /\ jobs'[i].available = jobs[i].available
                   /\ jobs'[i].sent = jobs[i].sent
  <2> SUFFICES ASSUME NEW i \in s
               PROVE  jobs'[i] \in Job /\ jobs'[i] # None
                      /\ jobs'[i].until = LeaseEnd(at[w])
                      /\ jobs'[i].attempts = jobs[i].attempts + 1
                      /\ jobs'[i].available = jobs[i].available
                      /\ jobs'[i].sent = jobs[i].sent
    OBVIOUS
  <2>1. PICK n \in 0..MaxAttempts : n = jobs[i].attempts + 1
    BY <1>4, OutboxAssumption
  <2>2. jobs'[i] = [jobs[i] EXCEPT !.until = LeaseEnd(at[w]), !.attempts = n,
                                   !.updated = at[w]]
    BY <1>1, <1>2, <2>1
  <2>3. jobs'[i] \in Job
    BY <1>3, <1>4, <2>2 DEF Job
  <2>4. QED BY <1>4, <2>1, <2>2, <2>3, OutboxAssumption DEF Job
<1>6. \A i \in s : [attempt |-> jobs[i].attempts + 1, at |-> at[w],
                    valid |-> ValidAt(i, at[w]), step |-> "queued"] \in Claim
  <2>1. \A i \in s : ValidAt(i, at[w]) \in BOOLEAN
    BY DEF ValidAt
  <2>2. QED BY <1>3, <1>4, <2>1 DEF Claim
<1>7. claim' \in [Workers -> [Issues -> Claim \cup {None}]]
  BY <1>1, <1>6 DEF Base, TypeOK
<1>8. jobs' \in [Issues -> Job \cup {None}]
  BY <1>1, <1>5 DEF Base, TypeOK
<1>9. /\ lanes' \in [Workers -> Nat]
      /\ \A v \in Workers : v # w => lanes'[v] = lanes[v]
      /\ s # {} => lanes'[w] # 0
  <2>1. s \in SUBSET Issues
    BY <1>2
  <2>2. PICK n \in Nat : n = IF Cardinality(s) < SendConcurrency
                            THEN Cardinality(s) ELSE SendConcurrency
    BY <2>1, IssuesCount, OutboxAssumption
  <2>3. s # {} => n # 0
    BY <2>1, <2>2, IssuesCount, OutboxAssumption
  <2>4. lanes' = [lanes EXCEPT ![w] = n]
    BY <1>1, <2>2
  <2>5. QED BY <2>3, <2>4 DEF Base, TypeOK
<1>10. \A i \in Issues : i \notin s => jobs'[i] = jobs[i]
  BY <1>1
<1>11. /\ \A v \in Workers : v # w => claim'[v] = claim[v]
       /\ \A i \in s : ClaimedCopy(w, i)
       /\ \A i \in Issues : i \notin s => claim'[w][i] = None
  BY <1>1, <1>2 DEF Base, TypeOK, ClaimedCopy
<1>12. \A i \in s : Claimable(i, at[w]) /\ ClaimedRow(w, i)
  BY <1>2, <1>5 DEF ClaimedRow
<1>13. ClaimMove(w, s)
  BY <1>1, <1>3, <1>4, <1>7, <1>8, <1>9, <1>10, <1>11, <1>12 DEF ClaimMove
<1>14. QED BY <1>2, <1>13

\* The steps of a batch outside its lanes.
LEMMA BatchBase ==
  ASSUME Base, NEW w \in Workers,
         \/ Admit(w) \/ ClaimJobs(w) \/ ClaimFails(w)
         \/ Release(w) \/ Shutdown(w) \/ Crash(w)
  PROVE  Base'
<1>1. CASE Admit(w)
  <2>1. PICK t \in Reading : at' = [at EXCEPT ![w] = t]
    BY <1>1 DEF Admit
  <2>2. t \in Nat \ {0}
    BY ReadingPositive DEF Base
  <2>3. TypeOK'
    BY <1>1, <2>1, <2>2 DEF Admit, rows, outside, Base, TypeOK
  <2>4. Admitted'
    BY <1>1, <2>1, <2>2 DEF Admit, Idle, Base, TypeOK, Admitted
  <2>5. QED BY <1>1, <2>3, <2>4 DEF Admit, rows, Base, Fresh, LateOK, LanesAlive
<1>2. CASE ClaimJobs(w)
  <2>1. PICK s \in SUBSET Issues : ClaimMove(w, s)
    BY <1>2, ClaimFacts
  <2>2. at' = [at EXCEPT ![w] = 0]
        /\ UNCHANGED <<now, tokens, issued, superseded, lease, late, outside>>
    BY <1>2 DEF ClaimJobs
  <2>3. TypeOK'
    BY <2>1, <2>2 DEF ClaimMove, outside, Base, TypeOK
  <2>4. \A i \in s : i \in issued
    BY <2>1 DEF ClaimMove, Claimable, Unsent, Present, Base, Fresh
  <2>5. Fresh'
    BY <2>1, <2>2, <2>4 DEF ClaimMove, Base, Fresh
  <2>6. Admitted'
    BY <2>1, <2>2 DEF ClaimMove, Base, TypeOK, Admitted
  <2>7. s = {} => claim'[w] = NoClaims
    BY <2>1 DEF ClaimMove, NoClaims
  <2>8. LanesAlive'
    BY <2>1, <2>7 DEF ClaimMove, Base, LanesAlive, NoClaims
  <2>9. QED BY <2>2, <2>3, <2>5, <2>6, <2>8 DEF Base, LateOK
<1>3. CASE ClaimFails(w)
  BY <1>3 DEF ClaimFails, rows, outside, Base, TypeOK, Fresh, Admitted, LateOK,
              LanesAlive
<1>4. CASE Release(w)
  BY <1>4 DEF Release, rows, outside, Base, TypeOK, Fresh, Admitted, LateOK,
              LanesAlive
<1>5. CASE Shutdown(w)
  <2>1. /\ claim' \in [Workers -> [Issues -> Claim \cup {None}]]
        /\ \A v \in Workers : v # w => claim'[v] = claim[v]
        /\ \A i \in Issues : claim'[w][i] \in {claim[w][i], None}
    BY <1>5 DEF Shutdown, Base, TypeOK
  <2>2. claim[w] # NoClaims /\ stage[w] # "admitted"
    BY <1>5 DEF Shutdown, Step, NoClaims, Base, Admitted
  <2>3. /\ lanes' \in [Workers -> Nat]
        /\ \A v \in Workers : v # w => lanes'[v] = lanes[v]
        /\ claim'[w] # NoClaims => lanes'[w] = lanes[w]
    BY <1>5, LanesLeftFacts DEF Shutdown, Base, TypeOK
  <2>4. /\ stage' \in [Workers -> {"idle", "admitted", "running", "releasing"}]
        /\ \A v \in Workers : stage'[v] = "admitted" <=> stage[v] = "admitted"
    BY <1>5, SettleFacts DEF Shutdown, Base
  <2>5. TypeOK'
    BY <1>5, <2>1, <2>3, <2>4 DEF Shutdown, rows, outside, Base, TypeOK
  <2>6. Fresh'
    BY <1>5, <2>1 DEF Shutdown, rows, Base, Fresh
  <2>7. Admitted'
    BY <1>5, <2>1, <2>2, <2>4 DEF Shutdown, Base, Admitted
  <2>8. LanesAlive'
    BY <2>1, <2>2, <2>3 DEF Base, LanesAlive, NoClaims
  <2>9. QED BY <1>5, <2>5, <2>6, <2>7, <2>8 DEF Shutdown, Base, LateOK
<1>6. CASE Crash(w)
  <2>1. /\ claim' = [claim EXCEPT ![w] = NoClaims]
        /\ stage' = [stage EXCEPT ![w] = "idle"]
        /\ lease' = [lease EXCEPT ![w] = FALSE]
        /\ at' = [at EXCEPT ![w] = 0]
        /\ lanes' = [lanes EXCEPT ![w] = 0]
        /\ UNCHANGED <<now, rows, outside>>
    BY <1>6 DEF Crash
  <2>2. \A st \in late' : st \in late \/
          \E i \in Issues, op \in {"mark", "retry", "fail"} :
            claim[w][i] # None /\ st = Outcome(w, i, op)
    BY <1>6 DEF Crash, Active
  <2>3. \A st \in late' : /\ st \in Statement /\ st.id \in issued
                          /\ st.until = LeaseEnd(st.at)
                          /\ st.op = "retry" => st.available > st.at
    <3> SUFFICES ASSUME NEW st \in late', st \notin late
                 PROVE  /\ st \in Statement /\ st.id \in issued
                        /\ st.until = LeaseEnd(st.at)
                        /\ st.op = "retry" => st.available > st.at
      BY DEF Base, TypeOK, Fresh, LateOK, Statement
    <3>1. PICK i \in Issues, op \in {"mark", "retry", "fail"} :
            claim[w][i] # None /\ st = Outcome(w, i, op)
      BY <2>2
    <3>2. i \in issued
      BY <3>1, ClaimedFacts
    <3>3. QED BY <3>1, <3>2, OutcomeFacts DEF Base
  <2>4. TypeOK'
    BY <2>1, <2>3 DEF NoClaims, rows, outside, Base, TypeOK
  <2>5. Fresh'
    BY <2>1, <2>3 DEF NoClaims, rows, Base, Fresh, TypeOK
  <2>6. QED BY <2>1, <2>3, <2>4, <2>5
       DEF Base, TypeOK, Admitted, LateOK, LanesAlive
<1>7. QED BY <1>1, <1>2, <1>3, <1>4, <1>5, <1>6

\* The steps of nobody: time, late statements and cleanup.
LEMMA RestBase ==
  ASSUME Base,
         \/ Tick
         \/ \E st \in late : ApplyLate(st) \/ LoseLate(st)
         \/ \E t \in Reading : Cleanup(t)
         \/ UNCHANGED vars
  PROVE  Base'
<1> USE DEF Base, TypeOK, Fresh, Admitted, LateOK, LanesAlive
<1>1. CASE Tick
  BY <1>1 DEF Tick, rows, batch, outside
<1>2. ASSUME NEW st \in late, ApplyLate(st) PROVE Base'
  <2>1. st \in Statement /\ st.id \in issued
    BY DEF Statement
  <2>2. jobs' \in [Issues -> Job \cup {None}]
        /\ \A j \in Issues : j # st.id => jobs'[j] = jobs[j]
    BY <1>2, <2>1, ApplyFacts DEF ApplyLate
  <2>3. QED BY <1>2, <2>1, <2>2 DEF ApplyLate, batch, outside
<1>3. ASSUME NEW st \in late, LoseLate(st) PROVE Base'
  BY <1>3 DEF LoseLate, rows, batch, outside
<1>4. ASSUME NEW t \in Reading, Cleanup(t) PROVE Base'
  BY <1>4 DEF Cleanup, batch, outside
<1>5. CASE UNCHANGED vars
  BY <1>5 DEF vars, rows, batch, outside
<1>6. QED BY <1>1, <1>2, <1>3, <1>4, <1>5

\* Every step of the outbox keeps the base invariant.
LEMMA BaseStep == Base /\ [Next]_vars => Base'
  BY ApiBase, LaneBase, BatchBase, RestBase DEF Next, WorkerNext

\* Every variable keeps its type.
THEOREM TypeCorrect == Spec => []TypeOK
<1>1. Base => TypeOK
  BY DEF Base
<1>2. QED BY <1>1, BaseInit, BaseStep, PTL DEF Spec

-----------------------------------------------------------------------------
(* The lease as a fence.                                                    *)

\* Attempt a of issue i, claimed at t, may still send an outcome.
IsTry(i, a, t) ==
  \/ \E w \in Workers : /\ claim[w][i] # None
                        /\ claim[w][i].attempt = a
                        /\ claim[w][i].at = t
  \/ \E st \in late : st.id = i /\ st.attempt = a /\ st.at = t

\* The row of i tells attempt a from every other: later claims end later, and
\* a row nobody leases is due only after every attempt so far was claimed.
FenceOK(i, a, t) ==
  Present(i) =>
    /\ a <= jobs[i].attempts
    /\ jobs[i].until # 0 =>
         /\ LeaseEnd(t) <= jobs[i].until
         /\ LeaseEnd(t) = jobs[i].until => a = jobs[i].attempts
    /\ Unsent(i) /\ jobs[i].attempts < MaxAttempts /\ jobs[i].until = 0 =>
         t < jobs[i].available

FenceInv ==
  \A i \in Issues, a \in 1..MaxAttempts, t \in Nat \ {0} :
    IsTry(i, a, t) => FenceOK(i, a, t)

\* Claims of one job follow each other: two workers never hold the same
\* attempt, an earlier attempt's lease ended before a later one was claimed,
\* and before an unleased row becomes due.
TurnInv ==
  /\ \A v, w \in Workers, i \in Issues :
       v # w /\ claim[v][i] # None /\ claim[w][i] # None =>
         claim[v][i].attempt # claim[w][i].attempt
  /\ \A v \in Workers, i \in Issues, a \in 1..MaxAttempts, t \in Nat \ {0} :
       claim[v][i] # None /\ IsTry(i, a, t) /\ claim[v][i].attempt < a =>
         LeaseEnd(claim[v][i].at) <= t
  /\ \A v \in Workers : \A st \in late :
       st.op # "mark" /\ claim[v][st.id] # None =>
         st.attempt # claim[v][st.id].attempt
  /\ \A v \in Workers, i \in Issues :
       /\ claim[v][i] # None
       /\ Unsent(i) /\ jobs[i].attempts < MaxAttempts /\ jobs[i].until = 0
       => LeaseEnd(claim[v][i].at) <= jobs[i].available

\* Most steps only end attempts, or leave their last statement behind.
ClaimsShrink ==
  \A v \in Workers, i \in Issues :
    claim'[v][i] # None => /\ claim[v][i] # None
                           /\ claim'[v][i].attempt = claim[v][i].attempt
                           /\ claim'[v][i].at = claim[v][i].at

Origin(w, st) ==
  /\ claim[w][st.id] # None
  /\ st.attempt = claim[w][st.id].attempt
  /\ st.at = claim[w][st.id].at
  /\ st.op # "mark" => claim'[w][st.id] = None

LateOrigin == \A st \in late' : st \in late \/ \E w \in Workers : Origin(w, st)

\* Then no attempt comes into being.
LEMMA TriesShrink ==
  ASSUME ClaimsShrink, LateOrigin, NEW i, NEW a, NEW t, i \in Issues, IsTry(i, a, t)'
  PROVE  IsTry(i, a, t)
  BY DEF ClaimsShrink, LateOrigin, Origin, IsTry

\* Attempts that may still speak are numbered and timed as the types say.
LEMMA TryType ==
  ASSUME TypeOK, NEW i \in Issues, NEW a, NEW t, IsTry(i, a, t)
  PROVE  a \in 1..MaxAttempts /\ t \in Nat \ {0}
  BY DEF TypeOK, IsTry, Claim, Statement

\* Rows that stay or vanish, and attempts that end, disturb nothing.
LEMMA FenceFrame ==
  ASSUME FenceInv, TurnInv, ClaimsShrink, LateOrigin, late \subseteq Statement,
         late' \subseteq Statement,
         \A i \in Issues : \/ jobs'[i] \in {jobs[i], None}
                          \/ \A a, t : ~IsTry(i, a, t)
  PROVE  FenceInv' /\ TurnInv'
<1>1. \A i \in Issues :
        \/ /\ Present(i)' => Present(i) /\ jobs'[i] = jobs[i]
           /\ Unsent(i)' => Unsent(i) /\ jobs'[i] = jobs[i]
        \/ (\A a, t : ~IsTry(i, a, t)) /\ \A v \in Workers : claim[v][i] = None
  BY DEF Present, Unsent, IsTry
<1>2. FenceInv'
  BY <1>1, TriesShrink DEF FenceInv, FenceOK
<1>3. \A v, w \in Workers, i \in Issues :
        v # w /\ claim'[v][i] # None /\ claim'[w][i] # None =>
          claim'[v][i].attempt # claim'[w][i].attempt
  BY DEF TurnInv, ClaimsShrink
<1>4. \A v \in Workers, i \in Issues, a \in 1..MaxAttempts, t \in Nat \ {0} :
        claim'[v][i] # None /\ IsTry(i, a, t)' /\ claim'[v][i].attempt < a =>
          LeaseEnd(claim'[v][i].at) <= t
  BY TriesShrink DEF TurnInv, ClaimsShrink
<1>5. \A v \in Workers : \A st \in late' :
        st.op # "mark" /\ claim'[v][st.id] # None =>
          st.attempt # claim'[v][st.id].attempt
  <2> SUFFICES ASSUME NEW v \in Workers, NEW st \in late',
                      st.op # "mark", claim'[v][st.id] # None
               PROVE  st.attempt # claim'[v][st.id].attempt
    OBVIOUS
  <2>1. st.id \in Issues
    BY DEF Statement
  <2>2. claim[v][st.id] # None /\ claim'[v][st.id].attempt = claim[v][st.id].attempt
    BY <2>1 DEF ClaimsShrink
  <2>3. CASE st \in late
    BY <2>2, <2>3 DEF TurnInv
  <2>4. ASSUME NEW w \in Workers, Origin(w, st) PROVE st.attempt # claim[v][st.id].attempt
    BY <2>1, <2>2, <2>4 DEF TurnInv, Origin
  <2>5. QED BY <2>2, <2>3, <2>4 DEF LateOrigin
<1>6. \A v \in Workers, i \in Issues :
        /\ claim'[v][i] # None
        /\ Unsent(i)' /\ jobs'[i].attempts < MaxAttempts /\ jobs'[i].until = 0
        => LeaseEnd(claim'[v][i].at) <= jobs'[i].available
  BY <1>1 DEF TurnInv, ClaimsShrink
<1>7. QED BY <1>2, <1>3, <1>4, <1>5, <1>6 DEF TurnInv

\* A statement that comes from a claim, and what it needs to say.
Genuine(st) ==
  /\ st \in Statement
  /\ IsTry(st.id, st.attempt, st.at)
  /\ st.until = LeaseEnd(st.at)
  /\ st.op = "retry" => st.available > st.at

\* What a matching statement leaves in its row.
LEMMA AppliedFacts ==
  ASSUME NEW st \in Statement, NEW row \in Job
  PROVE  /\ Applied(st, row).until = 0
         /\ Applied(st, row).attempts \in {row.attempts, MaxAttempts}
         /\ st.op = "mark" => Applied(st, row).sent = st.at
         /\ st.op = "retry" => /\ Applied(st, row).available = st.available
                               /\ Applied(st, row).attempts = row.attempts
         /\ st.op = "fail" => Applied(st, row).attempts = MaxAttempts
         /\ st.op # "mark" => Applied(st, row).sent = row.sent
<1>1. CASE st.op = "mark"
  BY <1>1 DEF Applied, Job
<1>2. CASE st.op = "retry"
  BY <1>2 DEF Applied, Job
<1>3. CASE st.op = "fail"
  BY <1>3 DEF Applied, Job
<1>4. QED BY <1>1, <1>2, <1>3 DEF Statement

\* Recording an outcome, heard or late: only the current attempt gets through,
\* and a retry makes the row due after every attempt so far.
LEMMA FenceApply ==
  ASSUME Base, FenceInv, TurnInv, NEW st, Genuine(st), Apply(st),
         ClaimsShrink, LateOrigin, Base',
         st.op # "mark" => \A v \in Workers :
           claim'[v][st.id] # None => claim'[v][st.id].attempt # st.attempt
  PROVE  FenceInv' /\ TurnInv'
<1>0. /\ jobs' \in [Issues -> Job \cup {None}]
      /\ \A i \in Issues :
           jobs'[i] = IF i = st.id /\ Fence(st) THEN Applied(st, jobs[i]) ELSE jobs[i]
      /\ Fence(st) => jobs'[st.id] \in Job /\ jobs'[st.id] # None
  BY ApplyFacts DEF Genuine, Base
<1>1. CASE ~Fence(st)
  BY <1>0, <1>1, FenceFrame DEF Base, TypeOK
<1>2. CASE Fence(st)
  <2> DEFINE k == st.id
             row == jobs[st.id]
  <2>1. /\ k \in Issues /\ row \in Job /\ Present(k) /\ row.until = LeaseEnd(st.at)
        /\ st.at \in Nat \ {0} /\ st.attempt \in 1..MaxAttempts
    BY <1>2 DEF Genuine, Fence, Present, Base, TypeOK, Statement
  <2>2. row.until # 0
    BY <2>1, OutboxAssumption DEF LeaseEnd
  <2>3. st.attempt = row.attempts
    BY <2>1, <2>2 DEF Genuine, FenceInv, FenceOK
  <2>4. \A a \in 1..MaxAttempts, t \in Nat \ {0} : IsTry(k, a, t) =>
          a <= row.attempts /\ t <= st.at
    <3> SUFFICES ASSUME NEW a \in 1..MaxAttempts, NEW t \in Nat \ {0}, IsTry(k, a, t)
                 PROVE  a <= row.attempts /\ t <= st.at
      OBVIOUS
    <3>1. a <= row.attempts /\ LeaseEnd(t) <= row.until
      BY <2>1, <2>2 DEF FenceInv, FenceOK
    <3>2. QED BY <2>1, <3>1, OutboxAssumption DEF LeaseEnd
  <2>5. /\ jobs'[k].until = 0
        /\ jobs'[k].attempts \in {row.attempts, MaxAttempts}
        /\ st.op = "mark" => jobs'[k].sent = st.at
        /\ st.op = "retry" => jobs'[k].available = st.available
        /\ st.op = "fail" => jobs'[k].attempts = MaxAttempts
    BY <1>0, <1>2, <2>1, AppliedFacts DEF Genuine
  <2>6. Unsent(k)' /\ jobs'[k].attempts < MaxAttempts =>
          st.op = "retry" /\ jobs'[k].available > st.at
    BY <2>1, <2>5, OutboxAssumption DEF Unsent, Present, Genuine, Statement
  <2>7. \A i \in Issues : i # k => jobs'[i] = jobs[i]
    BY <1>0
  <2>8. row.attempts \in 0..MaxAttempts /\ MaxAttempts \in Nat
    BY <2>1, OutboxAssumption DEF Job
  <2>9. FenceInv'
    <3> SUFFICES ASSUME NEW i \in Issues, NEW a \in 1..MaxAttempts, NEW t \in Nat \ {0},
                        IsTry(i, a, t)'
                 PROVE  FenceOK(i, a, t)'
      BY DEF FenceInv
    <3>1. IsTry(i, a, t)
      BY TriesShrink
    <3>2. CASE i = k
      <4>1. a <= row.attempts /\ t <= st.at
        BY <2>4, <3>1, <3>2
      <4>2. a <= jobs'[k].attempts
        BY <2>5, <2>8, <4>1
      <4>3. Unsent(k)' /\ jobs'[k].attempts < MaxAttempts => t < jobs'[k].available
        <5>1. jobs'[k] \in Job
          BY <1>0, <1>2
        <5>2. jobs'[k].available \in Nat
          BY <5>1 DEF Job
        <5>3. QED BY <2>1, <2>6, <4>1, <5>2
      <4>4. QED BY <2>5, <3>2, <4>2, <4>3 DEF FenceOK
    <3>3. CASE i # k
      BY <2>7, <3>1, <3>3 DEF FenceInv, FenceOK, Present, Unsent
    <3>4. QED BY <3>2, <3>3
  <2>10. \A v \in Workers, i \in Issues :
           /\ claim'[v][i] # None
           /\ Unsent(i)' /\ jobs'[i].attempts < MaxAttempts /\ jobs'[i].until = 0
           => LeaseEnd(claim'[v][i].at) <= jobs'[i].available
    <3> SUFFICES ASSUME NEW v \in Workers, NEW i \in Issues, claim'[v][i] # None,
                        Unsent(i)', jobs'[i].attempts < MaxAttempts, jobs'[i].until = 0
                 PROVE  LeaseEnd(claim'[v][i].at) <= jobs'[i].available
      OBVIOUS
    <3>1. /\ claim[v][i] # None /\ claim[v][i] \in Claim
          /\ claim'[v][i].attempt = claim[v][i].attempt
          /\ claim'[v][i].at = claim[v][i].at
      BY DEF ClaimsShrink, Base, TypeOK
    <3>2. CASE i = k
      <4>1. IsTry(k, claim[v][k].attempt, claim[v][k].at)
        BY <3>1, <3>2 DEF IsTry
      <4>2. claim[v][k].attempt <= st.attempt
        BY <2>3, <2>4, <3>1, <3>2, <4>1 DEF Claim
      <4>3. claim[v][k].attempt # st.attempt
        BY <2>6, <3>1, <3>2
      <4>4. claim[v][k].attempt < st.attempt
        BY <2>1, <3>1, <3>2, <4>2, <4>3 DEF Claim
      <4>5. LeaseEnd(claim[v][k].at) <= st.at
        BY <2>1, <3>1, <3>2, <4>4 DEF TurnInv, Genuine
      <4>6. jobs'[k].available \in Nat
        BY <1>0, <1>2 DEF Job
      <4>7. LeaseEnd(claim[v][k].at) \in Nat
        <5>1. claim[v][k].at \in Nat
          BY <3>1, <3>2 DEF Claim
        <5>2. QED BY <5>1, OutboxAssumption DEF LeaseEnd
      <4>8. QED BY <2>1, <2>6, <3>1, <3>2, <4>5, <4>6, <4>7
    <3>3. CASE i # k
      BY <2>7, <3>1, <3>3 DEF TurnInv, Present, Unsent
    <3>4. QED BY <3>2, <3>3
  <2>11. TurnInv'
    <3>1. \A v, w \in Workers, i \in Issues :
            v # w /\ claim'[v][i] # None /\ claim'[w][i] # None =>
              claim'[v][i].attempt # claim'[w][i].attempt
      BY DEF TurnInv, ClaimsShrink
    <3>2. \A v \in Workers, i \in Issues, a \in 1..MaxAttempts, t \in Nat \ {0} :
            claim'[v][i] # None /\ IsTry(i, a, t)' /\ claim'[v][i].attempt < a =>
              LeaseEnd(claim'[v][i].at) <= t
      BY TriesShrink DEF TurnInv, ClaimsShrink
    <3>3. \A v \in Workers : \A s \in late' :
            s.op # "mark" /\ claim'[v][s.id] # None =>
              s.attempt # claim'[v][s.id].attempt
      <4> SUFFICES ASSUME NEW v \in Workers, NEW s \in late',
                          s.op # "mark", claim'[v][s.id] # None
                   PROVE  s.attempt # claim'[v][s.id].attempt
        OBVIOUS
      <4>1. s.id \in Issues
        BY DEF Base, TypeOK, Statement
      <4>2. claim[v][s.id] # None /\ claim'[v][s.id].attempt = claim[v][s.id].attempt
        BY <4>1 DEF ClaimsShrink
      <4>3. CASE s \in late
        BY <4>2, <4>3 DEF TurnInv
      <4>4. ASSUME NEW w \in Workers, Origin(w, s)
            PROVE s.attempt # claim[v][s.id].attempt
        BY <4>1, <4>2, <4>4 DEF TurnInv, Origin
      <4>5. QED BY <4>2, <4>3, <4>4 DEF LateOrigin
    <3>4. QED BY <2>10, <3>1, <3>2, <3>3 DEF TurnInv
  <2>12. QED BY <2>9, <2>11
<1>3. QED BY <1>1, <1>2

\* A claim is later than every attempt of its jobs so far.
LEMMA ClaimIsLater ==
  ASSUME Base, FenceInv, TurnInv, NEW w \in Workers, NEW s \in SUBSET Issues,
         ClaimMove(w, s), NEW i \in s
  PROVE  /\ \A a \in 1..MaxAttempts, t \in Nat \ {0} : IsTry(i, a, t) =>
              a < jobs'[i].attempts /\ LeaseEnd(t) < jobs'[i].until
         /\ \A v \in Workers : claim[v][i] # None =>
              LeaseEnd(claim[v][i].at) <= at[w]
         /\ jobs'[i].until # 0 /\ jobs'[i] # None
<1>1. /\ Claimable(i, at[w]) /\ at[w] \in Nat \ {0} /\ jobs[i] \in Job
      /\ Unsent(i) /\ Present(i)
      /\ jobs'[i].until = LeaseEnd(at[w])
      /\ jobs'[i].attempts = jobs[i].attempts + 1
      /\ jobs'[i] # None
  BY DEF ClaimMove, ClaimedRow, Claimable, Unsent, Present, Base, TypeOK
<1>2. /\ jobs[i].attempts \in Nat /\ jobs[i].attempts < MaxAttempts
      /\ jobs[i].available <= at[w] /\ jobs[i].until <= at[w]
      /\ jobs[i].available \in Nat /\ jobs[i].until \in Nat
  BY <1>1 DEF Claimable, Job
<1>3. \A a \in 1..MaxAttempts, t \in Nat \ {0} : IsTry(i, a, t) =>
        a < jobs'[i].attempts /\ LeaseEnd(t) < jobs'[i].until
  <2> SUFFICES ASSUME NEW a \in 1..MaxAttempts, NEW t \in Nat \ {0}, IsTry(i, a, t)
               PROVE  a < jobs'[i].attempts /\ LeaseEnd(t) < jobs'[i].until
    OBVIOUS
  <2>1. FenceOK(i, a, t)
    BY DEF FenceInv
  <2>2. a <= jobs[i].attempts
    BY <1>1, <2>1 DEF FenceOK
  <2>3. t < at[w]
    <3>1. CASE jobs[i].until = 0
      BY <1>1, <1>2, <2>1, <3>1 DEF FenceOK
    <3>2. CASE jobs[i].until # 0
      <4>1. LeaseEnd(t) <= jobs[i].until
        BY <1>1, <2>1, <3>2 DEF FenceOK
      <4>2. t + LeaseTime <= jobs[i].until /\ LeaseTime \in Nat \ {0}
        BY <4>1, OutboxAssumption DEF LeaseEnd
      <4>3. jobs[i].until <= at[w] /\ jobs[i].until \in Nat /\ at[w] \in Nat
        BY <1>1, <1>2
      <4>4. QED BY <4>2, <4>3
    <3>3. QED BY <3>1, <3>2
  <2>4. a < jobs'[i].attempts
    BY <1>1, <1>2, <2>2
  <2>5. LeaseEnd(t) < jobs'[i].until
    <3>1. jobs'[i].until = at[w] + LeaseTime /\ LeaseEnd(t) = t + LeaseTime /\ LeaseTime \in Nat
      BY <1>1, OutboxAssumption DEF LeaseEnd
    <3>2. at[w] \in Nat
      BY <1>1
    <3>3. QED BY <2>3, <3>1, <3>2
  <2>6. QED BY <2>4, <2>5
<1>4. \A v \in Workers : claim[v][i] # None => LeaseEnd(claim[v][i].at) <= at[w]
  <2> SUFFICES ASSUME NEW v \in Workers, claim[v][i] # None
               PROVE  LeaseEnd(claim[v][i].at) <= at[w]
    OBVIOUS
  <2>1. claim[v][i] \in Claim /\ claim[v][i].at \in Nat \ {0}
        /\ claim[v][i].attempt \in 1..MaxAttempts
    BY DEF Base, TypeOK, Claim
  <2>2. LeaseEnd(claim[v][i].at) \in Nat
    <3>1. claim[v][i].at \in Nat /\ LeaseTime \in Nat
      BY <2>1, OutboxAssumption
    <3>2. QED BY <3>1 DEF LeaseEnd
  <2>3. IsTry(i, claim[v][i].attempt, claim[v][i].at)
    BY DEF IsTry
  <2>4. CASE jobs[i].until = 0
    <3>1. LeaseEnd(claim[v][i].at) <= jobs[i].available
      BY <1>1, <1>2, <2>4 DEF TurnInv
    <3>2. QED BY <1>1, <1>2, <2>2, <3>1
  <2>5. CASE jobs[i].until # 0
    <3>1. FenceOK(i, claim[v][i].attempt, claim[v][i].at)
      BY <2>1, <2>3 DEF FenceInv
    <3>2. LeaseEnd(claim[v][i].at) <= jobs[i].until
      BY <1>1, <2>5, <3>1 DEF FenceOK
    <3>3. QED BY <1>1, <1>2, <2>2, <3>2
  <2>6. QED BY <2>4, <2>5
<1>5. QED BY <1>1, <1>3, <1>4, OutboxAssumption DEF LeaseEnd

\* Claiming keeps the attempts of each job apart.
LEMMA FenceClaim ==
  ASSUME Base, FenceInv, TurnInv, NEW w \in Workers, ClaimJobs(w)
  PROVE  FenceInv' /\ TurnInv'
<1>1. PICK s \in SUBSET Issues : ClaimMove(w, s)
  BY ClaimFacts
<1>2. late' = late /\ claim[w] = NoClaims
  BY DEF ClaimJobs, Base, Admitted
<1>3. \A v \in Workers, i \in Issues : claim'[v][i] # None =>
        \/ v # w /\ claim'[v][i] = claim[v][i]
        \/ /\ v = w /\ i \in s
           /\ claim'[v][i].attempt = jobs'[i].attempts /\ claim'[v][i].at = at[w]
  BY <1>1 DEF ClaimMove, ClaimedCopy, ClaimedRow
<1>4. \A i \in Issues : \A a, t : IsTry(i, a, t)' =>
        \/ IsTry(i, a, t)
        \/ i \in s /\ a = jobs'[i].attempts /\ t = at[w]
  BY <1>2, <1>3 DEF IsTry
<1>5. \A i \in Issues : i \notin s => jobs'[i] = jobs[i]
  BY <1>1 DEF ClaimMove
<1>6. \A i \in s : jobs'[i].until = LeaseEnd(at[w]) /\ jobs'[i].attempts \in 1..MaxAttempts
  BY <1>1 DEF ClaimMove, ClaimedRow
<1>7. \A i \in s, a \in 1..MaxAttempts, t \in Nat \ {0} : IsTry(i, a, t) =>
        a < jobs'[i].attempts /\ LeaseEnd(t) < jobs'[i].until
  BY <1>1, ClaimIsLater
<1>8. \A i \in s, v \in Workers : claim[v][i] # None =>
        LeaseEnd(claim[v][i].at) <= at[w]
  BY <1>1, ClaimIsLater
<1>9. \A i \in s : jobs'[i].until # 0
  BY <1>1, ClaimIsLater
<1>10. \A v \in Workers, i \in Issues : claim[v][i] # None =>
         /\ claim[v][i].attempt \in 1..MaxAttempts /\ claim[v][i].at \in Nat \ {0}
         /\ IsTry(i, claim[v][i].attempt, claim[v][i].at)
  BY DEF Base, TypeOK, Claim, IsTry
<1>11. FenceInv'
  <2> SUFFICES ASSUME NEW i \in Issues, NEW a \in 1..MaxAttempts, NEW t \in Nat \ {0},
                      IsTry(i, a, t)'
               PROVE  FenceOK(i, a, t)'
    BY DEF FenceInv
  <2>1. CASE i \notin s
    BY <1>4, <1>5, <2>1 DEF FenceInv, FenceOK, Present, Unsent
  <2>2. CASE i \in s /\ IsTry(i, a, t)
    <3>1. a < jobs'[i].attempts /\ LeaseEnd(t) < jobs'[i].until
      BY <1>7, <2>2
    <3>2. LeaseEnd(t) \in Nat /\ jobs'[i].until \in Nat /\ jobs'[i].attempts \in Nat
      <4>1. at[w] \in Nat
        BY DEF Base, TypeOK
      <4>2. QED BY <1>6, <2>2, <4>1, OutboxAssumption DEF LeaseEnd
    <3>3. QED BY <1>9, <2>2, <3>1, <3>2 DEF FenceOK
  <2>3. CASE i \in s /\ a = jobs'[i].attempts /\ t = at[w]
    <3>1. LeaseEnd(t) \in Nat
      BY OutboxAssumption DEF LeaseEnd
    <3>2. QED BY <1>6, <1>9, <2>3, <3>1 DEF FenceOK
  <2>4. QED BY <1>4, <2>1, <2>2, <2>3
<1>12. \A u, v \in Workers, i \in Issues :
         u # v /\ claim'[u][i] # None /\ claim'[v][i] # None =>
           claim'[u][i].attempt # claim'[v][i].attempt
  <2> SUFFICES ASSUME NEW u \in Workers, NEW v \in Workers, NEW i \in Issues,
                      u # v, claim'[u][i] # None, claim'[v][i] # None
               PROVE  claim'[u][i].attempt # claim'[v][i].attempt
    OBVIOUS
  <2>1. CASE u # w /\ v # w
    BY <1>3, <2>1 DEF TurnInv
  <2>2. CASE u = w
    BY <1>3, <1>6, <1>7, <1>10, <2>2
  <2>3. CASE v = w
    BY <1>3, <1>6, <1>7, <1>10, <2>3
  <2>4. QED BY <2>1, <2>2, <2>3
<1>13. \A v \in Workers, i \in Issues, a \in 1..MaxAttempts, t \in Nat \ {0} :
         claim'[v][i] # None /\ IsTry(i, a, t)' /\ claim'[v][i].attempt < a =>
           LeaseEnd(claim'[v][i].at) <= t
  <2> SUFFICES ASSUME NEW v \in Workers, NEW i \in Issues, NEW a \in 1..MaxAttempts,
                      NEW t \in Nat \ {0}, claim'[v][i] # None, IsTry(i, a, t)',
                      claim'[v][i].attempt < a
               PROVE  LeaseEnd(claim'[v][i].at) <= t
    OBVIOUS
  <2>1. CASE v = w
    BY <1>3, <1>4, <1>6, <1>7, <2>1
  <2>2. CASE v # w /\ IsTry(i, a, t)
    BY <1>3, <2>2 DEF TurnInv
  <2>3. CASE v # w /\ i \in s /\ t = at[w]
    BY <1>3, <1>8, <2>3
  <2>4. QED BY <1>4, <2>1, <2>2, <2>3
<1>14. \A v \in Workers : \A st \in late' :
         st.op # "mark" /\ claim'[v][st.id] # None =>
           st.attempt # claim'[v][st.id].attempt
  <2> SUFFICES ASSUME NEW v \in Workers, NEW st \in late,
                      st.op # "mark", claim'[v][st.id] # None
               PROVE  st.attempt # claim'[v][st.id].attempt
    BY <1>2
  <2>1. st.id \in Issues /\ st.attempt \in 1..MaxAttempts /\ st.at \in Nat \ {0}
        /\ IsTry(st.id, st.attempt, st.at)
    BY DEF Base, TypeOK, Statement, IsTry
  <2>2. CASE v = w
    BY <1>3, <1>6, <1>7, <2>1, <2>2
  <2>3. CASE v # w
    BY <1>3, <2>1, <2>3 DEF TurnInv
  <2>4. QED BY <2>2, <2>3
<1>15. \A v \in Workers, i \in Issues :
         /\ claim'[v][i] # None
         /\ Unsent(i)' /\ jobs'[i].attempts < MaxAttempts /\ jobs'[i].until = 0
         => LeaseEnd(claim'[v][i].at) <= jobs'[i].available
  BY <1>3, <1>5, <1>9 DEF TurnInv, Unsent, Present
<1>16. TurnInv'
  BY <1>12, <1>13, <1>14, <1>15 DEF TurnInv
<1>17. QED BY <1>11, <1>16

\* A lane's statement is genuine.
LEMMA OutcomeGenuine ==
  ASSUME Base, NEW w \in Workers, NEW i \in Issues, claim[w][i] # None,
         NEW op \in {"mark", "retry", "fail"}
  PROVE  Genuine(Outcome(w, i, op))
  BY OutcomeFacts DEF Base, Genuine, IsTry

\* The steps of a lane keep the attempts apart.
LEMMA FenceLane ==
  ASSUME Base, Base', FenceInv, TurnInv, NEW w \in Workers, NEW i \in Issues,
         LaneNext(w, i)
  PROVE  FenceInv' /\ TurnInv'
<1> SUFFICES ASSUME claim[w][i] # None PROVE FenceInv' /\ TurnInv'
  BY DEF LaneNext, RejectToken, StartSend, TakeNext, SendAccepted, SendUnclear,
         SendRejected, Record, LaneDies, MarkFails, Step
<1>1. ASSUME NEW step \in {"queued", "sending", "marking", "retrying", "failing"},
             Becomes(w, i, step), jobs' = jobs,
             late' \subseteq late \cup {Outcome(w, i, "mark")}
      PROVE  FenceInv' /\ TurnInv'
  <2>1. ClaimsShrink
    BY <1>1, BecomesFacts DEF Base, ClaimsShrink
  <2>2. LateOrigin
    BY <1>1, OutcomeFacts DEF Base, LateOrigin, Origin
  <2>3. QED BY <1>1, <2>1, <2>2, FenceFrame DEF Base, TypeOK
<1>2. CASE RejectToken(w, i)
  BY <1>1, <1>2 DEF RejectToken, rows
<1>3. CASE StartSend(w, i)
  BY <1>1, <1>3 DEF StartSend, rows
<1>4. CASE SendAccepted(w, i)
  BY <1>1, <1>4 DEF SendAccepted, rows
<1>5. CASE SendUnclear(w, i)
  BY <1>1, <1>5 DEF SendUnclear, AfterRetryableError, rows
<1>6. CASE SendRejected(w, i)
  BY <1>1, <1>6 DEF SendRejected, rows
<1>7. CASE MarkFails(w, i)
  BY <1>1, <1>7 DEF MarkFails, AfterRetryableError, rows
<1>8. ASSUME NEW op \in {"mark", "retry", "fail"}, Record(w, i, op)
      PROVE  FenceInv' /\ TurnInv'
  <2> DEFINE st == Outcome(w, i, op)
  <2>1. Genuine(st) /\ st.id = i /\ st.attempt = claim[w][i].attempt
    BY OutcomeGenuine, OutcomeFacts DEF Base
  <2>2. \A v \in Workers, j \in Issues :
          claim'[v][j] = IF v = w /\ j = i THEN None ELSE claim[v][j]
    BY <1>8, DropFacts DEF Record, LaneDone, Base
  <2>3. ClaimsShrink /\ LateOrigin
    BY <1>8, <2>2 DEF Record, ClaimsShrink, LateOrigin
  <2>4. \A v \in Workers : claim'[v][i] # None => claim'[v][i].attempt # st.attempt
    BY <2>1, <2>2 DEF TurnInv
  <2>5. Apply(st)
    BY <1>8 DEF Record
  <2> HIDE DEF st
  <2>6. QED BY <2>1, <2>3, <2>4, <2>5, FenceApply
<1>9. ASSUME NEW op \in {"mark", "retry", "fail"}, LaneDies(w, i, op)
      PROVE  FenceInv' /\ TurnInv'
  <2>1. \A v \in Workers, j \in Issues : claim'[v][j] # None => claim'[v][j] = claim[v][j]
    BY <1>9 DEF LaneDies, NoClaims, Base, TypeOK
  <2>2. claim'[w][i] = None
    BY <1>9 DEF LaneDies, NoClaims, Base, TypeOK
  <2>3. ClaimsShrink
    BY <2>1 DEF ClaimsShrink
  <2>4. LateOrigin
    BY <1>9, <2>2, OutcomeFacts DEF LaneDies, Base, LateOrigin, Origin
  <2>5. QED BY <1>9, <2>3, <2>4, FenceFrame DEF LaneDies, rows, Base, TypeOK
<1>10. QED BY <1>2, <1>3, <1>4, <1>5, <1>6, <1>7, <1>8, <1>9 DEF LaneNext

\* The fence's invariant in full.
FullInv == Base /\ FenceInv /\ TurnInv

\* Nothing was attempted initially.
LEMMA FullInit == Init => FullInv
<1>1. Init => FenceInv /\ TurnInv
  BY DEF Init, FenceInv, TurnInv, IsTry
<1>2. QED BY <1>1, BaseInit DEF FullInv

\* Every step keeps the attempts of every job apart.
LEMMA FullStep == FullInv /\ [Next]_vars => FullInv'
<1> SUFFICES ASSUME Base, FenceInv, TurnInv, [Next]_vars, Base'
             PROVE  FenceInv' /\ TurnInv'
  BY BaseStep DEF FullInv
<1>0. late \subseteq Statement /\ late' \subseteq Statement
  BY DEF Base, TypeOK
<1>1. ASSUME claim' = claim, late' \subseteq late,
             \A i \in Issues : jobs'[i] \in {jobs[i], None} \/ i \notin issued
      PROVE  FenceInv' /\ TurnInv'
  <2>1. ClaimsShrink /\ LateOrigin
    BY <1>1 DEF ClaimsShrink, LateOrigin
  <2>2. \A i \in Issues \ issued : \A a, t : ~IsTry(i, a, t)
    BY DEF Base, Fresh, IsTry
  <2>3. QED BY <1>0, <1>1, <2>1, <2>2, FenceFrame
<1>2. ASSUME NEW i \in Issues, ApiNext(i) PROVE FenceInv' /\ TurnInv'
  <2>1. CASE Consume(i)
    BY <1>1, <2>1 DEF Consume, batch
  <2>2. ASSUME NEW sub \in Subjects, Issue(i, sub) PROVE FenceInv' /\ TurnInv'
    <3>1. \A j \in Issues : jobs'[j] \in {jobs[j], None} \/ j \notin issued
      BY <2>2 DEF Issue, WithoutJobsOf, Base, TypeOK
    <3>2. QED BY <1>1, <2>2, <3>1 DEF Issue, batch
  <2>3. QED BY <1>2, <2>1, <2>2 DEF ApiNext
<1>3. ASSUME NEW w \in Workers, WorkerNext(w) PROVE FenceInv' /\ TurnInv'
  <2>1. CASE Admit(w)
    BY <1>1, <2>1 DEF Admit, rows
  <2>2. CASE ClaimJobs(w)
    BY <2>2, FenceClaim
  <2>3. CASE ClaimFails(w)
    BY <1>1, <2>3 DEF ClaimFails, rows
  <2>4. ASSUME NEW i \in Issues, LaneNext(w, i) PROVE FenceInv' /\ TurnInv'
    BY <2>4, FenceLane
  <2>5. CASE Release(w)
    BY <1>1, <2>5 DEF Release, rows
  <2>6. CASE Shutdown(w)
    <3>1. ClaimsShrink
      BY <2>6 DEF Shutdown, ClaimsShrink, Base, TypeOK
    <3>2. jobs' = jobs /\ LateOrigin
      BY <2>6 DEF Shutdown, LateOrigin, rows
    <3>3. QED BY <1>0, <3>1, <3>2, FenceFrame
  <2>7. CASE Crash(w)
    <3>1. jobs' = jobs /\ claim' = [claim EXCEPT ![w] = NoClaims]
      BY <2>7 DEF Crash, rows
    <3>2. ClaimsShrink /\ \A i \in Issues : claim'[w][i] = None
      BY <3>1 DEF ClaimsShrink, NoClaims, Base, TypeOK
    <3>3. \A st \in late' : st \in late \/
            \E i \in Issues, op \in {"mark", "retry", "fail"} :
              claim[w][i] # None /\ st = Outcome(w, i, op)
      BY <2>7 DEF Crash, Active
    <3>4. LateOrigin
      BY <3>2, <3>3, OutcomeFacts DEF Base, LateOrigin, Origin
    <3>5. QED BY <1>0, <3>1, <3>2, <3>4, FenceFrame
  <2>8. QED BY <1>3, <2>1, <2>2, <2>3, <2>4, <2>5, <2>6, <2>7 DEF WorkerNext
<1>4. ASSUME NEW st \in late, ApplyLate(st) PROVE FenceInv' /\ TurnInv'
  <2>1. Genuine(st)
    BY DEF Genuine, IsTry, Base, TypeOK, LateOK, Statement
  <2>2. claim' = claim /\ late' \subseteq late /\ Apply(st)
    BY <1>4 DEF ApplyLate, batch
  <2>3. ClaimsShrink /\ LateOrigin
    BY <2>2 DEF ClaimsShrink, LateOrigin
  <2>4. st.op # "mark" => \A v \in Workers :
          claim'[v][st.id] # None => claim'[v][st.id].attempt # st.attempt
    BY <2>2 DEF TurnInv
  <2>5. QED BY <2>1, <2>2, <2>3, <2>4, FenceApply
<1>5. ASSUME NEW st \in late, LoseLate(st) PROVE FenceInv' /\ TurnInv'
  BY <1>1, <1>5 DEF LoseLate, batch, rows
<1>6. ASSUME NEW t \in Reading, Cleanup(t) PROVE FenceInv' /\ TurnInv'
  <2>1. \A i \in Issues : jobs'[i] \in {jobs[i], None}
    BY <1>6 DEF Cleanup
  <2>2. QED BY <1>1, <1>6, <2>1 DEF Cleanup, batch
<1>7. CASE Tick \/ UNCHANGED vars
  BY <1>1, <1>7 DEF Tick, vars, rows, batch
<1>8. QED BY <1>2, <1>3, <1>4, <1>5, <1>6, <1>7 DEF Next

-----------------------------------------------------------------------------
(* What follows.                                                            *)

\* An outcome statement whose fence matches belongs to the current attempt,
\* whatever the clocks read and however late it arrives.
THEOREM FencesIdentifyClaims == Spec => []FenceIdentifiesClaim
<1>1. FullInv => FenceIdentifiesClaim
  <2> SUFFICES ASSUME FullInv, NEW i \in Issues, Present(i)
               PROVE /\ \A w \in Workers :
                          claim[w][i] # None /\ jobs[i].until = LeaseEnd(claim[w][i].at)
                            => claim[w][i].attempt = jobs[i].attempts
                     /\ \A st \in late :
                          st.id = i /\ Fence(st) => st.attempt = jobs[i].attempts
    BY DEF FenceIdentifiesClaim
  <2>1. \A a \in 1..MaxAttempts, t \in Nat \ {0} :
          IsTry(i, a, t) /\ jobs[i].until = LeaseEnd(t) => a = jobs[i].attempts
    <3>1. \A t \in Nat : LeaseEnd(t) # 0
      BY OutboxAssumption DEF LeaseEnd
    <3>2. QED BY <3>1 DEF FullInv, FenceInv, FenceOK
  <2>2. ASSUME NEW w \in Workers, claim[w][i] # None,
               jobs[i].until = LeaseEnd(claim[w][i].at)
        PROVE  claim[w][i].attempt = jobs[i].attempts
    <3>1. claim[w][i].attempt \in 1..MaxAttempts /\ claim[w][i].at \in Nat \ {0}
      BY <2>2 DEF FullInv, Base, TypeOK, Claim
    <3>2. IsTry(i, claim[w][i].attempt, claim[w][i].at)
      BY <2>2 DEF IsTry
    <3>3. QED BY <2>1, <2>2, <3>1, <3>2
  <2>3. ASSUME NEW st \in late, st.id = i, Fence(st)
        PROVE  st.attempt = jobs[i].attempts
    <3>1. st.attempt \in 1..MaxAttempts /\ st.at \in Nat \ {0}
          /\ st.until = LeaseEnd(st.at)
      BY DEF FullInv, Base, TypeOK, LateOK, Statement
    <3>2. IsTry(i, st.attempt, st.at)
      BY <2>3 DEF IsTry
    <3>3. QED BY <2>1, <2>3, <3>1, <3>2 DEF Fence
  <2>4. QED BY <2>2, <2>3
<1>2. QED BY <1>1, FullInit, FullStep, PTL DEF Spec

\* A worker is overtaken on a job only after its lease has run out on the
\* overtaker's clock.
THEOREM TakeoverAfterLease == Spec => []OneSenderPerLease
<1>1. FullInv => OneSenderPerLease
  <2> SUFFICES ASSUME FullInv, NEW v \in Workers, NEW w \in Workers, NEW i \in Issues,
                      claim[v][i] # None, claim[w][i] # None,
                      claim[v][i].attempt < claim[w][i].attempt
               PROVE  LeaseEnd(claim[v][i].at) <= claim[w][i].at
    BY DEF OneSenderPerLease, Active
  <2>1. claim[w][i].attempt \in 1..MaxAttempts /\ claim[w][i].at \in Nat \ {0}
    BY DEF FullInv, Base, TypeOK, Claim
  <2>2. IsTry(i, claim[w][i].attempt, claim[w][i].at)
    BY DEF IsTry
  <2>3. QED BY <2>1, <2>2 DEF FullInv, TurnInv
<1>2. QED BY <1>1, FullInit, FullStep, PTL DEF Spec

-----------------------------------------------------------------------------
(* What becomes of a row.                                                   *)

\* Why a row may be deleted.
MayVanish(i) ==
  Unsent(i) => \/ i \in superseded'
               \/ jobs[i].attempts = MaxAttempts
               \/ tokens[i].consumed # 0
               \/ tokens[i].expires <= now + Skew

\* A row is left alone, deleted, inserted, claimed, or recorded in.
RowMove(i) ==
  \/ jobs'[i] = jobs[i]
  \/ jobs'[i] = None /\ MayVanish(i)
  \/ i \notin issued /\ jobs'[i].until = 0
  \/ /\ Unsent(i) /\ jobs'[i] # None /\ jobs'[i].sent = jobs[i].sent
     /\ jobs'[i].attempts = jobs[i].attempts + 1
  \/ \E st \in Statement : /\ st.id = i /\ Fence(st) /\ st.until # 0
                           /\ jobs'[i] = Applied(st, jobs[i])

\* A statement that is applied moves at most the row it names.
LEMMA ApplyMoves ==
  ASSUME Base, NEW st \in Statement, st.until # 0, Apply(st), NEW i \in Issues
  PROVE  RowMove(i)
  BY ApplyFacts DEF Base, RowMove

\* The API's steps on one row.
LEMMA ApiMoves ==
  ASSUME Base, NEW k \in Issues, ApiNext(k), NEW i \in Issues PROVE RowMove(i)
<1>1. CASE Consume(k)
  BY <1>1 DEF Consume, RowMove
<1>2. ASSUME NEW s \in Subjects, Issue(k, s) PROVE RowMove(i)
  <2>1. i # k => jobs'[i] = jobs[i] \/ (i \in superseded' /\ jobs'[i] = None)
    BY <1>2 DEF Issue, WithoutJobsOf, Base, TypeOK
  <2>2. i = k => i \notin issued /\ jobs'[i].until = 0
    BY <1>2 DEF Issue, WithoutJobsOf, Base, TypeOK
  <2>3. QED BY <2>1, <2>2 DEF RowMove, MayVanish
<1>3. QED BY <1>1, <1>2 DEF ApiNext

\* A worker's steps on one row.
LEMMA WorkerMoves ==
  ASSUME Base, NEW w \in Workers, WorkerNext(w), NEW i \in Issues PROVE RowMove(i)
<1>1. CASE ClaimJobs(w)
  <2>1. PICK s \in SUBSET Issues : ClaimMove(w, s)
    BY <1>1, ClaimFacts
  <2>2. i \in s => /\ Unsent(i) /\ jobs'[i] # None /\ jobs'[i].sent = jobs[i].sent
                   /\ jobs'[i].attempts = jobs[i].attempts + 1
    BY <2>1 DEF ClaimMove, ClaimedRow, Claimable
  <2>3. QED BY <2>1, <2>2 DEF ClaimMove, RowMove
<1>2. ASSUME NEW j \in Issues, NEW op \in {"mark", "retry", "fail"}, Record(w, j, op)
      PROVE  RowMove(i)
  <2>1. claim[w][j] # None /\ Apply(Outcome(w, j, op))
    BY <1>2 DEF Record, Step
  <2>2. Outcome(w, j, op) \in Statement /\ Outcome(w, j, op).until # 0
    <3>1. claim[w][j].at \in Nat
      BY <2>1 DEF Base, TypeOK, Claim
    <3>2. LeaseEnd(claim[w][j].at) # 0
      BY <3>1, OutboxAssumption DEF LeaseEnd
    <3>3. QED BY <2>1, <3>2, OutcomeFacts DEF Base
  <2>3. QED BY <2>1, <2>2, ApplyMoves
<1>3. ASSUME jobs' = jobs PROVE RowMove(i)
  BY <1>3 DEF RowMove
<1>4. CASE Admit(w) \/ ClaimFails(w) \/ Release(w) \/ Shutdown(w) \/ Crash(w)
  <2>1. Admit(w) \/ ClaimFails(w) \/ Release(w) => jobs' = jobs
    BY DEF Admit, ClaimFails, Release, rows
  <2>2. Shutdown(w) => jobs' = jobs
    BY DEF Shutdown, rows
  <2>3. Crash(w) => jobs' = jobs
    BY DEF Crash, rows
  <2>4. QED BY <1>3, <1>4, <2>1, <2>2, <2>3
<1>5. ASSUME NEW j \in Issues, LaneNext(w, j) PROVE RowMove(i)
  BY <1>2, <1>3, <1>5 DEF LaneNext, RejectToken, StartSend, SendAccepted, SendUnclear,
     SendRejected, LaneDies, MarkFails, rows
<1>6. QED BY <1>1, <1>4, <1>5 DEF WorkerNext

\* Every step on one row.
LEMMA RowMoves ==
  ASSUME Base, [Next]_vars, NEW i \in Issues PROVE RowMove(i)
<1>1. ASSUME jobs' = jobs PROVE RowMove(i)
  BY <1>1 DEF RowMove
<1>2. CASE Tick \/ UNCHANGED vars
  BY <1>1, <1>2 DEF Tick, vars, rows
<1>3. ASSUME NEW st \in late, ApplyLate(st) PROVE RowMove(i)
  <2>1. st \in Statement /\ st.until # 0
    BY OutboxAssumption DEF Base, TypeOK, LateOK, LeaseEnd, Statement
  <2>2. QED BY <1>3, <2>1, ApplyMoves DEF ApplyLate
<1>4. ASSUME NEW st \in late, LoseLate(st) PROVE RowMove(i)
  BY <1>1, <1>4 DEF LoseLate, rows
<1>5. ASSUME NEW t \in Reading, Cleanup(t) PROVE RowMove(i)
  <2> SUFFICES ASSUME StaleToken(i, t) \/ Settled(i, t), Unsent(i)
               PROVE  MayVanish(i)
    BY <1>5 DEF Cleanup, RowMove, MayVanish
  <2>1. t \in Nat /\ t <= now + Skew /\ now \in Nat
    BY OutboxAssumption DEF Reading, Base, TypeOK
  <2>2. CASE StaleToken(i, t)
    <3>1. tokens[i] \in Token
      BY <2>2 DEF StaleToken, Base, TypeOK
    <3>2. QED BY <2>1, <2>2, <3>1, OutboxAssumption DEF StaleToken, MayVanish, Token
  <2>3. CASE Settled(i, t)
    <3>1. jobs[i] \in Job /\ jobs[i].sent = 0
      BY DEF Unsent, Present, Base, TypeOK
    <3>2. jobs[i].attempts = MaxAttempts
      BY <2>3, <3>1, OutboxAssumption DEF Settled, Job
    <3>3. QED BY <3>2 DEF MayVanish
  <2>4. QED BY <2>2, <2>3
<1>6. QED BY <1>2, <1>3, <1>4, <1>5, ApiMoves, WorkerMoves DEF Next

-----------------------------------------------------------------------------
(* Sent jobs and superseded jobs.                                           *)

\* A sent row is leased by nobody; a superseded token has no unsent job.
SettledInv ==
  /\ \A i \in Issues : Present(i) /\ jobs[i].sent # 0 => jobs[i].until = 0
  /\ \A i \in superseded : ~Unsent(i)

RowInv == Base /\ SettledInv

\* Applying a statement unleases the row and does not forget a sending.
LEMMA AppliedSettles ==
  ASSUME NEW st \in Statement, NEW row \in Job
  PROVE  /\ Applied(st, row).until = 0
         /\ row.sent # 0 => Applied(st, row).sent # 0
<1>1. st.at # 0 /\ st.op \in {"mark", "retry", "fail"}
  BY DEF Statement
<1>2. CASE st.op = "mark"
  BY <1>1, <1>2 DEF Applied, Job
<1>3. CASE st.op = "retry"
  BY <1>3 DEF Applied, Job
<1>4. CASE st.op = "fail"
  BY <1>4 DEF Applied, Job
<1>5. QED BY <1>1, <1>2, <1>3, <1>4

\* A recorded row is still a row.
LEMMA AppliedIsRow ==
  ASSUME NEW st \in Statement, NEW row \in Job PROVE Applied(st, row) # None
<1>1. Applied(st, row) \in Job
  <2>1. CASE st.op = "mark"
    BY <2>1, OutboxAssumption DEF Applied, Statement, Job
  <2>2. CASE st.op = "retry"
    BY <2>2, OutboxAssumption DEF Applied, Statement, Job
  <2>3. CASE st.op = "fail"
    <3>1. Applied(st, row) = [row EXCEPT !.attempts = MaxAttempts, !.until = 0,
                                         !.updated = st.at]
      BY <2>3 DEF Applied
    <3>2. st.at \in Nat
      BY DEF Statement
    <3>3. QED BY <3>1, <3>2, RowExhausted
  <2>4. QED BY <2>1, <2>2, <2>3 DEF Statement
<1>2. QED BY <1>1, OutboxAssumption

\* A job gets into a worker's hands by ClaimJobs alone.
LEMMA OnlyClaimsClaim ==
  ASSUME Base, [Next]_vars, NEW w \in Workers, NEW i \in Issues,
         claim[w][i] = None, claim'[w][i] # None
  PROVE  ClaimJobs(w)
<1> SUFFICES ASSUME ~ClaimJobs(w) PROVE claim'[w][i] = None
  OBVIOUS
<1>1. ASSUME claim' = claim PROVE claim'[w][i] = None
  BY <1>1
<1>2. CASE Tick \/ UNCHANGED vars
  BY <1>1, <1>2 DEF Tick, vars, batch
<1>3. ASSUME NEW k \in Issues, ApiNext(k) PROVE claim'[w][i] = None
  BY <1>1, <1>3 DEF ApiNext, Consume, Issue, batch
<1>4. ASSUME NEW st \in late, ApplyLate(st) \/ LoseLate(st) PROVE claim'[w][i] = None
  BY <1>1, <1>4 DEF ApplyLate, LoseLate, batch
<1>5. ASSUME NEW t \in Reading, Cleanup(t) PROVE claim'[w][i] = None
  BY <1>1, <1>5 DEF Cleanup, batch
<1>6. ASSUME NEW v \in Workers, WorkerNext(v) PROVE claim'[w][i] = None
  <2>1. CASE ClaimJobs(v)
    <3>1. v # w
      BY <2>1
    <3>2. PICK s \in SUBSET Issues : ClaimMove(v, s)
      BY <2>1, ClaimFacts
    <3>3. QED BY <3>1, <3>2 DEF ClaimMove
  <2>2. CASE Admit(v) \/ ClaimFails(v) \/ Release(v)
    BY <1>1, <2>2 DEF Admit, ClaimFails, Release
  <2>3. CASE Shutdown(v) \/ Crash(v)
    <3>1. Shutdown(v) => claim'[w][i] \in {claim[w][i], None}
      BY DEF Shutdown, Base, TypeOK
    <3>2. Crash(v) => claim' = [claim EXCEPT ![v] = NoClaims]
      BY DEF Crash
    <3>3. QED BY <2>3, <3>1, <3>2 DEF NoClaims, Base, TypeOK
  <2>4. ASSUME NEW j \in Issues, LaneNext(v, j) PROVE claim'[w][i] = None
    <3>1. ASSUME NEW step \in {"queued", "sending", "marking", "retrying", "failing"},
                 claim[v][j] # None, Becomes(v, j, step)
          PROVE  claim'[w][i] = None
      BY <3>1, BecomesFacts DEF Base
    <3>2. ASSUME NEW op \in {"mark", "retry", "fail"}, Record(v, j, op)
          PROVE  claim'[w][i] = None
      BY <3>2, DropFacts DEF Record, LaneDone, Base
    <3>3. ASSUME NEW op \in {"mark", "retry", "fail"}, LaneDies(v, j, op)
          PROVE  claim'[w][i] = None
      BY <3>3 DEF LaneDies, NoClaims, Base, TypeOK
    <3>4. QED BY <2>4, <3>1, <3>2, <3>3 DEF LaneNext, RejectToken, StartSend,
         TakeNext, SendAccepted, SendUnclear, AfterRetryableError, SendRejected,
         MarkFails, Step
  <2>5. QED BY <1>6, <2>1, <2>2, <2>3, <2>4 DEF WorkerNext
<1>7. QED BY <1>2, <1>3, <1>4, <1>5, <1>6 DEF Next

\* What the API invalidates has no unsent job left; nothing else is added.
LEMMA SupersededGrows ==
  ASSUME Base, [Next]_vars, NEW i \in superseded', i \notin superseded
  PROVE  i \in issued /\ ~Unsent(i)'
<1>1. PICK k \in Issues, s \in Subjects : Issue(k, s)
  <2>1. superseded' # superseded
    OBVIOUS
  <2>2. Tick \/ UNCHANGED vars => superseded' = superseded
    BY DEF Tick, vars, rows
  <2>3. \A k \in Issues : Consume(k) => superseded' = superseded
    BY DEF Consume
  <2>4. \A st \in late : ApplyLate(st) \/ LoseLate(st) => superseded' = superseded
    BY DEF ApplyLate, LoseLate, rows
  <2>5. \A t \in Reading : Cleanup(t) => superseded' = superseded
    BY DEF Cleanup
  <2>6. ASSUME NEW w \in Workers, WorkerNext(w) PROVE superseded' = superseded
    <3>1. Admit(w) \/ ClaimFails(w) \/ Release(w) => superseded' = superseded
      BY DEF Admit, ClaimFails, Release, rows
    <3>2. ClaimJobs(w) => superseded' = superseded
      BY DEF ClaimJobs
    <3>3. Shutdown(w) => superseded' = superseded
      BY DEF Shutdown, rows
    <3>4. Crash(w) => superseded' = superseded
      BY DEF Crash, rows
    <3>5. \A j \in Issues : LaneNext(w, j) => superseded' = superseded
      BY DEF LaneNext, RejectToken, StartSend, SendAccepted, SendUnclear,
             SendRejected, Record, LaneDies, MarkFails, rows
    <3>6. QED BY <2>6, <3>1, <3>2, <3>3, <3>4, <3>5 DEF WorkerNext
  <2>7. QED BY <2>1, <2>2, <2>3, <2>4, <2>5, <2>6 DEF Next, ApiNext
<1>2. i \in Live(s)
  BY <1>1 DEF Issue
<1>3. i \in issued /\ i \in Issues
  BY <1>2 DEF Live, Base, Fresh
<1>4. jobs'[i] = WithoutJobsOf(s)[i]
  BY <1>1, <1>3 DEF Issue, WithoutJobsOf
<1>5. QED BY <1>2, <1>3, <1>4 DEF WithoutJobsOf, Unsent, Present

\* The invariant of sent and superseded rows holds initially and is kept.
LEMMA RowInit == Init => RowInv
<1>1. Init => SettledInv
  BY DEF Init, SettledInv, Present
<1>2. QED BY <1>1, BaseInit DEF RowInv

LEMMA RowStep == RowInv /\ [Next]_vars => RowInv'
<1> SUFFICES ASSUME Base, SettledInv, [Next]_vars, Base' PROVE SettledInv'
  BY BaseStep DEF RowInv
<1>1. ASSUME NEW i \in Issues, Present(i)', jobs'[i].sent # 0
      PROVE  jobs'[i].until = 0
  <2>1. CASE \E st \in Statement : /\ st.id = i /\ Fence(st)
                                   /\ jobs'[i] = Applied(st, jobs[i])
    BY <2>1, AppliedSettles DEF Fence, Present, Base, TypeOK
  <2>2. QED BY <1>1, <2>1, RowMoves DEF RowMove, SettledInv, Unsent, Present
<1>2. ASSUME NEW i \in superseded', Unsent(i)' PROVE FALSE
  <2>1. i \in superseded /\ i \in Issues /\ i \in issued
    BY <1>2, SupersededGrows DEF Base, TypeOK
  <2>2. ~Unsent(i)
    BY <2>1 DEF SettledInv
  <2>3. CASE \E st \in Statement : /\ st.id = i /\ Fence(st)
                                   /\ jobs'[i] = Applied(st, jobs[i])
    BY <1>2, <2>1, <2>2, <2>3, AppliedSettles
       DEF Fence, Unsent, Present, Base, TypeOK
  <2>4. QED BY <1>2, <2>1, <2>2, <2>3, RowMoves DEF RowMove, Unsent, Present
<1>3. QED BY <1>1, <1>2 DEF SettledInv

\* A job recorded as sent is never rewritten: the fence of every statement
\* still under way misses it, since it is leased by nobody.
THEOREM SentStaysSent == Spec => SentIsFinal
<1>1. RowInv /\ [Next]_vars =>
        \A i \in Issues : Present(i) /\ ~Unsent(i) => jobs'[i] \in {jobs[i], None}
  <2> SUFFICES ASSUME Base, SettledInv, [Next]_vars, NEW i \in Issues,
                      Present(i), ~Unsent(i)
               PROVE  jobs'[i] \in {jobs[i], None}
    BY DEF RowInv
  <2>1. i \in issued /\ jobs[i].until = 0
    BY DEF SettledInv, Unsent, Base, Fresh, Present
  <2>2. QED BY <2>1, RowMoves DEF RowMove, Fence
<1>2. QED BY <1>1, RowInit, RowStep, PTL DEF Spec, SentIsFinal

\* An unsent email disappears only when it is superseded, exhausted, used or
\* expired.
THEOREM VanishingMailIsDead == Spec => OnlyDeadMailVanishes
<1>1. Base /\ [Next]_vars => VanishingIsHarmless
  <2> SUFFICES ASSUME Base, [Next]_vars, NEW i \in Issues, Unsent(i), jobs'[i] = None
               PROVE  MayVanish(i)
    BY DEF VanishingIsHarmless, MayVanish
  <2>1. i \in issued /\ jobs[i] # None /\ jobs[i] \in Job
    BY DEF Unsent, Present, Base, Fresh, TypeOK
  <2>2. CASE \E st \in Statement : /\ st.id = i /\ Fence(st)
                                   /\ jobs'[i] = Applied(st, jobs[i])
    <3>1. PICK st \in Statement : st.id = i /\ Fence(st) /\ jobs'[i] = Applied(st, jobs[i])
      BY <2>2
    <3>2. jobs'[i] # None
      BY <2>1, <3>1, AppliedIsRow
    <3>3. QED BY <3>2
  <2>3. QED BY <2>1, <2>2, RowMoves DEF RowMove
<1>2. QED BY <1>1, BaseInit, BaseStep, PTL DEF Spec, OnlyDeadMailVanishes

\* No batch picks up the job of a link that a newer one superseded.
THEOREM SupersededIsQuiet == Spec => SupersededStaysQuiet
<1>1. RowInv /\ [Next]_vars =>
        \A w \in Workers, i \in Issues : NewClaim(w, i) => i \notin superseded
  <2> SUFFICES ASSUME Base, SettledInv, [Next]_vars, NEW w \in Workers, NEW i \in Issues,
                      claim[w][i] = None, claim'[w][i] # None
               PROVE  i \notin superseded
    BY DEF RowInv, NewClaim
  <2>1. ClaimJobs(w)
    BY OnlyClaimsClaim
  <2>2. PICK s \in SUBSET Issues : ClaimMove(w, s)
    BY <2>1, ClaimFacts
  <2>3. Unsent(i)
    BY <2>2 DEF ClaimMove, Claimable
  <2>4. QED BY <2>3 DEF SettledInv
<1>2. QED BY <1>1, RowInit, RowStep, PTL DEF Spec, SupersededStaysQuiet

-----------------------------------------------------------------------------
(* The calls of the provider.                                               *)

\* The workers that hold a claim of i they have not begun to send, and the
\* attempts of i made so far: all of them once its row is gone.
Queued(i) == {w \in Workers : Step(w, i, "queued")}
Tries(i) == IF Present(i) THEN jobs[i].attempts
            ELSE IF i \in issued THEN MaxAttempts ELSE 0

\* Every call was paid for by an attempt, and so is every call still to come.
CallsInv ==
  \A i \in Issues : /\ IsFiniteSet(Queued(i))
                    /\ calls[i] + Cardinality(Queued(i)) <= Tries(i)

\* The attempts made are a number no greater than MAX_ATTEMPTS.
LEMMA TriesBound ==
  ASSUME TypeOK, NEW i \in Issues PROVE Tries(i) \in 0..MaxAttempts
<1>1. Present(i) => jobs[i].attempts \in 0..MaxAttempts
  BY DEF TypeOK, Present, Job
<1>2. QED BY <1>1, OutboxAssumption DEF Tries

LEMMA TriesBoundNext ==
  ASSUME TypeOK', NEW i \in Issues PROVE Tries(i)' \in 0..MaxAttempts
<1>1. Present(i)' => jobs'[i].attempts \in 0..MaxAttempts
  BY DEF TypeOK, Present, Job
<1>2. QED BY <1>1, OutboxAssumption DEF Tries

\* Issues are only ever made.
LEMMA IssuedGrows == ASSUME [Next]_vars PROVE issued \subseteq issued'
<1>1. ASSUME NEW w \in Workers, WorkerNext(w) PROVE issued' = issued
  <2>1. Admit(w) \/ ClaimFails(w) \/ Release(w) => issued' = issued
    BY DEF Admit, ClaimFails, Release, rows
  <2>2. ClaimJobs(w) => issued' = issued
    BY DEF ClaimJobs
  <2>3. Shutdown(w) => issued' = issued
    BY DEF Shutdown, rows
  <2>4. Crash(w) => issued' = issued
    BY DEF Crash, rows
  <2>5. \A j \in Issues : LaneNext(w, j) => issued' = issued
    BY DEF LaneNext, RejectToken, StartSend, SendAccepted, SendUnclear,
           SendRejected, Record, LaneDies, MarkFails, rows
  <2>6. QED BY <1>1, <2>1, <2>2, <2>3, <2>4, <2>5 DEF WorkerNext
<1>2. ASSUME NEW st \in late, ApplyLate(st) \/ LoseLate(st) PROVE issued' = issued
  BY <1>2 DEF ApplyLate, LoseLate, rows
<1>3. ASSUME NEW k \in Issues, ApiNext(k) PROVE issued \subseteq issued'
  BY <1>3 DEF ApiNext, Consume, Issue
<1>4. ASSUME NEW t \in Reading, Cleanup(t) PROVE issued' = issued
  BY <1>4 DEF Cleanup
<1>5. Tick \/ UNCHANGED vars => issued' = issued
  BY DEF Tick, vars, rows
<1>6. QED BY <1>1, <1>2, <1>3, <1>4, <1>5 DEF Next

\* The attempts never become fewer.
LEMMA TriesGrow ==
  ASSUME Base, Base', [Next]_vars, NEW i \in Issues PROVE Tries(i) <= Tries(i)'
<1>1. Tries(i) \in 0..MaxAttempts /\ Tries(i)' \in 0..MaxAttempts
  BY TriesBound, TriesBoundNext DEF Base
<1>2. CASE jobs'[i] = jobs[i]
  BY <1>1, <1>2, IssuedGrows DEF Tries, Present
<1>3. CASE jobs'[i] = None
  <2>1. i \in issued => Tries(i)' = MaxAttempts
    BY <1>3, IssuedGrows DEF Tries, Present
  <2>2. i \notin issued => Tries(i) = 0
    BY DEF Tries, Present, Base, Fresh
  <2>3. QED BY <1>1, <2>1, <2>2
<1>4. CASE i \notin issued
  <2>1. Tries(i) = 0
    BY <1>4 DEF Tries, Present, Base, Fresh
  <2>2. QED BY <1>1, <2>1
<1>5. ASSUME Unsent(i), jobs'[i] # None, jobs'[i].attempts = jobs[i].attempts + 1
      PROVE  Tries(i) <= Tries(i)'
  <2>1. jobs[i].attempts \in Nat /\ Tries(i) = jobs[i].attempts
    BY <1>5 DEF Tries, Unsent, Present, Base, TypeOK, Job
  <2>2. Tries(i)' = jobs'[i].attempts
    BY <1>5 DEF Tries, Present
  <2>3. QED BY <1>5, <2>1, <2>2
<1>6. ASSUME NEW st \in Statement, st.id = i, Fence(st), jobs'[i] = Applied(st, jobs[i])
      PROVE  Tries(i) <= Tries(i)'
  <2>1. jobs[i] \in Job /\ Tries(i) = jobs[i].attempts
    BY <1>6 DEF Fence, Tries, Present, Base, TypeOK
  <2>2. jobs'[i] # None
    BY <1>6, <2>1, AppliedIsRow
  <2>3. Tries(i)' = jobs'[i].attempts
    BY <2>2 DEF Tries, Present
  <2>4. jobs'[i].attempts \in {jobs[i].attempts, MaxAttempts}
    <3>1. st.op = "mark" => jobs'[i].attempts = jobs[i].attempts
      BY <1>6, <2>1 DEF Applied, Job
    <3>2. st.op = "retry" => jobs'[i].attempts = jobs[i].attempts
      BY <1>6, <2>1 DEF Applied, Job
    <3>3. st.op = "fail" => jobs'[i].attempts = MaxAttempts
      BY <1>6, <2>1 DEF Applied, Job
    <3>4. QED BY <3>1, <3>2, <3>3 DEF Statement
  <2>5. QED BY <1>1, <2>1, <2>3, <2>4
<1>7. QED BY <1>2, <1>3, <1>4, <1>5, <1>6, RowMoves DEF RowMove

\* Steps that queue nothing and call nobody keep the account.
LEMMA CallsFrame ==
  ASSUME Base, Base', CallsInv, [Next]_vars, NEW i \in Issues, calls'[i] = calls[i],
         \A w \in Workers : Step(w, i, "queued")' => Step(w, i, "queued")
  PROVE  /\ IsFiniteSet(Queued(i)')
         /\ calls'[i] + Cardinality(Queued(i)') <= Tries(i)'
<1> DEFINE Q == Queued(i)
           R == Queued(i)'
<1>1. R \subseteq Q
  BY DEF Queued
<1>2. IsFiniteSet(Q) /\ calls[i] + Cardinality(Q) <= Tries(i)
  BY DEF CallsInv
<1> HIDE DEF Q, R
<1>3. /\ IsFiniteSet(R) /\ Cardinality(R) \in Nat /\ Cardinality(Q) \in Nat
      /\ Cardinality(R) <= Cardinality(Q)
  BY <1>1, <1>2, FS_Subset, FS_CardinalityType
<1>4. Tries(i) <= Tries(i)' /\ Tries(i) \in Nat /\ Tries(i)' \in Nat
  BY TriesGrow, TriesBound, TriesBoundNext, OutboxAssumption DEF Base
<1>5. calls[i] \in Nat
  BY DEF Base, TypeOK
<1>6. IsFiniteSet(R) /\ calls'[i] + Cardinality(R) <= Tries(i)'
  BY <1>2, <1>3, <1>4, <1>5
<1>7. QED BY <1>6 DEF R

\* A claim queues the jobs it takes, and counts an attempt of each.
LEMMA CallsClaim ==
  ASSUME Base, Base', CallsInv, [Next]_vars, NEW w \in Workers, ClaimJobs(w)
  PROVE  CallsInv'
<1>1. PICK s \in SUBSET Issues : ClaimMove(w, s)
  BY ClaimFacts
<1>2. calls' = calls
  BY DEF ClaimJobs, outside
<1>3. ASSUME NEW i \in Issues, i \notin s
      PROVE  /\ IsFiniteSet(Queued(i)')
             /\ calls'[i] + Cardinality(Queued(i)') <= Tries(i)'
  <2>1. \A v \in Workers : Step(v, i, "queued")' => Step(v, i, "queued")
    BY <1>1, <1>3 DEF ClaimMove, Step
  <2>2. QED BY <1>2, <2>1, CallsFrame
<1>4. ASSUME NEW i \in s
      PROVE  /\ IsFiniteSet(Queued(i)')
             /\ calls'[i] + Cardinality(Queued(i)') <= Tries(i)'
  <2> DEFINE Q == Queued(i)
             R == Queued(i)'
  <2>1. R \subseteq Q \cup {w} /\ i \in Issues
    BY <1>1 DEF ClaimMove, Queued, Step
  <2>2. IsFiniteSet(Q) /\ calls[i] + Cardinality(Q) <= Tries(i)
    BY <2>1 DEF CallsInv
  <2>3. Tries(i)' = Tries(i) + 1 /\ Tries(i) \in Nat
    <3>1. jobs'[i] # None /\ jobs'[i].attempts = jobs[i].attempts + 1 /\ jobs[i] # None
      BY <1>1 DEF ClaimMove, ClaimedRow, Claimable, Unsent, Present
    <3>2. QED BY <2>1, <3>1, TriesBound DEF Tries, Present, Base
  <2> HIDE DEF Q, R
  <2>4. IsFiniteSet(Q \cup {w}) /\ Cardinality(Q \cup {w}) <= Cardinality(Q) + 1
    <3>1. Cardinality(Q) \in Nat
      BY <2>2, FS_CardinalityType
    <3>2. /\ IsFiniteSet(Q \cup {w})
          /\ Cardinality(Q \cup {w}) \in {Cardinality(Q), Cardinality(Q) + 1}
      BY <2>2, FS_AddElement
    <3>3. QED BY <3>1, <3>2
  <2>5. /\ IsFiniteSet(R) /\ Cardinality(R) \in Nat /\ Cardinality(Q) \in Nat
        /\ Cardinality(Q \cup {w}) \in Nat
        /\ Cardinality(R) <= Cardinality(Q \cup {w})
    BY <2>1, <2>2, <2>4, FS_Subset, FS_CardinalityType
  <2>6. calls[i] \in Nat
    BY <2>1 DEF Base, TypeOK
  <2>7. IsFiniteSet(R) /\ calls'[i] + Cardinality(R) <= Tries(i)'
    BY <1>2, <2>2, <2>3, <2>4, <2>5, <2>6
  <2>8. QED BY <2>7 DEF R
<1>5. QED BY <1>1, <1>3, <1>4 DEF CallsInv

\* A lane that moves on takes its own claim out of the queue.
LEMMA BecomesUnqueued ==
  ASSUME TypeOK, NEW w \in Workers, NEW i \in Issues, claim[w][i] # None,
         NEW step \in {"sending", "marking", "retrying", "failing"},
         Becomes(w, i, step)
  PROVE  /\ \A v \in Workers, j \in Issues :
              Step(v, j, "queued")' => Step(v, j, "queued")
         /\ ~Step(w, i, "queued")'
<1> DEFINE c == [claim[w][i] EXCEPT !.step = step]
<1>1. claim[w][i] \in Claim
  BY DEF TypeOK
<1>2. c.step = step
  BY <1>1 DEF Claim
<1>3. claim' = [claim EXCEPT ![w] = [claim[w] EXCEPT ![i] = c]]
  BY DEF TypeOK, Becomes
<1> HIDE DEF c
<1>4. \A v \in Workers, j \in Issues :
        claim'[v][j] = IF v = w /\ j = i THEN c ELSE claim[v][j]
  BY <1>3 DEF TypeOK
<1>5. QED BY <1>2, <1>4 DEF Step

\* A call uses up the claim it was made for.
LEMMA CallsSend ==
  ASSUME Base, Base', CallsInv, [Next]_vars, NEW w \in Workers, NEW k \in Issues,
         StartSend(w, k)
  PROVE  CallsInv'
<1>0. claim[w][k] # None /\ Becomes(w, k, "sending") /\ Step(w, k, "queued")
  BY DEF StartSend, TakeNext, Step
<1>1. /\ \A v \in Workers, j \in Issues : Step(v, j, "queued")' => Step(v, j, "queued")
      /\ ~Step(w, k, "queued")'
  BY <1>0, BecomesUnqueued DEF Base
<1>2. \A i \in Issues : i # k => calls'[i] = calls[i]
  BY DEF StartSend, Base, TypeOK
<1>3. calls'[k] = calls[k] + 1 /\ calls[k] \in Nat
  BY DEF StartSend, Base, TypeOK
<1>4. ASSUME NEW i \in Issues, i # k
      PROVE  /\ IsFiniteSet(Queued(i)')
             /\ calls'[i] + Cardinality(Queued(i)') <= Tries(i)'
  BY <1>1, <1>2, <1>4, CallsFrame
<1>5. /\ IsFiniteSet(Queued(k)')
      /\ calls'[k] + Cardinality(Queued(k)') <= Tries(k)'
  <2> DEFINE Q == Queued(k)
             R == Queued(k)'
  <2>1. R \subseteq Q \ {w} /\ w \in Q
    BY <1>0, <1>1 DEF Queued
  <2>2. IsFiniteSet(Q) /\ calls[k] + Cardinality(Q) <= Tries(k)
    BY DEF CallsInv
  <2>3. Tries(k) <= Tries(k)' /\ Tries(k) \in Nat /\ Tries(k)' \in Nat
    BY TriesGrow, TriesBound, TriesBoundNext, OutboxAssumption DEF Base
  <2> HIDE DEF Q, R
  <2>4. IsFiniteSet(Q \ {w}) /\ Cardinality(Q \ {w}) = Cardinality(Q) - 1
    BY <2>1, <2>2, FS_RemoveElement
  <2>5. /\ IsFiniteSet(R) /\ Cardinality(R) \in Nat /\ Cardinality(Q) \in Nat
        /\ Cardinality(R) <= Cardinality(Q \ {w})
    BY <2>1, <2>2, <2>4, FS_Subset, FS_CardinalityType
  <2>6. IsFiniteSet(R) /\ calls'[k] + Cardinality(R) <= Tries(k)'
    BY <1>3, <2>2, <2>3, <2>4, <2>5
  <2>7. QED BY <2>6 DEF R
<1>6. QED BY <1>4, <1>5 DEF CallsInv

\* Every other step queues nothing and calls nobody.
LEMMA CallsOthers ==
  ASSUME Base, [Next]_vars, \A w \in Workers : ~ClaimJobs(w),
         \A w \in Workers, i \in Issues : ~StartSend(w, i)
  PROVE  /\ calls' = calls
         /\ \A v \in Workers, j \in Issues :
              Step(v, j, "queued")' => Step(v, j, "queued")
<1> DEFINE Goal == /\ calls' = calls
                   /\ \A v \in Workers, j \in Issues :
                        Step(v, j, "queued")' => Step(v, j, "queued")
<1>1. ASSUME calls' = calls, claim' = claim PROVE Goal
  BY <1>1 DEF Step
<1>2. CASE Tick \/ UNCHANGED vars
  BY <1>1, <1>2 DEF Tick, vars, batch, outside
<1>3. ASSUME NEW k \in Issues, ApiNext(k) PROVE Goal
  BY <1>1, <1>3 DEF ApiNext, Consume, Issue, batch, outside
<1>4. ASSUME NEW st \in late, ApplyLate(st) \/ LoseLate(st) PROVE Goal
  BY <1>1, <1>4 DEF ApplyLate, LoseLate, batch, outside
<1>5. ASSUME NEW t \in Reading, Cleanup(t) PROVE Goal
  BY <1>1, <1>5 DEF Cleanup, batch, outside
<1>6. ASSUME NEW w \in Workers, WorkerNext(w) PROVE Goal
  <2>1. CASE Admit(w) \/ ClaimFails(w) \/ Release(w)
    BY <1>1, <2>1 DEF Admit, ClaimFails, Release, outside
  <2>2. CASE Shutdown(w)
    <3>1. \A v \in Workers, j \in Issues : claim'[v][j] \in {claim[v][j], None}
      BY <2>2 DEF Shutdown, Base, TypeOK
    <3>2. QED BY <2>2, <3>1 DEF Shutdown, outside, Step
  <2>3. CASE Crash(w)
    <3>1. calls' = calls /\ claim' = [claim EXCEPT ![w] = NoClaims]
      BY <2>3 DEF Crash, outside
    <3>2. \A v \in Workers, j \in Issues : claim'[v][j] \in {claim[v][j], None}
      BY <3>1 DEF NoClaims, Base, TypeOK
    <3>3. QED BY <3>1, <3>2 DEF Step
  <2>4. ASSUME NEW i \in Issues, LaneNext(w, i) PROVE Goal
    <3>1. ASSUME NEW step \in {"sending", "marking", "retrying", "failing"},
                 claim[w][i] # None, Becomes(w, i, step), calls' = calls
          PROVE  Goal
      BY <3>1, BecomesUnqueued DEF Base
    <3>2. ASSUME NEW op \in {"mark", "retry", "fail"}, Record(w, i, op) PROVE Goal
      <4>1. \A v \in Workers, j \in Issues : claim'[v][j] \in {claim[v][j], None}
        BY <3>2, DropFacts DEF Record, LaneDone, Base
      <4>2. QED BY <3>2, <4>1 DEF Record, outside, Step
    <3>3. ASSUME NEW op \in {"mark", "retry", "fail"}, LaneDies(w, i, op) PROVE Goal
      <4>1. \A v \in Workers, j \in Issues : claim'[v][j] \in {claim[v][j], None}
        BY <3>3 DEF LaneDies, NoClaims, Base, TypeOK
      <4>2. QED BY <3>3, <4>1 DEF LaneDies, outside, Step
    <3>4. CASE SendUnclear(w, i) \/ MarkFails(w, i)
      <4>1. /\ claim[w][i] # None /\ calls' = calls
            /\ Becomes(w, i, "failing") \/ Becomes(w, i, "retrying")
        BY <3>4 DEF SendUnclear, MarkFails, AfterRetryableError, Step, outside
      <4>2. QED BY <3>1, <4>1
    <3>5. CASE RejectToken(w, i) \/ SendAccepted(w, i) \/ SendRejected(w, i)
      <4>1. /\ claim[w][i] # None /\ calls' = calls
            /\ Becomes(w, i, "failing") \/ Becomes(w, i, "marking")
        BY <3>5 DEF RejectToken, TakeNext, SendAccepted, SendRejected, Step, outside
      <4>2. QED BY <3>1, <4>1
    <3>6. QED BY <2>4, <3>2, <3>3, <3>4, <3>5 DEF LaneNext
  <2>5. QED BY <1>6, <2>1, <2>2, <2>3, <2>4 DEF WorkerNext
<1>7. QED BY <1>2, <1>3, <1>4, <1>5, <1>6 DEF Next

\* The account of the calls is opened even and kept even.
LEMMA CallsInit == Init => CallsInv
<1> SUFFICES ASSUME Init, NEW i \in Issues
             PROVE  /\ IsFiniteSet(Queued(i))
                    /\ calls[i] + Cardinality(Queued(i)) <= Tries(i)
  BY DEF CallsInv
<1>1. Queued(i) = {}
  BY DEF Init, Queued, Step
<1>2. Tries(i) = 0 /\ calls[i] = 0
  BY DEF Init, Tries, Present
<1>3. QED BY <1>1, <1>2, FS_EmptySet

LEMMA CallsStep == Base /\ CallsInv /\ [Next]_vars => CallsInv'
<1> SUFFICES ASSUME Base, CallsInv, [Next]_vars, Base' PROVE CallsInv'
  BY BaseStep
<1>1. CASE \E w \in Workers : ClaimJobs(w)
  BY <1>1, CallsClaim
<1>2. CASE \E w \in Workers, k \in Issues : StartSend(w, k)
  BY <1>2, CallsSend
<1>3. CASE /\ \A w \in Workers : ~ClaimJobs(w)
           /\ \A w \in Workers, i \in Issues : ~StartSend(w, i)
  <2>1. /\ calls' = calls
        /\ \A v \in Workers, j \in Issues :
             Step(v, j, "queued")' => Step(v, j, "queued")
    BY <1>3, CallsOthers
  <2>2. QED BY <2>1, CallsFrame DEF CallsInv
<1>4. QED BY <1>1, <1>2, <1>3

\* Takeovers, crashes, retries, lost replies and late statements together call
\* the provider at most MAX_ATTEMPTS times for one job: each call uses up one
\* claim, and each claim has counted one attempt in the row.
THEOREM CallsAreBounded == Spec => []ProviderCallsBounded
<1>1. Base /\ CallsInv => ProviderCallsBounded
  <2> SUFFICES ASSUME Base, CallsInv, NEW i \in Issues PROVE calls[i] <= MaxAttempts
    BY DEF ProviderCallsBounded
  <2>1. /\ Cardinality(Queued(i)) \in Nat /\ calls[i] \in Nat
        /\ calls[i] + Cardinality(Queued(i)) <= Tries(i)
    BY FS_CardinalityType DEF CallsInv, Base, TypeOK
  <2>2. Tries(i) \in 0..MaxAttempts
    BY TriesBound DEF Base
  <2>3. QED BY <2>1, <2>2, OutboxAssumption
<1>2. QED BY <1>1, BaseInit, BaseStep, CallsInit, CallsStep, PTL DEF Spec
=============================================================================
