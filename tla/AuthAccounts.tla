---------------------------- MODULE AuthAccounts ----------------------------
(***************************************************************************)
(* One account of the local authentication: its row, its action tokens and *)
(* its sessions in PostgreSQL, under the requests of AuthService that sign *)
(* up, ask for a link, follow a link, sign in and sign out at once.        *)
(*                                                                         *)
(* A step is one SQL statement.  A transaction keeps the rows it changed   *)
(* locked, and its changes to itself, until it commits; a statement that   *)
(* needs a locked row waits, and then decides on the row as committed      *)
(* (READ COMMITTED).  Plain reads see the committed rows and never wait.   *)
(*                                                                         *)
(* Addresses share no rows, so one is enough.  A password matters only     *)
(* through its hash, and every hashing gives a new value (random salt).  A *)
(* refused request (rate limit, wrong password, bad or expired token)      *)
(* changes nothing and is not a step.                                      *)
(***************************************************************************)
EXTENDS Integers, FiniteSets

CONSTANTS Requests,        \* request slots of all API processes
          Hashes,          \* password hashes
          Legacy,          \* hashes the hasher would renew at sign-in
          Tokens,          \* identifiers of action tokens
          Sessions,        \* identifiers of sessions
          InitialAccounts, \* account rows the address may start with
          AccountRow,      \* the lock of the account's row
          MaxVersion,      \* bound on credential versions
          None

VARIABLES
  account,   \* the committed row of auth_accounts, or None
  tokens,    \* committed rows of auth_tokens
  sessions,  \* committed rows of auth_sessions
  lock,      \* the request whose transaction holds each row
  pc,        \* the next statement of each request
  purpose,   \* the purpose of the link a request asks for or follows
  hash,      \* the hash a request computed
  token,     \* the token a request issues or consumes
  session,   \* the session id a request generated
  expected,  \* the account a sign-in verified its password against
  draft,     \* the account row a transaction wrote and has not committed
  hit        \* rows a transaction has invalidated and not committed

database == <<account, tokens, sessions>>
locals   == <<pc, purpose, hash, token, session, expected, draft, hit>>
vars     == <<database, lock, locals>>

-----------------------------------------------------------------------------
Purposes == {"verify_email", "reset_password"}

Account == [hash : Hashes, version : Nat \ {0}, verified : BOOLEAN]

\* "confirms" is history: the account's hash when the token was issued.
Token == [purpose : Purposes, consumed : BOOLEAN, confirms : Hashes]

\* "born" is history: the credential version the session was created under.
Session == [born : Nat \ {0}, revoked : BOOLEAN]

Rows == {AccountRow} \cup Tokens

ASSUME AccountsAssumption ==
  /\ Legacy \subseteq Hashes
  /\ InitialAccounts \subseteq Account \cup {None}
  /\ AccountRow \notin Tokens
  /\ None \notin Account \cup Token \cup Session
  /\ None \notin Requests \cup Hashes \cup Tokens \cup Sessions
  /\ None \notin Purposes
  /\ MaxVersion \in Nat

Init ==
  /\ account \in InitialAccounts
  /\ tokens = [t \in Tokens |-> None]
  /\ sessions = [s \in Sessions |-> None]
  /\ lock = [x \in Rows |-> None]
  /\ pc = [r \in Requests |-> "idle"]
  /\ purpose = [r \in Requests |-> None]
  /\ hash = [r \in Requests |-> None]
  /\ token = [r \in Requests |-> None]
  /\ session = [r \in Requests |-> None]
  /\ expected = [r \in Requests |-> None]
  /\ draft = [r \in Requests |-> None]
  /\ hit = [r \in Requests |-> {}]

-----------------------------------------------------------------------------
Free(x) == lock[x] = None
Goto(r, p) == pc' = [pc EXCEPT ![r] = p]

\* Mutant: an error leaves the transaction open.
UnlockedKept(r) ==
  [x \in Rows |-> IF lock[x] = r /\ pc[r] \in {"insert", "verify", "commit"}
                  THEN None ELSE lock[x]]

\* The locks after r's transaction has ended.
Unlocked(r) == [x \in Rows |-> IF lock[x] = r THEN None ELSE lock[x]]

\* The request is over: its transaction, if any, is committed or rolled back.
End(r) ==
  /\ Goto(r, "idle")
  /\ lock' = Unlocked(r)
  /\ purpose' = [purpose EXCEPT ![r] = None]
  /\ hash' = [hash EXCEPT ![r] = None]
  /\ token' = [token EXCEPT ![r] = None]
  /\ session' = [session EXCEPT ![r] = None]
  /\ expected' = [expected EXCEPT ![r] = None]
  /\ draft' = [draft EXCEPT ![r] = None]
  /\ hit' = [hit EXCEPT ![r] = {}]

\* randomUuid: an identifier nobody else has.
NewToken(t)   == tokens[t] = None /\ \A r \in Requests : token[r] # t
NewSession(s) == sessions[s] = None /\ \A r \in Requests : session[r] # s

Hashed(row, h) == row # None /\ row.hash = h

\* passwordHasher.hash with a fresh salt: a value found nowhere else.
NewHash(h) ==
  /\ h \notin Legacy
  /\ ~Hashed(account, h)
  /\ \A t \in Tokens : tokens[t] # None => tokens[t].confirms # h
  /\ \A r \in Requests : hash[r] # h /\ ~Hashed(expected[r], h)

ComputeHash(r) == \E h \in Hashes : NewHash(h) /\ hash' = [hash EXCEPT ![r] = h]

Live(p) == {t \in Tokens : tokens[t] # None /\ tokens[t].purpose = p
                           /\ ~tokens[t].consumed}

-----------------------------------------------------------------------------
(* signUp, resendVerificationEmail and forgotPassword issue a link.         *)

SignUp(r) ==
  /\ pc[r] = "idle"
  /\ Goto(r, "upsert")
  /\ ComputeHash(r)
  /\ purpose' = [purpose EXCEPT ![r] = "verify_email"]
  /\ \E t \in Tokens : NewToken(t) /\ token' = [token EXCEPT ![r] = t]
  /\ UNCHANGED <<database, lock, session, expected, draft, hit>>

\* Mutant: the inserted row has no credential version.
RegisteredUnversioned(h) ==
  IF account = None THEN [hash |-> h, verified |-> FALSE]
                    ELSE [account EXCEPT !.hash = h]

\* The row buildUpsertPendingAccountQuery writes.
Registered(h) ==
  IF account = None THEN [hash |-> h, version |-> 1, verified |-> FALSE]
                    ELSE [account EXCEPT !.hash = h]

\* registerPending inserts the account, or replaces the hash of one that is
\* not verified yet; a verified account ends the transaction.
UpsertAccount(r) ==
  /\ pc[r] = "upsert"
  /\ Free(AccountRow)
  /\ IF account = None \/ ~account.verified
     THEN /\ draft' = [draft EXCEPT ![r] = Registered(hash[r])]
          /\ lock' = [lock EXCEPT ![AccountRow] = r]
          /\ Goto(r, "invalidate")
          /\ UNCHANGED <<purpose, hash, token, session, expected, hit>>
     ELSE End(r)
  /\ UNCHANGED database

\* The account may get a link of this purpose.
Eligible(p) == account # None /\ account.verified = (p = "reset_password")

\* findAccountByEmailKey finds an eligible account.
RequestLink(r, p) ==
  /\ pc[r] = "idle"
  /\ Eligible(p)
  /\ Goto(r, "find")
  /\ purpose' = [purpose EXCEPT ![r] = p]
  /\ \E t \in Tokens : NewToken(t) /\ token' = [token EXCEPT ![r] = t]
  /\ UNCHANGED <<database, lock, hash, session, expected, draft, hit>>

\* Mutant: queueActionEmail selects the account without FOR UPDATE.
LinkLockNone(r) == UNCHANGED lock

LinkLock(r) == Free(AccountRow) /\ lock' = [lock EXCEPT ![AccountRow] = r]

\* queueActionEmail selects the eligible account FOR UPDATE.
FindEligible(r) ==
  /\ pc[r] = "find"
  /\ IF Eligible(purpose[r])
     THEN /\ LinkLock(r)
          /\ Goto(r, "invalidate")
          /\ UNCHANGED <<purpose, hash, token, session, expected, draft, hit>>
     ELSE End(r)
  /\ UNCHANGED database

\* Mutant: the older tokens stay valid.
InvalidatedNone(r) == {}

\* The tokens buildInvalidateTokensAndJobsQuery consumes.
Invalidated(r) == Live(purpose[r])

InvalidateTokens(r) ==
  /\ pc[r] = "invalidate"
  /\ \A t \in Invalidated(r) : Free(t)
  /\ lock' = [x \in Rows |-> IF x \in Invalidated(r) THEN r ELSE lock[x]]
  /\ hit' = [hit EXCEPT ![r] = Invalidated(r)]
  /\ Goto(r, "insert")
  /\ UNCHANGED <<database, purpose, hash, token, session, expected, draft>>

\* Insert the token and its email job, and commit.
InsertToken(r) ==
  /\ pc[r] = "insert"
  /\ account' = IF draft[r] # None THEN draft[r] ELSE account
  /\ tokens' = [t \in Tokens |->
       IF t = token[r] THEN [purpose |-> purpose[r], consumed |-> FALSE,
                             confirms |-> account'.hash]
       ELSE IF t \in hit[r] THEN [tokens[t] EXCEPT !.consumed = TRUE]
       ELSE tokens[t]]
  /\ End(r)
  /\ UNCHANGED sessions

-----------------------------------------------------------------------------
(* verifyEmail and resetPassword follow a link.                             *)

\* requireActionToken finds the token usable.
Follow(r, p) ==
  /\ pc[r] = "idle"
  /\ Goto(r, "consume")
  /\ purpose' = [purpose EXCEPT ![r] = p]
  /\ \E t \in Live(p) : token' = [token EXCEPT ![r] = t]
  /\ UNCHANGED <<database, lock, session, expected, draft, hit>>

FollowVerification(r) == /\ Follow(r, "verify_email")
                         /\ UNCHANGED hash
FollowReset(r) == /\ Follow(r, "reset_password")
                  /\ account.version < MaxVersion
                  /\ ComputeHash(r)

\* Mutant: the update relies on the read that preceded it.
UnconsumedUnchecked(t) == TRUE

\* consumed_at is null
Unconsumed(t) == ~tokens[t].consumed

\* The token's UPDATE of buildConsumeEmailVerificationQuery and
\* buildConsumePasswordResetQuery.  Expiry is compared with the same time as
\* in requireActionToken and so is decided there.
ConsumeToken(r) ==
  /\ pc[r] = "consume"
  /\ Free(token[r])
  /\ IF Unconsumed(token[r])
     THEN /\ lock' = [lock EXCEPT ![token[r]] = r]
          /\ Goto(r, IF purpose[r] = "verify_email" THEN "verify" ELSE "password")
          /\ UNCHANGED <<purpose, hash, token, session, expected, draft, hit>>
     ELSE End(r)
  /\ UNCHANGED database

Consumed(r) == [tokens EXCEPT ![token[r]].consumed = TRUE]

\* The account's UPDATE in the same statement, which commits both.
VerifyAccount(r) ==
  /\ pc[r] = "verify"
  /\ Free(AccountRow)
  /\ account' = [account EXCEPT !.verified = TRUE]
  /\ tokens' = Consumed(r)
  /\ End(r)
  /\ UNCHANGED sessions

\* resetPasswordAndRevokeSessions: the new hash and the next version ...
UpdatePassword(r) ==
  /\ pc[r] = "password"
  /\ Free(AccountRow)
  /\ lock' = [lock EXCEPT ![AccountRow] = r]
  /\ draft' = [draft EXCEPT ![r] =
                 [account EXCEPT !.hash = hash[r], !.version = @ + 1]]
  /\ Goto(r, "revoke")
  /\ UNCHANGED <<database, purpose, hash, token, session, expected, hit>>

\* ... every session that is not revoked ...
RevokeSessions(r) ==
  /\ pc[r] = "revoke"
  /\ hit' = [hit EXCEPT ![r] =
               {s \in Sessions : sessions[s] # None /\ ~sessions[s].revoked}]
  /\ Goto(r, "commit")
  /\ UNCHANGED <<database, lock, purpose, hash, token, session, expected,
                 draft>>

\* ... and the commit.
CommitReset(r) ==
  /\ pc[r] = "commit"
  /\ account' = draft[r]
  /\ tokens' = Consumed(r)
  /\ sessions' = [s \in Sessions |->
       IF s \in hit[r] THEN [sessions[s] EXCEPT !.revoked = TRUE]
                       ELSE sessions[s]]
  /\ End(r)

-----------------------------------------------------------------------------
(* signIn and signOut.                                                      *)

\* The right password for a verified account, as read now.
SignIn(r) ==
  /\ pc[r] = "idle"
  /\ account # None /\ account.verified
  /\ expected' = [expected EXCEPT ![r] = account]
  /\ \E s \in Sessions : NewSession(s) /\ session' = [session EXCEPT ![r] = s]
  /\ IF account.hash \in Legacy
     THEN Goto(r, "rehash") /\ ComputeHash(r)
     ELSE Goto(r, "session") /\ UNCHANGED hash
  /\ UNCHANGED <<database, lock, purpose, token, draft, hit>>

\* The credentials are still those the password was verified against.
Current(r) == /\ account.version = expected[r].version
              /\ account.hash = expected[r].hash

\* rehashPasswordIfCurrent, by itself; a sign-in that lost the race ends.
Rehash(r) ==
  /\ pc[r] = "rehash"
  /\ IF Current(r)
     THEN /\ Free(AccountRow)
          /\ account' = [account EXCEPT !.hash = hash[r]]
          /\ expected' = [expected EXCEPT ![r].hash = hash[r]]
          /\ Goto(r, "session")
          /\ UNCHANGED <<lock, purpose, hash, token, session, draft, hit>>
     ELSE End(r) /\ UNCHANGED account
  /\ UNCHANGED <<tokens, sessions>>

\* Mutant: the session is inserted without locking the account.
SessionLockNone == TRUE

\* FOR UPDATE waits for whoever holds the account.
SessionLock == Free(AccountRow)

\* createSessionIfCredentialsCurrent, one statement.
CreateSession(r) ==
  /\ pc[r] = "session"
  /\ IF Current(r) /\ account.verified
     THEN /\ SessionLock
          /\ sessions' = [sessions EXCEPT ![session[r]] =
                            [born |-> account.version, revoked |-> FALSE]]
     ELSE UNCHANGED sessions
  /\ End(r)
  /\ UNCHANGED <<account, tokens>>

\* signOut revokes the caller's session, in one statement that waits for a
\* reset that is revoking it.
SignOut(s) ==
  /\ sessions[s] # None /\ ~sessions[s].revoked
  /\ \A r \in Requests : s \notin hit[r]
  /\ sessions' = [sessions EXCEPT ![s].revoked = TRUE]
  /\ UNCHANGED <<account, tokens, lock, locals>>

\* cleanupExpired removes a token days after its expiry or use and a session
\* days after its end: no request in flight refers to it.
CleanupToken(t) ==
  /\ tokens[t] # None
  /\ \A r \in Requests : token[r] # t /\ t \notin hit[r]
  /\ tokens' = [tokens EXCEPT ![t] = None]
  /\ UNCHANGED <<account, sessions, lock, locals>>

CleanupSession(s) ==
  /\ sessions[s] # None
  /\ \A r \in Requests : s \notin hit[r]
  /\ sessions' = [sessions EXCEPT ![s] = None]
  /\ UNCHANGED <<account, tokens, lock, locals>>

-----------------------------------------------------------------------------
(* Failures.                                                                *)

\* A transaction that holds a row waits for one that q holds.
WaitsFor(r, q) ==
  \/ pc[r] \in {"verify", "password"} /\ lock[AccountRow] = q
  \/ pc[r] = "invalidate" /\ \E t \in Invalidated(r) : lock[t] = q

\* PostgreSQL aborts one of two transactions that wait for each other.
AbortDeadlock(r) ==
  /\ \E q \in Requests : WaitsFor(r, q) /\ WaitsFor(q, r)
  /\ End(r)
  /\ UNCHANGED database

\* An error, a client timeout or a killed process before the commit.
Fail(r) ==
  /\ pc[r] # "idle"
  /\ End(r)
  /\ UNCHANGED database

-----------------------------------------------------------------------------
Start(r) ==
  \/ SignUp(r)
  \/ \E p \in Purposes : RequestLink(r, p)
  \/ FollowVerification(r)
  \/ FollowReset(r)
  \/ SignIn(r)

Statement(r) ==
  \/ UpsertAccount(r)
  \/ FindEligible(r)
  \/ InvalidateTokens(r)
  \/ InsertToken(r)
  \/ ConsumeToken(r)
  \/ VerifyAccount(r)
  \/ UpdatePassword(r)
  \/ RevokeSessions(r)
  \/ CommitReset(r)
  \/ Rehash(r)
  \/ CreateSession(r)

Next ==
  \/ \E r \in Requests : Start(r) \/ Statement(r) \/ AbortDeadlock(r) \/ Fail(r)
  \/ \E s \in Sessions : SignOut(s) \/ CleanupSession(s)
  \/ \E t \in Tokens : CleanupToken(t)

Spec == Init /\ [][Next]_vars

\* A process that does not fail sends its next statement; PostgreSQL grants a
\* row to its waiters in turn and breaks deadlocks.
RequestFairness ==
  \A r \in Requests : SF_vars(Statement(r)) /\ WF_vars(AbortDeadlock(r))

FairSpec == Spec /\ RequestFairness

-----------------------------------------------------------------------------
(* What the accounts promise.                                               *)

TypeOK ==
  /\ account \in Account \cup {None}
  /\ tokens \in [Tokens -> Token \cup {None}]
  /\ sessions \in [Sessions -> Session \cup {None}]
  /\ lock \in [Rows -> Requests \cup {None}]
  /\ pc \in [Requests -> {"idle", "upsert", "find", "invalidate", "insert",
       "consume", "verify", "password", "revoke", "commit", "rehash", "session"}]
  /\ purpose \in [Requests -> Purposes \cup {None}]
  /\ hash \in [Requests -> Hashes \cup {None}]
  /\ token \in [Requests -> Tokens \cup {None}]
  /\ session \in [Requests -> Sessions \cup {None}]
  /\ expected \in [Requests -> Account \cup {None}]
  /\ draft \in [Requests -> Account \cup {None}]
  /\ hit \in [Requests -> SUBSET (Tokens \cup Sessions)]

\* A sign-in verifies a password, and inserts its session two round trips
\* later; a reset revokes the sessions it sees.  Whatever their order, no
\* session created with replaced credentials is valid after the reset.
NoSessionOutlivesReset ==
  \A s \in Sessions : sessions[s] # None /\ ~sessions[s].revoked =>
    account # None /\ sessions[s].born = account.version

\* However many links are requested at once, at most one of each purpose can
\* be used: the last one committed.
OneLiveLink ==
  \A p \in Purposes : \A t, u \in Live(p) : t = u

Verified == account # None /\ account.verified

\* A second registration of an unverified address replaces its password.  The
\* link that verifies the address was issued for the password the account
\* then has, never for one that has been replaced since.
VerifiedPasswordWasConfirmed ==
  [][~Verified /\ Verified' =>
       \E t \in Live("verify_email") :
         tokens'[t].consumed /\ tokens[t].confirms = account'.hash]_account

Version == IF account = None THEN 0 ELSE account.version

\* "Two concurrent consumers cannot both succeed": an address is verified,
\* and a verified address gets another version of its credentials, only in a
\* step that uses up a token that was still live.
CredentialsMove(p) ==
  IF p = "verify_email" THEN ~Verified /\ Verified'
                        ELSE Verified /\ Version' # Version
EachTokenOnce ==
  [][\A p \in Purposes : CredentialsMove(p) =>
       \E t \in Live(p) : tokens'[t].consumed]_account

\* Asking for a link locks the account before its tokens, following one the
\* token before the account.  No request waits for ever because of it.
EveryRequestAnswered == \A r \in Requests : pc[r] # "idle" ~> pc[r] = "idle"
=============================================================================
