------------------------- MODULE AuthAccountsProofs -------------------------
(***************************************************************************)
(* Proofs about AuthAccounts, for any number of requests, tokens, sessions *)
(* and hashes and any bound on versions.                                   *)
(***************************************************************************)
EXTENDS AuthAccounts, TLAPS

-----------------------------------------------------------------------------
(* The inductive invariant.                                                 *)

Issuing == {"upsert", "find", "invalidate", "insert"}
Consuming == {"consume", "verify", "password", "revoke", "commit"}
Resetting == {"password", "revoke", "commit"}
HoldingAccount == {"invalidate", "insert", "revoke", "commit"}
HoldingToken == {"verify", "password", "revoke", "commit"}

\* Whoever has changed rows, or locked the account, holds them.
LockInv ==
  \A r \in Requests :
    /\ pc[r] \in HoldingAccount => lock[AccountRow] = r
    /\ pc[r] \in HoldingToken => lock[token[r]] = r
    /\ pc[r] = "insert" => \A t \in hit[r] : lock[t] = r

\* A request that issues a link has an identifier of its own for it, and what
\* it found out about the account under its lock still holds.
IssueInv ==
  \A r \in Requests :
    /\ pc[r] \in {"idle", "find"} => draft[r] = None
    /\ pc[r] \in Issuing =>
         /\ token[r] \in Tokens /\ tokens[token[r]] = None
         /\ \A q \in Requests : q # r => token[q] # token[r]
         /\ purpose[r] \in Purposes
    /\ pc[r] = "upsert" => hash[r] \in Hashes /\ purpose[r] = "verify_email"
    /\ pc[r] \in {"invalidate", "insert"} =>
         IF draft[r] = None
         THEN account # None /\ (purpose[r] = "reset_password" => account.verified)
         ELSE /\ purpose[r] = "verify_email" /\ ~draft[r].verified
              /\ account # None => /\ ~account.verified
                                   /\ draft[r].version = account.version
    /\ pc[r] = "insert" => hit[r] = Live(purpose[r])

\* A request that follows a link knows a token of its purpose, unused from the
\* moment it is locked, and a reset knows all the sessions there are.
ConsumeInv ==
  \A r \in Requests :
    /\ pc[r] \in Consuming =>
         /\ token[r] \in Tokens /\ tokens[token[r]] # None
         /\ tokens[token[r]].purpose = purpose[r]
         /\ purpose[r] = "reset_password" => hash[r] \in Hashes
    /\ pc[r] \in HoldingToken => ~tokens[token[r]].consumed
    /\ pc[r] = "verify" => purpose[r] = "verify_email"
    /\ pc[r] \in Resetting => purpose[r] = "reset_password"
    /\ pc[r] \in {"revoke", "commit"} => draft[r] \in Account /\ draft[r].verified
    /\ pc[r] = "commit" =>
         \A s \in Sessions : /\ s \in hit[r] => sessions[s] # None
                             /\ sessions[s] # None /\ ~sessions[s].revoked => s \in hit[r]

\* A sign-in has seen a verified account, which it stays.
SignInInv ==
  \A r \in Requests :
    /\ pc[r] \in {"rehash", "session"} =>
         /\ account # None /\ account.verified
         /\ expected[r] \in Account /\ session[r] \in Sessions
    /\ pc[r] = "rehash" => hash[r] \in Hashes

\* Tokens belong to an account, and a reset is only for a verified one.
TokenInv ==
  \A t \in Tokens : tokens[t] # None =>
    /\ account # None
    /\ tokens[t].purpose = "reset_password" => account.verified

\* A verification link that still works confirms the current password.
ConfirmInv ==
  \A t \in Live("verify_email") : ~account.verified => tokens[t].confirms = account.hash

IInv ==
  /\ TypeOK
  /\ LockInv /\ IssueInv /\ ConsumeInv /\ SignInInv
  /\ TokenInv /\ ConfirmInv
  /\ NoSessionOutlivesReset /\ OneLiveLink

-----------------------------------------------------------------------------
(* Lemmas about the helpers.                                                *)

\* The end of a request resets what it knows and frees what it holds.
LEMMA EndFacts ==
  ASSUME TypeOK, NEW r \in Requests, End(r)
  PROVE  /\ pc' \in [Requests -> {"idle", "upsert", "find", "invalidate", "insert",
              "consume", "verify", "password", "revoke", "commit", "rehash", "session"}]
         /\ lock' \in [Rows -> Requests \cup {None}]
         /\ purpose' \in [Requests -> Purposes \cup {None}]
         /\ hash' \in [Requests -> Hashes \cup {None}]
         /\ token' \in [Requests -> Tokens \cup {None}]
         /\ session' \in [Requests -> Sessions \cup {None}]
         /\ expected' \in [Requests -> Account \cup {None}]
         /\ draft' \in [Requests -> Account \cup {None}]
         /\ hit' \in [Requests -> SUBSET (Tokens \cup Sessions)]
         /\ pc'[r] = "idle" /\ draft'[r] = None /\ token'[r] = None
         /\ \A q \in Requests : q # r =>
              /\ pc'[q] = pc[q] /\ purpose'[q] = purpose[q] /\ hash'[q] = hash[q]
              /\ token'[q] = token[q] /\ session'[q] = session[q]
              /\ expected'[q] = expected[q] /\ draft'[q] = draft[q]
              /\ hit'[q] = hit[q]
         /\ \A x \in Rows : lock[x] # r => lock'[x] = lock[x]
  BY DEF TypeOK, End, Goto, Unlocked

\* Nobody loses a lock to a request that ends.
LEMMA EndLocks ==
  ASSUME TypeOK, LockInv, ConsumeInv, IssueInv, NEW r \in Requests, End(r)
  PROVE  LockInv'
<1>1. ASSUME NEW q \in Requests, q # r, NEW x \in Rows, lock[x] = q
      PROVE  lock'[x] = q
  BY <1>1, EndFacts
<1>2. \A q \in Requests : pc[q] = "insert" => hit[q] \subseteq Tokens
  BY DEF IssueInv, Live
<1>3. \A q \in Requests : pc[q] \in HoldingToken => token[q] \in Tokens
  BY DEF ConsumeInv, HoldingToken, Consuming
<1>4. QED BY <1>1, <1>2, <1>3, EndFacts
     DEF LockInv, Rows, HoldingAccount, HoldingToken

\* A request that ends with the tables as they are leaves everything in order.
LEMMA EndPlain ==
  ASSUME IInv, NEW r \in Requests, End(r), UNCHANGED database
  PROVE  IInv'
<1>1. TypeOK'
  BY EndFacts DEF IInv, TypeOK, database
<1>2. LockInv'
  BY EndLocks DEF IInv
<1>3. Live("verify_email")' = Live("verify_email")
      /\ \A p : Live(p)' = Live(p)
  BY DEF Live, database
<1>4. IssueInv'
  <2>1. ASSUME NEW q \in Requests, q # r, pc[q] \in Issuing
        PROVE  \A o \in Requests : o # q => token'[o] # token[q]
    BY <2>1, EndFacts, AccountsAssumption DEF IInv, IssueInv, TypeOK
  <2>2. QED BY <1>3, <2>1, EndFacts DEF IInv, IssueInv, Issuing, database
<1>5. ConsumeInv'
  BY EndFacts DEF IInv, ConsumeInv, Consuming, HoldingToken, Resetting, database
<1>6. SignInInv'
  BY EndFacts DEF IInv, SignInInv, database
<1>7. TokenInv' /\ ConfirmInv' /\ NoSessionOutlivesReset' /\ OneLiveLink'
  BY <1>3 DEF IInv, TokenInv, ConfirmInv, NoSessionOutlivesReset, OneLiveLink,
              database
<1>8. QED BY <1>1, <1>2, <1>4, <1>5, <1>6, <1>7 DEF IInv

\* The tables alone decide what is promised of them.
LEMMA TablesKept ==
  ASSUME IInv, UNCHANGED database
  PROVE  /\ \A p : Live(p)' = Live(p)
         /\ TokenInv' /\ ConfirmInv' /\ NoSessionOutlivesReset' /\ OneLiveLink'
<1>1. \A p : Live(p)' = Live(p)
  BY DEF Live, database
<1>2. Live("verify_email")' = Live("verify_email")
  BY DEF Live, database
<1>3. QED
  BY <1>1, <1>2 DEF IInv, TokenInv, ConfirmInv, NoSessionOutlivesReset, OneLiveLink,
                    database

\* A sign-up starts.
LEMMA SignUpStep ==
  ASSUME IInv, NEW r \in Requests, SignUp(r) PROVE IInv'
<1>1. PICK t \in Tokens : NewToken(t) /\ token' = [token EXCEPT ![r] = t]
  BY DEF SignUp
<1>2. PICK h \in Hashes : hash' = [hash EXCEPT ![r] = h]
  BY DEF SignUp, ComputeHash
<1>3. TypeOK'
  BY <1>1, <1>2 DEF IInv, TypeOK, SignUp, Goto, Purposes, database
<1>4. LockInv'
  BY <1>1 DEF IInv, LockInv, SignUp, Goto, TypeOK, HoldingAccount, HoldingToken
<1>5. IssueInv'
  BY <1>1, <1>2, TablesKept
     DEF IInv, IssueInv, SignUp, Goto, TypeOK, Issuing, Purposes, NewToken, database
<1>6. ConsumeInv'
  BY <1>1, <1>2
     DEF IInv, ConsumeInv, SignUp, Goto, TypeOK, Consuming, HoldingToken, Resetting,
         database
<1>7. SignInInv'
  BY <1>2 DEF IInv, SignInInv, SignUp, Goto, TypeOK, database
<1>8. QED BY <1>3, <1>4, <1>5, <1>6, <1>7, TablesKept DEF IInv, SignUp

\* A request for a link starts.
LEMMA RequestLinkStep ==
  ASSUME IInv, NEW r \in Requests, NEW p \in Purposes, RequestLink(r, p) PROVE IInv'
<1>1. PICK t \in Tokens : NewToken(t) /\ token' = [token EXCEPT ![r] = t]
  BY DEF RequestLink
<1>3. TypeOK'
  BY <1>1 DEF IInv, TypeOK, RequestLink, Goto, database
<1>4. LockInv'
  BY <1>1 DEF IInv, LockInv, RequestLink, Goto, TypeOK, HoldingAccount, HoldingToken
<1>5. IssueInv'
  BY <1>1, TablesKept
     DEF IInv, IssueInv, RequestLink, Goto, TypeOK, Issuing, NewToken, database
<1>6. ConsumeInv'
  BY <1>1
     DEF IInv, ConsumeInv, RequestLink, Goto, TypeOK, Consuming, HoldingToken,
         Resetting, database
<1>7. SignInInv'
  BY DEF IInv, SignInInv, RequestLink, Goto, TypeOK, database
<1>8. QED BY <1>3, <1>4, <1>5, <1>6, <1>7, TablesKept DEF IInv, RequestLink

\* What taking the account's row does to the locks.
LEMMA AccountTaken ==
  ASSUME IInv, NEW r \in Requests, NEW p \in {"invalidate", "revoke"},
         lock[AccountRow] = None, lock' = [lock EXCEPT ![AccountRow] = r],
         pc' = [pc EXCEPT ![r] = p], p = "revoke" => pc[r] = "password",
         UNCHANGED <<token, hit>>
  PROVE  LockInv'
<1>1. \A q \in Requests : pc[q] \notin HoldingAccount
  BY AccountsAssumption DEF IInv, LockInv
<1>2. \A q \in Requests : pc[q] \in HoldingToken => token[q] \in Tokens
  BY DEF IInv, ConsumeInv, HoldingToken, Consuming
<1>3. \A q \in Requests : pc[q] # "insert"
  BY <1>1 DEF HoldingAccount
<1>4. \A q \in Requests : pc'[q] = IF q = r THEN p ELSE pc[q]
  BY DEF IInv, TypeOK
<1>5. lock'[AccountRow] = r /\ \A t \in Tokens : lock'[t] = lock[t]
  BY AccountsAssumption DEF IInv, TypeOK, Rows
<1>6. \A q \in Requests : pc'[q] \in HoldingAccount => lock'[AccountRow] = q
  BY <1>1, <1>4, <1>5
<1>7. \A q \in Requests : pc'[q] \in HoldingToken => lock'[token[q]] = q
  <2>1. \A q \in Requests : pc'[q] \in HoldingToken => pc[q] \in HoldingToken
    BY <1>4 DEF HoldingToken
  <2>2. QED BY <1>2, <1>5, <2>1 DEF IInv, LockInv
<1>8. \A q \in Requests : pc'[q] # "insert"
  BY <1>3, <1>4
<1>9. QED BY <1>6, <1>7, <1>8 DEF LockInv

\* The account's row is inserted, replaced, or verified and left alone.
LEMMA UpsertAccountStep ==
  ASSUME IInv, NEW r \in Requests, UpsertAccount(r) PROVE IInv'
<1>1. CASE End(r)
  BY <1>1, EndPlain DEF UpsertAccount
<1>2. CASE ~End(r)
  <2>1. /\ pc[r] = "upsert" /\ lock[AccountRow] = None
        /\ account = None \/ ~account.verified
        /\ draft' = [draft EXCEPT ![r] = Registered(hash[r])]
        /\ lock' = [lock EXCEPT ![AccountRow] = r]
        /\ pc' = [pc EXCEPT ![r] = "invalidate"]
        /\ UNCHANGED <<purpose, hash, token, session, expected, hit>>
        /\ UNCHANGED database
    BY <1>2 DEF UpsertAccount, Free, Goto
  <2>2. hash[r] \in Hashes /\ purpose[r] = "verify_email" /\ None # r
    BY <2>1, AccountsAssumption DEF IInv, IssueInv
  <2>3. /\ Registered(hash[r]) \in Account /\ ~Registered(hash[r]).verified
        /\ account # None => Registered(hash[r]).version = account.version
    BY <2>1, <2>2 DEF IInv, TypeOK, Registered, Account
  <2>4. Registered(hash[r]) # None
    BY <2>3, AccountsAssumption
  <2> DEFINE d == Registered(hash[r])
  <2> HIDE DEF d
  <2>5. TypeOK'
    BY <2>1, <2>3 DEF IInv, TypeOK, database, Rows, d
  <2>6. LockInv'
    BY <2>1, AccountTaken
  <2>7. IssueInv'
    BY <2>1, <2>2, <2>3, <2>4, TablesKept
       DEF IInv, IssueInv, TypeOK, Issuing, database, d
  <2>8. ConsumeInv'
    BY <2>1 DEF IInv, ConsumeInv, TypeOK, Consuming, HoldingToken, Resetting, database
  <2>9. SignInInv'
    BY <2>1 DEF IInv, SignInInv, TypeOK, database
  <2>10. QED BY <2>1, <2>5, <2>6, <2>7, <2>8, <2>9, TablesKept DEF IInv
<1>3. QED BY <1>1, <1>2

\* The account's row is locked for a link, or not eligible any more.
LEMMA FindEligibleStep ==
  ASSUME IInv, NEW r \in Requests, FindEligible(r) PROVE IInv'
<1>1. CASE End(r)
  BY <1>1, EndPlain DEF FindEligible
<1>2. CASE ~End(r)
  <2>1. /\ pc[r] = "find" /\ lock[AccountRow] = None
        /\ account # None /\ account.verified = (purpose[r] = "reset_password")
        /\ lock' = [lock EXCEPT ![AccountRow] = r]
        /\ pc' = [pc EXCEPT ![r] = "invalidate"]
        /\ UNCHANGED <<purpose, hash, token, session, expected, draft, hit>>
        /\ UNCHANGED database
    BY <1>2 DEF FindEligible, LinkLock, Eligible, Free, Goto
  <2>2. draft[r] = None /\ None # r
    BY <2>1, AccountsAssumption DEF IInv, IssueInv
  <2>5. TypeOK'
    BY <2>1 DEF IInv, TypeOK, database, Rows
  <2>6. LockInv'
    BY <2>1, AccountTaken
  <2>3. \A q \in Requests : q # r => pc'[q] = pc[q]
    BY <2>1
  <2>4. pc'[r] = "invalidate" /\ \A p : Live(p)' = Live(p)
    BY <2>1, TablesKept DEF IInv, TypeOK
  <2>7. IssueInv'
    <3>1. \A q \in Requests : q # r =>
             (pc'[q] = "insert" => hit'[q] = Live(purpose[q])')
      BY <2>1, <2>3, <2>4 DEF IInv, IssueInv
    <3>2. \A q \in Requests : pc'[q] \in Issuing =>
             /\ token'[q] \in Tokens /\ tokens'[token'[q]] = None
             /\ \A p \in Requests : p # q => token'[q] # token'[p]
             /\ purpose'[q] \in Purposes
      BY <2>1, <2>3 DEF IInv, IssueInv, Issuing, database
    <3>3. \A q \in Requests : q # r =>
             /\ pc'[q] \in {"idle", "find"} => draft'[q] = None
             /\ pc'[q] = "upsert" => hash'[q] \in Hashes /\ purpose'[q] = "verify_email"
             /\ pc'[q] \in {"invalidate", "insert"} =>
                  IF draft'[q] = None
                  THEN account' # None /\ (purpose'[q] = "reset_password" => account'.verified)
                  ELSE /\ purpose'[q] = "verify_email" /\ ~draft'[q].verified
                       /\ account' # None => /\ ~account'.verified
                                             /\ draft'[q].version = account'.version
      BY <2>1, <2>3 DEF IInv, IssueInv, database
    <3>4. account' # None /\ (purpose'[r] = "reset_password" => account'.verified)
      BY <2>1 DEF database
    <3>5. draft'[r] = None
      BY <2>1, <2>2
    <3>6. QED
      BY <2>4, <3>1, <3>2, <3>3, <3>4, <3>5 DEF IssueInv
  <2>8. ConsumeInv'
    BY <2>1 DEF IInv, ConsumeInv, TypeOK, Consuming, HoldingToken, Resetting, database
  <2>9. SignInInv'
    BY <2>1 DEF IInv, SignInInv, TypeOK, database
  <2>10. QED BY <2>1, <2>5, <2>6, <2>7, <2>8, <2>9, TablesKept DEF IInv
<1>3. QED BY <1>1, <1>2

\* The older links of the purpose are locked and consumed.
LEMMA InvalidateTokensStep ==
  ASSUME IInv, NEW r \in Requests, InvalidateTokens(r) PROVE IInv'
<1>1. /\ pc[r] = "invalidate"
      /\ \A t \in Live(purpose[r]) : lock[t] = None
      /\ lock' = [x \in Rows |-> IF x \in Live(purpose[r]) THEN r ELSE lock[x]]
      /\ hit' = [hit EXCEPT ![r] = Live(purpose[r])]
      /\ pc' = [pc EXCEPT ![r] = "insert"]
      /\ UNCHANGED <<database, purpose, hash, token, session, expected, draft>>
  BY DEF InvalidateTokens, Invalidated, Free, Goto
<1>2. Live(purpose[r]) \subseteq Tokens /\ AccountRow \notin Live(purpose[r])
  BY AccountsAssumption DEF Live
<1>3. \A x \in Rows, q \in Requests : lock[x] = q => lock'[x] = q
  BY <1>1, AccountsAssumption
<1>4. TypeOK'
  BY <1>1, <1>2 DEF IInv, TypeOK, database
<1>5. LockInv'
  <2>1. \A q \in Requests : pc[q] = "insert" => hit[q] \subseteq Tokens
    BY DEF IInv, IssueInv, Live
  <2>2. \A q \in Requests : pc[q] \in HoldingToken => token[q] \in Tokens
    BY DEF IInv, ConsumeInv, HoldingToken, Consuming
  <2>3. \A t \in Live(purpose[r]) : lock'[t] = r
    BY <1>1, <1>2 DEF Rows
  <2>4. pc'[r] = "insert" /\ \A q \in Requests : q # r => pc'[q] = pc[q]
    BY <1>1 DEF IInv, TypeOK
  <2>5. hit'[r] = Live(purpose[r]) /\ \A q \in Requests : q # r => hit'[q] = hit[q]
    BY <1>1 DEF IInv, TypeOK
  <2>6. \A q \in Requests : pc'[q] \in HoldingAccount => lock'[AccountRow] = q
    BY <1>1, <1>3, <2>4 DEF IInv, LockInv, HoldingAccount, Rows
  <2>7. \A q \in Requests : pc'[q] \in HoldingToken => lock'[token'[q]] = q
    BY <1>1, <1>3, <2>2, <2>4 DEF IInv, LockInv, HoldingToken, Rows
  <2>8. ASSUME NEW q \in Requests, pc'[q] = "insert", NEW t \in hit'[q]
        PROVE  lock'[t] = q
    <3>1. CASE q = r
      BY <2>3, <2>5, <2>8, <3>1
    <3>2. CASE q # r
      BY <1>3, <2>1, <2>4, <2>5, <2>8, <3>2 DEF IInv, LockInv, Rows
    <3>3. QED BY <3>1, <3>2
  <2>9. QED BY <2>6, <2>7, <2>8 DEF LockInv
<1>6. IssueInv'
  BY <1>1, TablesKept DEF IInv, IssueInv, TypeOK, Issuing, database
<1>7. ConsumeInv'
  BY <1>1 DEF IInv, ConsumeInv, TypeOK, Consuming, HoldingToken, Resetting, database
<1>8. SignInInv'
  BY <1>1 DEF IInv, SignInInv, TypeOK, database
<1>9. QED BY <1>1, <1>4, <1>5, <1>6, <1>7, <1>8, TablesKept DEF IInv

\* Following a link of either purpose, with a hash if it is a reset.
LEMMA FollowStep ==
  ASSUME IInv, NEW r \in Requests, NEW p \in Purposes, Follow(r, p),
         hash' \in [Requests -> Hashes \cup {None}],
         \A q \in Requests : q # r => hash'[q] = hash[q],
         p = "reset_password" => hash'[r] \in Hashes
  PROVE  IInv'
<1>1. PICK t \in Live(p) : token' = [token EXCEPT ![r] = t]
  BY DEF Follow
<1>2. t \in Tokens /\ tokens[t] # None /\ tokens[t].purpose = p
  BY DEF Live
<1>3. TypeOK'
  BY <1>1, <1>2 DEF IInv, TypeOK, Follow, Goto, database
<1>4. LockInv'
  BY <1>1 DEF IInv, LockInv, Follow, Goto, TypeOK, HoldingAccount, HoldingToken
<1>5. IssueInv'
  BY <1>1, <1>2, TablesKept
     DEF IInv, IssueInv, Follow, Goto, TypeOK, Issuing, database
<1>6. ConsumeInv'
  BY <1>1, <1>2
     DEF IInv, ConsumeInv, Follow, Goto, TypeOK, Consuming, HoldingToken, Resetting,
         database
<1>7. SignInInv'
  BY DEF IInv, SignInInv, Follow, Goto, TypeOK, database
<1>8. QED BY <1>3, <1>4, <1>5, <1>6, <1>7, TablesKept DEF IInv, Follow

\* A link is followed.
LEMMA FollowLinkStep ==
  ASSUME IInv, NEW r \in Requests, FollowVerification(r) \/ FollowReset(r) PROVE IInv'
<1>1. CASE FollowVerification(r)
  BY <1>1, FollowStep DEF FollowVerification, Purposes, IInv, TypeOK
<1>2. CASE FollowReset(r)
  <2>1. PICK h \in Hashes : hash' = [hash EXCEPT ![r] = h]
    BY <1>2 DEF FollowReset, ComputeHash
  <2>2. QED BY <1>2, <2>1, FollowStep DEF FollowReset, Purposes, IInv, TypeOK
<1>3. QED BY <1>1, <1>2

\* The link's token is locked and consumed, or somebody was faster.
LEMMA ConsumeTokenStep ==
  ASSUME IInv, NEW r \in Requests, ConsumeToken(r) PROVE IInv'
<1>1. CASE End(r)
  BY <1>1, EndPlain DEF ConsumeToken
<1>2. CASE ~End(r)
  <2>1. /\ pc[r] = "consume" /\ lock[token[r]] = None
        /\ ~tokens[token[r]].consumed
        /\ lock' = [lock EXCEPT ![token[r]] = r]
        /\ pc' = [pc EXCEPT ![r] = IF purpose[r] = "verify_email" THEN "verify"
                                                                  ELSE "password"]
        /\ UNCHANGED <<purpose, hash, token, session, expected, draft, hit>>
        /\ UNCHANGED database
    BY <1>2 DEF ConsumeToken, Unconsumed, Free, Goto
  <2>2. /\ token[r] \in Tokens /\ token[r] # AccountRow /\ None # r
        /\ purpose[r] \in Purposes
    BY <2>1, AccountsAssumption DEF IInv, ConsumeInv, Consuming, TypeOK, Token
  <2>3. \A x \in Rows, q \in Requests : lock[x] = q => lock'[x] = q
    BY <2>1, AccountsAssumption DEF IInv, TypeOK
  <2>4. lock'[token[r]] = r
    BY <2>1, <2>2 DEF IInv, TypeOK, Rows
  <2>5. TypeOK'
    BY <2>1, <2>2 DEF IInv, TypeOK, database, Rows
  <2>6. LockInv'
    <3>1. \A q \in Requests : pc[q] = "insert" => hit[q] \subseteq Tokens
      BY DEF IInv, IssueInv, Live
    <3>2. \A q \in Requests : pc[q] \in HoldingToken => token[q] \in Tokens
      BY DEF IInv, ConsumeInv, HoldingToken, Consuming
    <3>3. QED
      BY <2>1, <2>3, <2>4, <3>1, <3>2
         DEF IInv, LockInv, TypeOK, Rows, HoldingAccount, HoldingToken
  <2>7. IssueInv'
    BY <2>1, TablesKept DEF IInv, IssueInv, TypeOK, Issuing, database
  <2>8. ConsumeInv'
    BY <2>1, <2>2
       DEF IInv, ConsumeInv, TypeOK, Consuming, HoldingToken, Resetting, Purposes,
           database
  <2>9. SignInInv'
    BY <2>1 DEF IInv, SignInInv, TypeOK, database
  <2>10. QED BY <2>1, <2>5, <2>6, <2>7, <2>8, <2>9, TablesKept DEF IInv
<1>3. QED BY <1>1, <1>2

\* A row with other credentials.
LEMMA NewCredentials ==
  ASSUME NEW row \in Account, NEW h \in Hashes, NEW n \in Nat \ {0}
  PROVE  /\ [row EXCEPT !.hash = h, !.version = n] \in Account
         /\ [row EXCEPT !.hash = h, !.version = n].verified = row.verified
  BY DEF Account

\* A reset writes the new credentials under the account's lock.
LEMMA UpdatePasswordStep ==
  ASSUME IInv, NEW r \in Requests, UpdatePassword(r) PROVE IInv'
<1> DEFINE d == [account EXCEPT !.hash = hash[r], !.version = @ + 1]
<1>1. /\ pc[r] = "password" /\ lock[AccountRow] = None
      /\ lock' = [lock EXCEPT ![AccountRow] = r]
      /\ draft' = [draft EXCEPT ![r] = d]
      /\ pc' = [pc EXCEPT ![r] = "revoke"]
      /\ UNCHANGED <<database, purpose, hash, token, session, expected, hit>>
  BY DEF UpdatePassword, Free, Goto
<1>2. /\ purpose[r] = "reset_password" /\ hash[r] \in Hashes
      /\ account \in Account /\ account.verified
  BY <1>1 DEF IInv, ConsumeInv, Consuming, Resetting, TokenInv, TypeOK
<1>3. d \in Account /\ d.verified
  <2>1. account.version + 1 \in Nat \ {0}
    BY <1>2 DEF Account
  <2>2. QED BY <1>2, <2>1, NewCredentials
<1> HIDE DEF d
<1>4. TypeOK'
  BY <1>1, <1>3 DEF IInv, TypeOK, database, Rows
<1>5. LockInv'
  BY <1>1, AccountTaken
<1>6. IssueInv'
  BY <1>1, TablesKept DEF IInv, IssueInv, TypeOK, Issuing, database
<1>7. ConsumeInv'
  BY <1>1, <1>2, <1>3
     DEF IInv, ConsumeInv, TypeOK, Consuming, HoldingToken, Resetting, database
<1>8. SignInInv'
  BY <1>1 DEF IInv, SignInInv, TypeOK, database
<1>9. QED BY <1>1, <1>4, <1>5, <1>6, <1>7, <1>8, TablesKept DEF IInv

\* A reset revokes the sessions it sees.
LEMMA RevokeSessionsStep ==
  ASSUME IInv, NEW r \in Requests, RevokeSessions(r) PROVE IInv'
<1>1. TypeOK'
  BY DEF IInv, TypeOK, RevokeSessions, Goto, database
<1>2. LockInv'
  BY DEF IInv, LockInv, RevokeSessions, Goto, TypeOK, HoldingAccount, HoldingToken
<1>3. IssueInv'
  BY TablesKept DEF IInv, IssueInv, RevokeSessions, Goto, TypeOK, Issuing, database
<1>4. ConsumeInv'
  BY DEF IInv, ConsumeInv, RevokeSessions, Goto, TypeOK, Consuming, HoldingToken,
         Resetting, database
<1>5. SignInInv'
  BY DEF IInv, SignInInv, RevokeSessions, Goto, TypeOK, database
<1>6. QED BY <1>1, <1>2, <1>3, <1>4, <1>5, TablesKept DEF IInv, RevokeSessions

\* A sign-in has verified the password.
LEMMA SignInStep ==
  ASSUME IInv, NEW r \in Requests, SignIn(r) PROVE IInv'
<1>1. PICK s \in Sessions : session' = [session EXCEPT ![r] = s]
  BY DEF SignIn
<1>2. /\ hash' \in [Requests -> Hashes \cup {None}]
      /\ \A q \in Requests : q # r => hash'[q] = hash[q]
      /\ pc'[r] = "rehash" => hash'[r] \in Hashes
      /\ pc' \in [Requests -> {"idle", "upsert", "find", "invalidate", "insert",
           "consume", "verify", "password", "revoke", "commit", "rehash", "session"}]
      /\ pc'[r] \in {"rehash", "session"}
      /\ \A q \in Requests : q # r => pc'[q] = pc[q]
  BY DEF SignIn, ComputeHash, Goto, IInv, TypeOK
<1>3. /\ pc[r] = "idle" /\ account # None /\ account.verified /\ account \in Account
      /\ expected' = [expected EXCEPT ![r] = account]
      /\ UNCHANGED <<database, lock, purpose, token, draft, hit>>
  BY DEF SignIn, IInv, TypeOK
<1>4. TypeOK'
  BY <1>1, <1>2, <1>3 DEF IInv, TypeOK, database
<1>5. LockInv'
  BY <1>2, <1>3 DEF IInv, LockInv, HoldingAccount, HoldingToken
<1>6. IssueInv'
  BY <1>2, <1>3, TablesKept DEF IInv, IssueInv, Issuing, database
<1>7. ConsumeInv'
  BY <1>2, <1>3 DEF IInv, ConsumeInv, Consuming, HoldingToken, Resetting, database
<1>8. SignInInv'
  BY <1>1, <1>2, <1>3 DEF IInv, SignInInv, TypeOK, database
<1>9. QED BY <1>3, <1>4, <1>5, <1>6, <1>7, <1>8, TablesKept DEF IInv

\* Nobody else has changed the account, or is about to invalidate its links,
\* while r holds its row or nobody does.
LEMMA AccountAlone ==
  ASSUME IInv, NEW r \in Requests,
         lock[AccountRow] = None \/ lock[AccountRow] = r
  PROVE  \A q \in Requests : q # r => pc[q] \notin HoldingAccount
  BY AccountsAssumption DEF IInv, LockInv

\* Whoever uses up a token holds it alone.
LEMMA TokenAlone ==
  ASSUME IInv, NEW r \in Requests, NEW q \in Requests, q # r,
         pc[q] \in HoldingToken
  PROVE  /\ pc[r] \in HoldingToken => token[q] # token[r]
         /\ pc[r] = "insert" => token[q] \notin hit[r]
  BY DEF IInv, LockInv

\* The account the transaction of InsertToken leaves.
LEMMA InsertedAccount ==
  ASSUME IInv, NEW r \in Requests, InsertToken(r)
  PROVE  /\ account' \in Account
         /\ account # None => /\ account'.version = account.version
                              /\ account'.verified = account.verified
         /\ account # None /\ account.verified => account' = account
         /\ account # None \/ ~account'.verified
         /\ purpose[r] = "reset_password" => account' = account /\ account.verified
         /\ account # None \/ purpose[r] = "verify_email"
<1>1. /\ pc[r] = "insert"
      /\ account' = IF draft[r] # None THEN draft[r] ELSE account
  BY DEF InsertToken
<1>2. CASE draft[r] = None
  BY <1>1, <1>2 DEF IInv, IssueInv, TypeOK
<1>3. CASE draft[r] # None
  <2>1. /\ purpose[r] = "verify_email" /\ ~draft[r].verified /\ draft[r] \in Account
        /\ account # None => ~account.verified /\ draft[r].version = account.version
    BY <1>1, <1>3 DEF IInv, IssueInv, TypeOK
  <2>2. account # None => account \in Account
    BY DEF IInv, TypeOK
  <2>3. account # None => draft[r].verified = account.verified
    BY <2>1, <2>2 DEF Account
  <2>4. QED BY <1>1, <1>3, <2>1, <2>3
<1>4. QED BY <1>2, <1>3

\* The tokens it leaves: the new one is the only live one of its purpose.
LEMMA InsertedTokens ==
  ASSUME IInv, NEW r \in Requests, InsertToken(r)
  PROVE  /\ tokens' \in [Tokens -> Token \cup {None}]
         /\ token[r] \in Tokens
         /\ tokens'[token[r]] # None
         /\ tokens'[token[r]].purpose = purpose[r]
         /\ tokens'[token[r]].confirms = account'.hash
         /\ \A t \in Tokens : t # token[r] =>
              /\ tokens'[t] # None <=> tokens[t] # None
              /\ tokens[t] # None => /\ tokens'[t].purpose = tokens[t].purpose
                                     /\ tokens'[t].confirms = tokens[t].confirms
              /\ t \notin hit[r] => tokens'[t] = tokens[t]
         /\ \A p \in Purposes : IF p = purpose[r] THEN Live(p)' \subseteq {token[r]}
                                                 ELSE Live(p)' = Live(p)
<1> DEFINE new == [purpose |-> purpose[r], consumed |-> FALSE, confirms |-> account'.hash]
           old(t) == [tokens[t] EXCEPT !.consumed = TRUE]
<1>1. /\ pc[r] = "insert"
      /\ tokens' = [t \in Tokens |-> IF t = token[r] THEN new
                                     ELSE IF t \in hit[r] THEN old(t) ELSE tokens[t]]
  BY DEF InsertToken
<1>2. /\ hit[r] = Live(purpose[r]) /\ purpose[r] \in Purposes
      /\ token[r] \in Tokens /\ tokens[token[r]] = None
  BY <1>1 DEF IInv, IssueInv, Issuing
<1>3. new \in Token /\ new # None
  <2>1. account'.hash \in Hashes
    BY InsertedAccount DEF Account
  <2>2. new \in Token
    BY <1>2, <2>1 DEF Token
  <2>3. QED BY <2>2, AccountsAssumption
<1>4. ASSUME NEW t \in hit[r]
      PROVE  /\ old(t) \in Token /\ old(t) # None /\ old(t).consumed
             /\ old(t).purpose = tokens[t].purpose
             /\ old(t).confirms = tokens[t].confirms
             /\ tokens[t] # None /\ tokens[t].purpose = purpose[r]
  <2>1. t \in Tokens /\ tokens[t] # None /\ tokens[t] \in Token
        /\ tokens[t].purpose = purpose[r]
    BY <1>2, <1>4 DEF Live, IInv, TypeOK
  <2>2. old(t) \in Token /\ old(t).consumed /\ old(t).purpose = tokens[t].purpose
        /\ old(t).confirms = tokens[t].confirms
    BY <2>1 DEF Token
  <2>3. QED BY <2>1, <2>2, AccountsAssumption
<1>5. new.purpose = purpose[r] /\ new.confirms = account'.hash
  OBVIOUS
<1> HIDE DEF new, old
<1>6. tokens' \in [Tokens -> Token \cup {None}]
  BY <1>1, <1>3, <1>4 DEF IInv, TypeOK
<1>7. tokens'[token[r]] = new
  BY <1>1, <1>2
<1>8. ASSUME NEW t \in Tokens, t # token[r]
      PROVE  /\ tokens'[t] # None <=> tokens[t] # None
             /\ tokens[t] # None => /\ tokens'[t].purpose = tokens[t].purpose
                                    /\ tokens'[t].confirms = tokens[t].confirms
             /\ t \notin hit[r] => tokens'[t] = tokens[t]
             /\ t \in hit[r] => tokens'[t].consumed
  BY <1>1, <1>4, <1>8
<1>9. ASSUME NEW p \in Purposes, p = purpose[r] PROVE Live(p)' \subseteq {token[r]}
  <2>1. ASSUME NEW t \in Tokens, t # token[r], t \in Live(p)' PROVE FALSE
    <3>1. tokens'[t] # None /\ tokens'[t].purpose = p /\ ~tokens'[t].consumed
      BY <2>1 DEF Live
    <3>2. t \notin hit[r] /\ tokens'[t] = tokens[t]
      BY <1>8, <2>1, <3>1
    <3>3. t \in Live(p)
      BY <3>1, <3>2 DEF Live
    <3>4. QED BY <1>2, <1>9, <3>2, <3>3
  <2>2. Live(p)' \subseteq Tokens
    BY DEF Live
  <2>3. QED BY <2>1, <2>2
<1>10. ASSUME NEW p \in Purposes, p # purpose[r] PROVE Live(p)' = Live(p)
  <2>1. \A t \in Tokens : t \in Live(p) => t # token[r] /\ t \notin hit[r]
    BY <1>2, <1>4, <1>10 DEF Live
  <2>2. token[r] \notin Live(p)'
    BY <1>5, <1>7, <1>10 DEF Live
  <2>3. \A t \in Tokens : t # token[r] => (t \in Live(p)' <=> t \in Live(p))
    BY <1>4, <1>8, <1>10 DEF Live
  <2>4. QED BY <2>1, <2>2, <2>3 DEF Live
<1>11. QED BY <1>2, <1>3, <1>5, <1>6, <1>7, <1>8, <1>9, <1>10

\* A link is issued and its transaction commits.
LEMMA InsertTokenStep ==
  ASSUME IInv, NEW r \in Requests, InsertToken(r) PROVE IInv'
<1>1. /\ pc[r] = "insert" /\ lock[AccountRow] = r /\ hit[r] = Live(purpose[r])
      /\ purpose[r] \in Purposes /\ End(r) /\ UNCHANGED sessions
  BY DEF InsertToken, IInv, LockInv, IssueInv, Issuing, HoldingAccount
<1>2. \A q \in Requests : q # r => pc[q] \notin HoldingAccount
  BY <1>1, AccountAlone
<1>3. account' # None
  BY InsertedAccount, AccountsAssumption
<1>4. \A q \in Requests : q # r /\ pc[q] \in HoldingToken =>
        tokens'[token[q]] = tokens[token[q]]
  <2>1. ASSUME NEW q \in Requests, q # r, pc[q] \in HoldingToken
        PROVE  /\ token[q] \in Tokens /\ token[q] # token[r] /\ token[q] \notin hit[r]
    BY <1>1, <2>1, TokenAlone
       DEF IInv, ConsumeInv, IssueInv, Consuming, Issuing, HoldingToken
  <2>2. QED BY <2>1, InsertedTokens
<1>5. TypeOK'
  BY <1>1, EndFacts, InsertedAccount, InsertedTokens DEF IInv, TypeOK
<1>6. LockInv'
  BY <1>1, EndLocks DEF IInv
<1>7. IssueInv'
  <2>1. ASSUME NEW q \in Requests, q # r, pc[q] \in Issuing
        PROVE  /\ tokens'[token[q]] = None
               /\ \A o \in Requests : o # q => token'[o] # token[q]
    <3>1. token[q] \in Tokens /\ token[q] # token[r] /\ tokens[token[q]] = None
      BY <2>1 DEF IInv, IssueInv
    <3>2. tokens'[token[q]] = None
      BY <3>1, InsertedTokens
    <3>3. QED BY <1>1, <2>1, <3>1, <3>2, EndFacts, AccountsAssumption
         DEF IInv, IssueInv
  <2>2. QED BY <1>1, <1>2, <2>1, EndFacts DEF IInv, IssueInv, Issuing, HoldingAccount
<1>8. ConsumeInv'
  <2>1. ASSUME NEW q \in Requests, q # r, pc[q] \in Consuming
        PROVE  /\ tokens'[token[q]] # None
               /\ tokens'[token[q]].purpose = tokens[token[q]].purpose
    <3>1. /\ token[q] \in Tokens /\ tokens[token[q]] # None /\ token[q] # token[r]
      BY <1>1, <2>1 DEF IInv, ConsumeInv, IssueInv, Issuing
    <3>2. QED BY <3>1, InsertedTokens
  <2>2. QED
    BY <1>1, <1>2, <1>4, <2>1, EndFacts
       DEF IInv, ConsumeInv, Consuming, HoldingToken, Resetting, HoldingAccount
<1>9. SignInInv'
  BY <1>1, <1>3, EndFacts, InsertedAccount DEF IInv, SignInInv
<1>10. TokenInv'
  <2>1. ASSUME NEW t \in Tokens, tokens'[t] # None, tokens'[t].purpose = "reset_password"
        PROVE  account'.verified
    <3>1. CASE t = token[r]
      BY <2>1, <3>1, InsertedTokens, InsertedAccount
    <3>2. CASE t # token[r]
      BY <2>1, <3>2, InsertedTokens, InsertedAccount DEF IInv, TokenInv
    <3>3. QED BY <3>1, <3>2
  <2>2. QED BY <1>3, <2>1 DEF TokenInv
<1>11. ConfirmInv'
  <2>1. CASE purpose[r] = "verify_email"
    BY <2>1, InsertedTokens DEF ConfirmInv, Purposes
  <2>2. CASE purpose[r] = "reset_password"
    BY <2>2, InsertedAccount DEF ConfirmInv
  <2>3. QED BY <1>1, <2>1, <2>2 DEF Purposes
<1>12. NoSessionOutlivesReset'
  BY <1>1, <1>3, InsertedAccount DEF IInv, NoSessionOutlivesReset
<1>13. OneLiveLink'
  <2>1. ASSUME NEW p \in Purposes, NEW t \in Live(p)', NEW u \in Live(p)' PROVE t = u
    BY <2>1, InsertedTokens DEF IInv, OneLiveLink
  <2>2. QED BY <2>1 DEF OneLiveLink
<1>14. QED
  BY <1>5, <1>6, <1>7, <1>8, <1>9, <1>10, <1>11, <1>12, <1>13 DEF IInv

\* Using up a token takes it out of the live ones and changes nothing else.
LEMMA ConsumedTokens ==
  ASSUME IInv, NEW r \in Requests, pc[r] \in HoldingToken, tokens' = Consumed(r)
  PROVE  /\ tokens' \in [Tokens -> Token \cup {None}]
         /\ token[r] \in Live(purpose[r]) /\ tokens'[token[r]].consumed
         /\ \A t \in Tokens :
              /\ tokens'[t] # None <=> tokens[t] # None
              /\ tokens[t] # None => /\ tokens'[t].purpose = tokens[t].purpose
                                     /\ tokens'[t].confirms = tokens[t].confirms
              /\ t # token[r] => tokens'[t] = tokens[t]
         /\ \A p \in Purposes : Live(p)' \subseteq Live(p) \ {token[r]}
<1> DEFINE used == [tokens[token[r]] EXCEPT !.consumed = TRUE]
<1>1. /\ token[r] \in Tokens /\ tokens[token[r]] \in Token /\ tokens[token[r]] # None
      /\ tokens[token[r]].purpose = purpose[r] /\ ~tokens[token[r]].consumed
  BY DEF IInv, ConsumeInv, HoldingToken, Consuming, TypeOK
<1>2. /\ used \in Token /\ used.consumed
      /\ used.purpose = tokens[token[r]].purpose
      /\ used.confirms = tokens[token[r]].confirms
  BY <1>1 DEF Token
<1>3. used # None
  BY <1>2, AccountsAssumption
<1>4. tokens' = [tokens EXCEPT ![token[r]] = used]
  BY DEF Consumed
<1> HIDE DEF used
<1>5. tokens' \in [Tokens -> Token \cup {None}]
  BY <1>1, <1>2, <1>4 DEF IInv, TypeOK
<1>6. \A t \in Tokens : tokens'[t] = IF t = token[r] THEN used ELSE tokens[t]
  BY <1>1, <1>4 DEF IInv, TypeOK
<1>7. \A p \in Purposes : Live(p)' \subseteq Live(p) \ {token[r]}
  BY <1>2, <1>6 DEF Live
<1>8. token[r] \in Live(purpose[r])
  BY <1>1 DEF Live
<1>9. QED BY <1>1, <1>2, <1>3, <1>5, <1>6, <1>7, <1>8

\* The end of a transaction that uses up a token and leaves the account
\* verified, seen by the other requests and the tokens.
LEMMA UsedUp ==
  ASSUME IInv, NEW r \in Requests, End(r), pc[r] \in HoldingToken,
         tokens' = Consumed(r),
         \A q \in Requests : q # r => pc[q] \notin HoldingAccount,
         account' # None, account'.verified
  PROVE  LockInv' /\ IssueInv' /\ ConsumeInv' /\ SignInInv' /\ TokenInv'
         /\ ConfirmInv' /\ OneLiveLink'
<1>1. LockInv'
  BY EndLocks DEF IInv
<1>2. IssueInv'
  <2>1. ASSUME NEW q \in Requests, q # r, pc[q] \in Issuing
        PROVE  /\ tokens'[token[q]] = None
               /\ \A o \in Requests : o # q => token'[o] # token[q]
    <3>1. token[q] \in Tokens /\ tokens[token[q]] = None
      BY <2>1 DEF IInv, IssueInv
    <3>2. tokens'[token[q]] = None
      BY <3>1, ConsumedTokens
    <3>3. QED BY <2>1, <3>1, <3>2, EndFacts, AccountsAssumption DEF IInv, IssueInv
  <2>2. QED BY <2>1, EndFacts DEF IInv, IssueInv, Issuing, HoldingAccount
<1>3. ConsumeInv'
  <2>1. ASSUME NEW q \in Requests, q # r, pc[q] \in Consuming
        PROVE  /\ tokens'[token[q]] # None
               /\ tokens'[token[q]].purpose = tokens[token[q]].purpose
               /\ pc[q] \in HoldingToken => tokens'[token[q]] = tokens[token[q]]
    <3>1. token[q] \in Tokens /\ tokens[token[q]] # None
      BY <2>1 DEF IInv, ConsumeInv
    <3>2. pc[q] \in HoldingToken => token[q] # token[r]
      BY <2>1, TokenAlone
    <3>3. QED BY <3>1, <3>2, ConsumedTokens
  <2>2. QED
    BY <2>1, EndFacts
       DEF IInv, ConsumeInv, Consuming, HoldingToken, Resetting, HoldingAccount
<1>4. SignInInv'
  BY EndFacts DEF IInv, SignInInv
<1>5. TokenInv'
  BY DEF TokenInv
<1>6. ConfirmInv'
  BY DEF ConfirmInv
<1>7. OneLiveLink'
  <2>1. ASSUME NEW p \in Purposes, NEW t \in Live(p)', NEW u \in Live(p)' PROVE t = u
    BY <2>1, ConsumedTokens DEF IInv, OneLiveLink
  <2>2. QED BY <2>1 DEF OneLiveLink
<1>8. QED BY <1>1, <1>2, <1>3, <1>4, <1>5, <1>6, <1>7

\* An address is verified.
LEMMA VerifyAccountStep ==
  ASSUME IInv, NEW r \in Requests, VerifyAccount(r) PROVE IInv'
<1>1. /\ pc[r] = "verify" /\ lock[AccountRow] = None
      /\ account' = [account EXCEPT !.verified = TRUE]
      /\ tokens' = Consumed(r) /\ End(r) /\ UNCHANGED sessions
  BY DEF VerifyAccount, Free
<1>2. account # None /\ account \in Account /\ pc[r] \in HoldingToken
  BY <1>1 DEF IInv, ConsumeInv, TokenInv, Consuming, HoldingToken, TypeOK
<1>3. account' \in Account /\ account'.verified /\ account'.version = account.version
  BY <1>1, <1>2 DEF Account
<1>4. account' # None
  BY <1>3, AccountsAssumption
<1>5. \A q \in Requests : q # r => pc[q] \notin HoldingAccount
  BY <1>1, AccountAlone
<1>6. TypeOK'
  BY <1>1, <1>2, <1>3, EndFacts, ConsumedTokens DEF IInv, TypeOK
<1>7. NoSessionOutlivesReset'
  BY <1>1, <1>3, <1>4 DEF IInv, NoSessionOutlivesReset
<1>8. QED BY <1>1, <1>2, <1>3, <1>4, <1>5, <1>6, <1>7, UsedUp DEF IInv

\* A reset commits.
LEMMA CommitResetStep ==
  ASSUME IInv, NEW r \in Requests, CommitReset(r) PROVE IInv'
<1>1. /\ pc[r] = "commit" /\ account' = draft[r] /\ tokens' = Consumed(r)
      /\ sessions' = [s \in Sessions |->
           IF s \in hit[r] THEN [sessions[s] EXCEPT !.revoked = TRUE]
                           ELSE sessions[s]]
      /\ End(r)
  BY DEF CommitReset
<1>2. /\ draft[r] \in Account /\ draft[r].verified /\ pc[r] \in HoldingToken
      /\ \A s \in Sessions : /\ s \in hit[r] => sessions[s] # None
                             /\ sessions[s] # None /\ ~sessions[s].revoked => s \in hit[r]
  BY <1>1 DEF IInv, ConsumeInv, HoldingToken
<1>3. account' \in Account /\ account'.verified /\ account' # None
  BY <1>1, <1>2, AccountsAssumption
<1>4. \A q \in Requests : q # r => pc[q] \notin HoldingAccount
  BY <1>1, AccountAlone DEF IInv, LockInv, HoldingAccount
<1>5. ASSUME NEW s \in Sessions
      PROVE  /\ sessions'[s] \in Session \cup {None}
             /\ sessions'[s] # None => sessions'[s].revoked
  <2>1. CASE s \in hit[r]
    <3>1. sessions[s] \in Session
      BY <1>2, <2>1 DEF IInv, TypeOK
    <3>2. /\ [sessions[s] EXCEPT !.revoked = TRUE] \in Session
          /\ [sessions[s] EXCEPT !.revoked = TRUE].revoked
      BY <3>1 DEF Session
    <3>3. QED BY <1>1, <2>1, <3>2
  <2>2. CASE s \notin hit[r]
    BY <1>1, <1>2, <2>2 DEF IInv, TypeOK
  <2>3. QED BY <2>1, <2>2
<1>6. TypeOK'
  BY <1>1, <1>2, <1>3, <1>5, EndFacts, ConsumedTokens DEF IInv, TypeOK
<1>7. NoSessionOutlivesReset'
  BY <1>5 DEF NoSessionOutlivesReset
<1>8. QED BY <1>1, <1>2, <1>3, <1>4, <1>6, <1>7, UsedUp DEF IInv

\* A sign-in renews the hash of the password.
LEMMA RehashStep ==
  ASSUME IInv, NEW r \in Requests, Rehash(r) PROVE IInv'
<1>1. CASE End(r) /\ UNCHANGED database
  BY <1>1, EndPlain
<1>2. CASE ~(End(r) /\ UNCHANGED database)
  <2> DEFINE a == [account EXCEPT !.hash = hash[r]]
             e == [expected[r] EXCEPT !.hash = hash[r]]
  <2>1. /\ pc[r] = "rehash" /\ lock[AccountRow] = None
        /\ account' = a
        /\ expected' = [expected EXCEPT ![r] = e]
        /\ pc' = [pc EXCEPT ![r] = "session"]
        /\ UNCHANGED <<tokens, sessions>>
        /\ UNCHANGED <<lock, purpose, hash, token, session, draft, hit>>
    BY <1>2 DEF Rehash, Free, Goto, database
  <2>2. /\ account \in Account /\ account # None /\ account.verified
        /\ expected[r] \in Account /\ session[r] \in Sessions /\ hash[r] \in Hashes
    BY <2>1 DEF IInv, SignInInv, TypeOK
  <2>3. a \in Account /\ a.verified /\ a.version = account.version /\ e \in Account
    BY <2>2 DEF Account
  <2>4. a # None
    BY <2>3, AccountsAssumption
  <2> HIDE DEF a, e
  <2>5. \A q \in Requests : pc[q] \notin HoldingAccount
    BY <2>1, AccountAlone DEF HoldingAccount
  <2>6. \A p : Live(p)' = Live(p)
    BY <2>1 DEF Live
  <2>7. TypeOK'
    BY <2>1, <2>3 DEF IInv, TypeOK
  <2>8. LockInv'
    BY <2>1 DEF IInv, LockInv, TypeOK, HoldingAccount, HoldingToken
  <2>9. IssueInv'
    BY <2>1, <2>5 DEF IInv, IssueInv, TypeOK, Issuing, HoldingAccount
  <2>10. ConsumeInv'
    BY <2>1 DEF IInv, ConsumeInv, TypeOK, Consuming, HoldingToken, Resetting
  <2>11. SignInInv'
    BY <2>1, <2>2, <2>3, <2>4 DEF IInv, SignInInv, TypeOK
  <2>12. TokenInv' /\ ConfirmInv' /\ NoSessionOutlivesReset'
    BY <2>1, <2>3, <2>4 DEF IInv, TokenInv, ConfirmInv, NoSessionOutlivesReset
  <2>13. OneLiveLink'
    BY <2>6 DEF IInv, OneLiveLink
  <2>14. QED
    BY <2>7, <2>8, <2>9, <2>10, <2>11, <2>12, <2>13 DEF IInv
<1>3. QED BY <1>1, <1>2

\* Changes to sessions alone, made while no reset has revoked them.
LEMMA SessionsChanged ==
  ASSUME IInv, UNCHANGED <<account, tokens, lock, locals>>,
         sessions' \in [Sessions -> Session \cup {None}],
         \A s \in Sessions :
           /\ sessions'[s] # None /\ ~sessions'[s].revoked => sessions'[s] = sessions[s]
           /\ sessions[s] # None /\ sessions'[s] = None =>
                \A r \in Requests : s \notin hit[r]
  PROVE  IInv'
<1>1. TypeOK'
  BY DEF IInv, TypeOK, locals
<1>2. LockInv' /\ SignInInv'
  BY DEF IInv, LockInv, SignInInv, locals
<1>3. Live("verify_email")' = Live("verify_email") /\ \A p : Live(p)' = Live(p)
  BY DEF Live
<1>4. IssueInv' /\ TokenInv' /\ ConfirmInv' /\ OneLiveLink'
  BY <1>3 DEF IInv, IssueInv, TokenInv, ConfirmInv, OneLiveLink, locals
<1>5. ConsumeInv'
  BY DEF IInv, ConsumeInv, locals
<1>6. NoSessionOutlivesReset'
  BY DEF IInv, NoSessionOutlivesReset
<1>7. QED BY <1>1, <1>2, <1>4, <1>5, <1>6 DEF IInv

\* A session is revoked by its owner or removed.
LEMMA SessionStep ==
  ASSUME IInv, NEW s \in Sessions, SignOut(s) \/ CleanupSession(s) PROVE IInv'
<1>1. CASE SignOut(s)
  <2> DEFINE v == [sessions[s] EXCEPT !.revoked = TRUE]
  <2>0. sessions[s] \in Session
    BY <1>1 DEF IInv, TypeOK, SignOut
  <2>1. v \in Session /\ v.revoked
    BY <2>0 DEF Session
  <2>2. v # None
    BY <2>1, AccountsAssumption
  <2>3. sessions' = [sessions EXCEPT ![s] = v] /\ UNCHANGED <<account, tokens, lock, locals>>
    BY <1>1 DEF SignOut
  <2> HIDE DEF v
  <2>4. QED BY <2>1, <2>2, <2>3, SessionsChanged DEF IInv, TypeOK
<1>2. CASE CleanupSession(s)
  BY <1>2, SessionsChanged DEF CleanupSession, IInv, TypeOK
<1>3. QED BY <1>1, <1>2

\* A sign-in inserts its session, or has lost to a reset.
LEMMA CreateSessionStep ==
  ASSUME IInv, NEW r \in Requests, CreateSession(r) PROVE IInv'
<1>1. CASE UNCHANGED sessions
  BY <1>1, EndPlain DEF CreateSession, database
<1>2. CASE sessions' # sessions
  <2> DEFINE new == [born |-> account.version, revoked |-> FALSE]
  <2>1. /\ pc[r] = "session" /\ lock[AccountRow] = None
        /\ sessions' = [sessions EXCEPT ![session[r]] = new]
        /\ End(r) /\ UNCHANGED <<account, tokens>>
    BY <1>2 DEF CreateSession, SessionLock, Free
  <2>2. account # None /\ account \in Account /\ session[r] \in Sessions
    BY <2>1 DEF IInv, SignInInv, TypeOK
  <2>3. new \in Session /\ new.born = account.version
    BY <2>2 DEF Account, Session
  <2> HIDE DEF new
  <2>4. \A q \in Requests : pc[q] \notin HoldingAccount
    BY <2>1, AccountAlone DEF HoldingAccount
  <2>5. Live("verify_email")' = Live("verify_email") /\ \A p : Live(p)' = Live(p)
    BY <2>1 DEF Live
  <2>6. TypeOK'
    BY <2>1, <2>2, <2>3, EndFacts DEF IInv, TypeOK
  <2>7. LockInv'
    BY <2>1, EndLocks DEF IInv
  <2>8. IssueInv'
    <3>1. ASSUME NEW q \in Requests, q # r, pc[q] \in Issuing
          PROVE  \A o \in Requests : o # q => token'[o] # token[q]
      BY <2>1, <3>1, EndFacts, AccountsAssumption DEF IInv, IssueInv, TypeOK
    <3>2. QED
      BY <2>1, <2>4, <3>1, EndFacts DEF IInv, IssueInv, Issuing, HoldingAccount
  <2>9. ConsumeInv'
    BY <2>1, <2>4, EndFacts
       DEF IInv, ConsumeInv, Consuming, HoldingToken, Resetting, HoldingAccount
  <2>10. SignInInv'
    BY <2>1, EndFacts DEF IInv, SignInInv
  <2>11. TokenInv' /\ ConfirmInv' /\ OneLiveLink'
    BY <2>1, <2>5 DEF IInv, TokenInv, ConfirmInv, OneLiveLink
  <2>12. NoSessionOutlivesReset'
    BY <2>1, <2>2, <2>3 DEF IInv, NoSessionOutlivesReset, TypeOK
  <2>13. QED
    BY <2>6, <2>7, <2>8, <2>9, <2>10, <2>11, <2>12 DEF IInv
<1>3. QED BY <1>1, <1>2

\* A token is removed.
LEMMA CleanupTokenStep ==
  ASSUME IInv, NEW t \in Tokens, CleanupToken(t) PROVE IInv'
<1>1. /\ tokens[t] # None /\ \A r \in Requests : token[r] # t /\ t \notin hit[r]
      /\ tokens' = [tokens EXCEPT ![t] = None]
      /\ UNCHANGED <<account, sessions, lock, locals>>
  BY DEF CleanupToken
<1>2. \A u \in Tokens : u # t => tokens'[u] = tokens[u]
  BY <1>1 DEF IInv, TypeOK
<1>3. tokens'[t] = None
  BY <1>1 DEF IInv, TypeOK
<1>4. \A p : Live(p)' = Live(p) \ {t}
  BY <1>2, <1>3 DEF Live
<1>5. TypeOK'
  BY <1>1 DEF IInv, TypeOK, locals
<1>6. LockInv' /\ SignInInv' /\ NoSessionOutlivesReset'
  BY <1>1 DEF IInv, LockInv, SignInInv, NoSessionOutlivesReset, locals
<1>7. IssueInv'
  <2>1. \A r \in Requests : pc[r] = "insert" => hit[r] = Live(purpose[r])'
    BY <1>1, <1>4 DEF IInv, IssueInv, locals
  <2>2. QED BY <1>1, <1>2, <2>1 DEF IInv, IssueInv, locals
<1>8. ConsumeInv'
  BY <1>1, <1>2 DEF IInv, ConsumeInv, Consuming, HoldingToken, locals
<1>9. TokenInv'
  BY <1>1, <1>2, <1>3 DEF IInv, TokenInv
<1>10. ConfirmInv'
  <2>1. ASSUME NEW u \in Live("verify_email")', ~account'.verified
        PROVE  tokens'[u].confirms = account'.hash
    <3>1. u \in Live("verify_email") /\ u \in Tokens /\ u # t
      BY <1>2, <1>3, <2>1 DEF Live
    <3>2. QED BY <1>1, <1>2, <2>1, <3>1 DEF IInv, ConfirmInv
  <2>2. QED BY <2>1 DEF ConfirmInv
<1>11. OneLiveLink'
  BY <1>4 DEF IInv, OneLiveLink
<1>12. QED
  BY <1>5, <1>6, <1>7, <1>8, <1>9, <1>10, <1>11 DEF IInv

-----------------------------------------------------------------------------
(* Theorems.                                                                *)

\* The invariant holds initially ...
LEMMA InitInv == Init => IInv
<1> SUFFICES ASSUME Init PROVE IInv
  OBVIOUS
<1>1. TypeOK
  BY AccountsAssumption DEF Init, TypeOK
<1>2. LockInv /\ IssueInv /\ ConsumeInv /\ SignInInv
  BY DEF Init, LockInv, IssueInv, ConsumeInv, SignInInv, Issuing, Consuming,
         HoldingAccount, HoldingToken, Resetting
<1>3. TokenInv /\ ConfirmInv /\ NoSessionOutlivesReset /\ OneLiveLink
  BY DEF Init, TokenInv, ConfirmInv, NoSessionOutlivesReset, OneLiveLink, Live
<1>4. QED BY <1>1, <1>2, <1>3 DEF IInv

\* ... and is kept by every step.
LEMMA StepInv == ASSUME IInv, [Next]_vars PROVE IInv'
<1>1. CASE UNCHANGED vars
  <2>1. Live("verify_email")' = Live("verify_email") /\ \A p : Live(p)' = Live(p)
    BY <1>1 DEF Live, vars, database
  <2>2. TypeOK' /\ LockInv' /\ SignInInv' /\ TokenInv' /\ NoSessionOutlivesReset'
    BY <1>1 DEF IInv, vars, database, locals, TypeOK, LockInv, SignInInv, TokenInv,
                NoSessionOutlivesReset
  <2>3. IssueInv' /\ ConsumeInv'
    BY <1>1, <2>1 DEF IInv, vars, database, locals, IssueInv, ConsumeInv
  <2>4. ConfirmInv' /\ OneLiveLink'
    BY <1>1, <2>1 DEF IInv, vars, database, locals, ConfirmInv, OneLiveLink
  <2>5. QED BY <2>2, <2>3, <2>4 DEF IInv
<1>2. ASSUME NEW r \in Requests, Start(r) PROVE IInv'
  BY <1>2, SignUpStep, RequestLinkStep, FollowLinkStep, SignInStep DEF Start
<1>3. ASSUME NEW r \in Requests, Statement(r) PROVE IInv'
  BY <1>3, UpsertAccountStep, FindEligibleStep, InvalidateTokensStep, InsertTokenStep,
     ConsumeTokenStep, VerifyAccountStep, UpdatePasswordStep, RevokeSessionsStep,
     CommitResetStep, RehashStep, CreateSessionStep DEF Statement
<1>4. ASSUME NEW r \in Requests, AbortDeadlock(r) \/ Fail(r) PROVE IInv'
  BY <1>4, EndPlain DEF AbortDeadlock, Fail
<1>5. QED
  BY <1>1, <1>2, <1>3, <1>4, SessionStep, CleanupTokenStep DEF Next

\* So it holds in every reachable state.
LEMMA Invariance == Spec => []IInv
  BY InitInv, StepInv, PTL DEF Spec

\* Every variable keeps its type: versions stay positive and only existing
\* accounts, tokens and sessions are changed.
THEOREM TypeCorrect == Spec => []TypeOK
<1>1. IInv => TypeOK
  BY DEF IInv
<1>2. QED BY <1>1, Invariance, PTL

\* Whatever the order of its statements and those of the sign-ins around it, a
\* reset leaves no valid session that was created with other credentials.
THEOREM ResetEndsSessions == Spec => []NoSessionOutlivesReset
<1>1. IInv => NoSessionOutlivesReset
  BY DEF IInv
<1>2. QED BY <1>1, Invariance, PTL

\* At most one link of each purpose can be used, however many are requested.
THEOREM OneLinkAtATime == Spec => []OneLiveLink
<1>1. IInv => OneLiveLink
  BY DEF IInv
<1>2. QED BY <1>1, Invariance, PTL

-----------------------------------------------------------------------------
(* What a step that moves the account may do.                               *)

\* Only four statements change the account.
LEMMA AccountMoves ==
  ASSUME IInv, [Next]_vars, account' # account
  PROVE  \E r \in Requests : InsertToken(r) \/ VerifyAccount(r) \/ CommitReset(r) \/ Rehash(r)
<1>1. ASSUME NEW r \in Requests, Start(r) PROVE FALSE
  BY <1>1 DEF Start, SignUp, RequestLink, FollowVerification, FollowReset, Follow,
              SignIn, database
<1>2. ASSUME NEW r \in Requests, AbortDeadlock(r) \/ Fail(r) PROVE FALSE
  BY <1>2 DEF AbortDeadlock, Fail, database
<1>3. ASSUME NEW r \in Requests, Statement(r)
      PROVE  InsertToken(r) \/ VerifyAccount(r) \/ CommitReset(r) \/ Rehash(r)
  BY <1>3 DEF Statement, UpsertAccount, FindEligible, InvalidateTokens, ConsumeToken,
              UpdatePassword, RevokeSessions, CreateSession, database
<1>4. ASSUME NEW s \in Sessions, SignOut(s) \/ CleanupSession(s) PROVE FALSE
  BY <1>4 DEF SignOut, CleanupSession
<1>5. ASSUME NEW t \in Tokens, CleanupToken(t) PROVE FALSE
  BY <1>5 DEF CleanupToken
<1>6. QED BY <1>1, <1>2, <1>3, <1>4, <1>5 DEF Next, vars, database

\* A step that verifies the address uses up a link that confirms the password
\* the account then has; one that gives a verified account another version of
\* its credentials uses up a reset link.
LEMMA MoveUsesLink ==
  ASSUME IInv, [Next]_vars, account' # account
  PROVE  /\ ~Verified /\ Verified' =>
              \E t \in Live("verify_email") :
                tokens'[t].consumed /\ tokens[t].confirms = account'.hash
         /\ Verified /\ Version' # Version =>
              \E t \in Live("reset_password") : tokens'[t].consumed
<1>1. ASSUME NEW r \in Requests, InsertToken(r)
      PROVE  (Verified' => Verified) /\ (Verified => Version' = Version)
  BY <1>1, InsertedAccount DEF Verified, Version
<1>2. ASSUME NEW r \in Requests, Rehash(r)
      PROVE  (Verified' => Verified) /\ (Verified => Version' = Version)
  <2>1. account # None /\ account \in Account /\ account.verified
    BY <1>2 DEF Rehash, IInv, SignInInv, TypeOK
  <2>2. account' = [account EXCEPT !.hash = hash[r]] \/ account' = account
    BY <1>2 DEF Rehash
  <2>3. account'.version = account.version /\ account' # None
    <3>1. hash[r] \in Hashes
      BY <1>2 DEF Rehash, IInv, SignInInv
    <3>2. /\ [account EXCEPT !.hash = hash[r]] \in Account
          /\ [account EXCEPT !.hash = hash[r]].version = account.version
      BY <2>1, <3>1 DEF Account
    <3>3. QED BY <2>1, <2>2, <3>2, AccountsAssumption
  <2>4. QED BY <2>1, <2>3 DEF Verified, Version
<1>3. ASSUME NEW r \in Requests, VerifyAccount(r)
      PROVE  /\ Verified => Version' = Version
             /\ ~Verified => \E t \in Live("verify_email") :
                  tokens'[t].consumed /\ tokens[t].confirms = account'.hash
  <2>1. /\ pc[r] = "verify" /\ purpose[r] = "verify_email" /\ pc[r] \in HoldingToken
        /\ tokens' = Consumed(r)
        /\ account' = [account EXCEPT !.verified = TRUE]
    BY <1>3 DEF VerifyAccount, IInv, ConsumeInv, HoldingToken
  <2>2. account # None /\ account \in Account
    BY <2>1 DEF IInv, ConsumeInv, TokenInv, TypeOK, Consuming
  <2>3. account'.version = account.version /\ account'.hash = account.hash
        /\ account' \in Account
    BY <2>1, <2>2 DEF Account
  <2>4. account' # None
    BY <2>3, AccountsAssumption
  <2>5. token[r] \in Live("verify_email") /\ tokens'[token[r]].consumed
    BY <2>1, ConsumedTokens
  <2>6. ~Verified => tokens[token[r]].confirms = account'.hash
    BY <2>2, <2>3, <2>5 DEF IInv, ConfirmInv, Verified
  <2>7. QED BY <2>2, <2>3, <2>4, <2>5, <2>6 DEF Verified, Version
<1>4. ASSUME NEW r \in Requests, CommitReset(r)
      PROVE  Verified /\ \E t \in Live("reset_password") : tokens'[t].consumed
  <2>1. /\ pc[r] = "commit" /\ purpose[r] = "reset_password" /\ pc[r] \in HoldingToken
        /\ tokens' = Consumed(r)
    BY <1>4 DEF CommitReset, IInv, ConsumeInv, HoldingToken, Resetting
  <2>2. account # None /\ account.verified
    BY <2>1 DEF IInv, ConsumeInv, TokenInv, Consuming
  <2>3. QED BY <2>1, <2>2, ConsumedTokens DEF Verified
<1>5. QED BY <1>1, <1>2, <1>3, <1>4, AccountMoves

\* The owner of the address confirmed the password the address is verified
\* with.
THEOREM ConfirmedByOwner == Spec => VerifiedPasswordWasConfirmed
<1>1. ASSUME IInv, [Next]_vars
      PROVE  [~Verified /\ Verified' =>
                \E t \in Live("verify_email") :
                  tokens'[t].consumed /\ tokens[t].confirms = account'.hash]_account
  BY <1>1, MoveUsesLink
<1>2. QED BY <1>1, Invariance, PTL DEF Spec, VerifiedPasswordWasConfirmed

\* No two requests get through with the same link.
THEOREM TokensUsedOnce == Spec => EachTokenOnce
<1>1. ASSUME IInv, [Next]_vars
      PROVE  [\A p \in Purposes : CredentialsMove(p) =>
                \E t \in Live(p) : tokens'[t].consumed]_account
  BY <1>1, MoveUsesLink DEF CredentialsMove, Purposes
<1>2. QED BY <1>1, Invariance, PTL DEF Spec, EachTokenOnce
=============================================================================
