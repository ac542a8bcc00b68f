--------------------------- MODULE AccountFailover --------------------------
(***************************************************************************)
(* Concurrent calls of callWithAccountFailover (internal/glmclient/        *)
(* failover.go) over the account manager they share (internal/auth/        *)
(* auth.go).  One step is one critical section of the manager's mutex, or  *)
(* one request to GLM; a token refresh keeps the mutex while it talks to   *)
(* GLM, so it is one step too.                                             *)
(*                                                                         *)
(* Access tokens of an account are numbered as GLM issues them.  How the   *)
(* accounts behave is fixed at the start: a healthy one never fails with   *)
(* an error that ShouldSwitchAccount takes for the account's.              *)
(***************************************************************************)
EXTENDS Integers, FiniteSets

CONSTANTS Calls,             \* concurrent calls
          AccountCount,      \* len(m.accounts)
          Guests,            \* indices of the guest accounts
          GuestMaxRetries,   \* GLM_GUEST_MAX_RETRIES
          MaxExpiring        \* bound: this many first tokens of an account may expire

ASSUME FailoverAssumption ==
    /\ AccountCount \in Nat \ {0}
    /\ Guests \subseteq 0 .. AccountCount - 1
    /\ GuestMaxRetries \in Nat
    /\ MaxExpiring \in Nat

VARIABLES
    healthy,       \* accounts whose requests do not fail on their own account
    currentIndex,  \* m.currentIndex
    cached,        \* m.accounts[a].CachedToken: number of the token, 0 for nil or expired
    issued,        \* access tokens GLM has issued to an account
    preferred,     \* preferredAccountIndex of a call, or NoPreference
    pc,            \* where a call stands
    startIndex, offset, attempt, token,   \* the locals of a call
    failedToken,   \* last token with which an operation of a call failed, per account
    tries          \* attempts of a call, per account

managerVars == <<currentIndex, cached, issued>>
localVars == <<startIndex, offset, attempt, token>>
history == <<failedToken, tries>>
vars == <<healthy, managerVars, preferred, pc, localVars, history>>

Accounts == 0 .. AccountCount - 1
NoPreference == AccountCount
Returned == {"ok", "stopped", "exhausted"}

Init ==
    /\ healthy \in SUBSET Accounts
    /\ currentIndex = 0
    /\ cached = [a \in Accounts |-> 0] /\ issued = [a \in Accounts |-> 0]
    /\ preferred \in [Calls -> Accounts \union {NoPreference}]
    /\ pc = [c \in Calls |-> "start"]
    /\ startIndex = [c \in Calls |-> 0] /\ offset = [c \in Calls |-> 0]
    /\ attempt = [c \in Calls |-> 0] /\ token = [c \in Calls |-> 0]
    /\ failedToken = [c \in Calls |-> [a \in Accounts |-> 0]]
    /\ tries = [c \in Calls |-> [a \in Accounts |-> 0]]

accountIndex(c) == (startIndex[c] + offset[c]) % AccountCount
retryLimit(a) == IF a \in Guests THEN GuestMaxRetries ELSE 0

Goto(c, label) == pc' = [pc EXCEPT ![c] = label]

(* GetCurrentAccountIndex, unless the caller prefers an account. *)
Start(c) ==
    /\ pc[c] = "start"
    /\ startIndex' = [startIndex EXCEPT ![c] =
                        IF preferred[c] = NoPreference THEN currentIndex ELSE preferred[c]]
    /\ Goto(c, "token")
    /\ UNCHANGED <<healthy, managerVars, preferred, offset, attempt, token, history>>

(* GetAccessTokenForAccount: the cached token, or a new one from GLM. *)
GetToken(c) ==
    LET a == accountIndex(c)
    IN  /\ pc[c] = "token"
        /\ IF cached[a] # 0
             THEN /\ token' = [token EXCEPT ![c] = cached[a]]
                  /\ UNCHANGED <<cached, issued>>
             ELSE /\ token' = [token EXCEPT ![c] = issued[a] + 1]
                  /\ cached' = [cached EXCEPT ![a] = issued[a] + 1]
                  /\ issued' = [issued EXCEPT ![a] = @ + 1]
        /\ tries' = [tries EXCEPT ![c][a] = @ + 1]
        /\ Goto(c, "operation")
        /\ UNCHANGED <<healthy, currentIndex, preferred, startIndex, offset, attempt, failedToken>>

(* GetAccessTokenForAccount fails: every error but an unreadable answer    *)
(* names the token, so that it counts against the account.                 *)
GetTokenFails(c) ==
    LET a == accountIndex(c)
    IN  /\ pc[c] = "token" /\ cached[a] = 0
        /\ \/ a \notin healthy /\ Goto(c, "failed")
           \/ Goto(c, "stopped")
        /\ token' = [token EXCEPT ![c] = 0]
        /\ tries' = [tries EXCEPT ![c][a] = @ + 1]
        /\ UNCHANGED <<healthy, managerVars, preferred, startIndex, offset, attempt, failedToken>>

(* The operation: it succeeds, fails with an error of the account, or with *)
(* one that is not (ShouldSwitchAccount is false), which is returned.      *)
Operate(c) ==
    LET a == accountIndex(c)
    IN  /\ pc[c] = "operation"
        /\ \/ Goto(c, "ok") /\ UNCHANGED failedToken
           \/ Goto(c, "stopped") /\ UNCHANGED failedToken
           \/ /\ a \notin healthy
              /\ Goto(c, "failed")
              /\ failedToken' = [failedToken EXCEPT ![c][a] = token[c]]
        /\ UNCHANGED <<healthy, managerVars, preferred, localVars, tries>>

\* Bug: the cached token is kept.
InvalidateNothing(c) ==
    LET a == accountIndex(c)
        again == attempt[c] < retryLimit(a)
    IN  /\ pc[c] = "failed"
        /\ attempt' = [attempt EXCEPT ![c] = IF again THEN @ + 1 ELSE @]
        /\ Goto(c, IF again THEN "token" ELSE IF AccountCount = 1 THEN "exhausted" ELSE "advance")
        /\ UNCHANGED <<healthy, managerVars, preferred, startIndex, offset, token, history>>

(* InvalidateAccount; then a guest is tried again, a single account gives  *)
(* up, and otherwise the next account is due.                              *)
Invalidate(c) ==
    LET a == accountIndex(c)
        again == attempt[c] < retryLimit(a)
    IN  /\ pc[c] = "failed"
        /\ cached' = [cached EXCEPT ![a] = 0]
        /\ attempt' = [attempt EXCEPT ![c] = IF again THEN @ + 1 ELSE @]
        /\ Goto(c, IF again THEN "token" ELSE IF AccountCount = 1 THEN "exhausted" ELSE "advance")
        /\ UNCHANGED <<healthy, currentIndex, issued, preferred, startIndex, offset, token, history>>

\* Bugs: the index moves past the last account; the last account is left out; the index moves
\* whoever failed; the call waits until its account is the current one.
AdvanceNoWrap(c) ==
    /\ pc[c] = "advance"
    /\ currentIndex' = IF currentIndex = accountIndex(c) THEN currentIndex + 1 ELSE currentIndex
    /\ offset' = [offset EXCEPT ![c] = @ + 1]
    /\ attempt' = [attempt EXCEPT ![c] = 0]
    /\ Goto(c, IF offset[c] + 1 < AccountCount THEN "token" ELSE "reset")
    /\ UNCHANGED <<healthy, cached, issued, preferred, startIndex, token, history>>

AdvanceTooShort(c) ==
    /\ pc[c] = "advance"
    /\ currentIndex' = IF currentIndex = accountIndex(c)
                         THEN (currentIndex + 1) % AccountCount ELSE currentIndex
    /\ offset' = [offset EXCEPT ![c] = @ + 1]
    /\ attempt' = [attempt EXCEPT ![c] = 0]
    /\ Goto(c, IF offset[c] + 2 < AccountCount THEN "token" ELSE "reset")
    /\ UNCHANGED <<healthy, cached, issued, preferred, startIndex, token, history>>

AdvanceAlways(c) ==
    /\ pc[c] = "advance"
    /\ currentIndex' = (currentIndex + 1) % AccountCount
    /\ offset' = [offset EXCEPT ![c] = @ + 1]
    /\ attempt' = [attempt EXCEPT ![c] = 0]
    /\ Goto(c, IF offset[c] + 1 < AccountCount THEN "token" ELSE "reset")
    /\ UNCHANGED <<healthy, cached, issued, preferred, startIndex, token, history>>

AdvanceWaits(c) ==
    /\ pc[c] = "advance" /\ currentIndex = accountIndex(c)
    /\ currentIndex' = (currentIndex + 1) % AccountCount
    /\ offset' = [offset EXCEPT ![c] = @ + 1]
    /\ attempt' = [attempt EXCEPT ![c] = 0]
    /\ Goto(c, IF offset[c] + 1 < AccountCount THEN "token" ELSE "reset")
    /\ UNCHANGED <<healthy, cached, issued, preferred, startIndex, token, history>>

(* AdvanceAccount moves the shared index only if it still is the failed    *)
(* account; the call goes on to its next account.                          *)
Advance(c) ==
    /\ pc[c] = "advance"
    /\ currentIndex' = IF currentIndex = accountIndex(c)
                         THEN (currentIndex + 1) % AccountCount ELSE currentIndex
    /\ offset' = [offset EXCEPT ![c] = @ + 1]
    /\ attempt' = [attempt EXCEPT ![c] = 0]
    /\ Goto(c, IF offset[c] + 1 < AccountCount THEN "token" ELSE "reset")
    /\ UNCHANGED <<healthy, cached, issued, preferred, startIndex, token, history>>

(* Every account has failed: ResetAccountCycle. *)
Reset(c) ==
    /\ pc[c] = "reset"
    /\ currentIndex' = 0
    /\ Goto(c, "exhausted")
    /\ UNCHANGED <<healthy, cached, issued, preferred, localVars, history>>

(* A cached token reaches its expiry time. *)
Expire(a) ==
    /\ cached[a] \in 1 .. MaxExpiring
    /\ cached' = [cached EXCEPT ![a] = 0]
    /\ UNCHANGED <<healthy, currentIndex, issued, preferred, pc, localVars, history>>

Step(c) == \/ Start(c) \/ GetToken(c) \/ GetTokenFails(c) \/ Operate(c) \/ Invalidate(c)
           \/ Advance(c) \/ Reset(c)

Next == (\E c \in Calls : Step(c)) \/ (\E a \in Accounts : Expire(a))

Spec == Init /\ [][Next]_vars

(* Every call runs, and every request to GLM ends (the HTTP clients have   *)
(* time-outs).                                                             *)
FairSpec == Spec /\ \A c \in Calls : WF_vars(Step(c))

-----------------------------------------------------------------------------
TypeOK ==
    /\ healthy \subseteq Accounts /\ currentIndex \in Accounts
    /\ cached \in [Accounts -> Nat] /\ issued \in [Accounts -> Nat]
    /\ preferred \in [Calls -> Accounts \union {NoPreference}]
    /\ pc \in [Calls -> {"start", "token", "operation", "failed", "advance", "reset"}
                        \union Returned]
    /\ startIndex \in [Calls -> Accounts] /\ offset \in [Calls -> 0 .. AccountCount]
    /\ attempt \in [Calls -> 0 .. GuestMaxRetries] /\ token \in [Calls -> Nat]
    /\ failedToken \in [Calls -> [Accounts -> Nat]]
    /\ tries \in [Calls -> [Accounts -> Nat]]

(* A call reports that the accounts failed only after each of them has     *)
(* been tried, wherever it started (failover.go:50-107), each exactly as   *)
(* often as its kind allows.                                               *)
ExhaustedAfterAll ==
    \A c \in Calls : pc[c] \in {"reset", "exhausted"} =>
        \A a \in Accounts : tries[c][a] = 1 + retryLimit(a)

(* No account is tried more often than that, whatever the others do.       *)
TriesBounded ==
    \A c \in Calls, a \in Accounts : tries[c][a] <= 1 + retryLimit(a)

(* One healthy account is enough: no call reports that the accounts failed *)
(* (failover.go:30-37).                                                    *)
HealthyAccountFound ==
    healthy # {} => \A c \in Calls : pc[c] \notin {"reset", "exhausted"}

(* An operation is never tried again with a token it failed with, although *)
(* other calls fetch, use and invalidate tokens of the account meanwhile   *)
(* (failover.go:63, 84; auth.go:251-282).                                  *)
RetriesWithNewToken ==
    \A c \in Calls : pc[c] = "operation" => token[c] > failedToken[c][accountIndex(c)]

(* Once the shared index is at a healthy account it stays there: failures  *)
(* of other calls on other accounts, late ones too, do not move it         *)
(* (auth.go:228-248).                                                      *)
HealthyIndexStays ==
    [][(currentIndex \in healthy) => currentIndex' = currentIndex]_vars

(* Every call returns.                                                     *)
CallsReturn == \A c \in Calls : <>(pc[c] \in Returned)
=============================================================================
