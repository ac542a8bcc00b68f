----------------------- MODULE AccountFailover_proofs -----------------------
(***************************************************************************)
(* Proofs about the failover calls, for every number of calls and accounts *)
(* and every choice of guests, retries and healthy accounts.               *)
(***************************************************************************)
EXTENDS AccountFailover, TLAPS

(* The offset at which a call that starts at account s reaches account a. *)
Position(s, a) == IF a >= s THEN a - s ELSE a - s + AccountCount

Running == {"token", "operation", "failed", "advance"}

(* An account a call has given up on, and one it has not reached. *)
Spent(c, a) == tries[c][a] = 1 + retryLimit(a) /\ a \notin healthy
Untouched(c, a) == tries[c][a] = 0 /\ failedToken[c][a] = 0

(* The sweep of a call: what lies behind its offset is spent, what lies    *)
(* ahead is untouched, and attempt counts the tries of the current account.*)
Sweep(c) ==
    /\ pc[c] = "start" => /\ offset[c] = 0 /\ attempt[c] = 0
                          /\ \A a \in Accounts : Untouched(c, a)
    /\ pc[c] \in Running =>
         /\ offset[c] < AccountCount
         /\ \A a \in Accounts : Position(startIndex[c], a) < offset[c] => Spent(c, a)
         /\ \A a \in Accounts : Position(startIndex[c], a) > offset[c] => Untouched(c, a)
         /\ attempt[c] <= retryLimit(accountIndex(c))
         /\ tries[c][accountIndex(c)] = attempt[c] + (IF pc[c] = "token" THEN 0 ELSE 1)
    /\ pc[c] \in {"failed", "advance"} => accountIndex(c) \notin healthy
    /\ pc[c] = "advance" => attempt[c] = retryLimit(accountIndex(c))
    /\ pc[c] \in {"reset", "exhausted"} => \A a \in Accounts : Spent(c, a)
    /\ pc[c] \in {"ok", "stopped"} =>
         \A a \in Accounts : tries[c][a] <= 1 + retryLimit(a)

(* Tokens are issued in increasing order, and the one a call is about to   *)
(* use is newer than the one it last failed with.                          *)
Tokens(c) ==
    /\ \A a \in Accounts : failedToken[c][a] <= issued[a]
    /\ pc[c] = "token" => \/ cached[accountIndex(c)] = 0
                          \/ cached[accountIndex(c)] > failedToken[c][accountIndex(c)]
    /\ pc[c] = "operation" => /\ token[c] > failedToken[c][accountIndex(c)]
                              /\ token[c] <= issued[accountIndex(c)]

IInv == /\ TypeOK
        /\ \A a \in Accounts : cached[a] <= issued[a]
        /\ \A c \in Calls : Sweep(c) /\ Tokens(c)

-----------------------------------------------------------------------------
(* Below twice the divisor, % subtracts the divisor at most once. *)
LEMMA Modulo ==
  ASSUME NEW n \in Nat \ {0}, NEW x \in 0 .. 2 * n - 1
  PROVE  x % n = IF x < n THEN x ELSE x - n
  BY SMT

(* A call is at an account exactly when its offset is the account's        *)
(* position (failover.go:44-51).                                           *)
LEMMA AtPosition ==
  ASSUME NEW s \in Accounts, NEW o \in Accounts
  PROVE  /\ (s + o) % AccountCount \in Accounts
         /\ \A a \in Accounts : Position(s, a) = o <=> a = (s + o) % AccountCount
<1>1. /\ AccountCount \in Nat \ {0} /\ s \in 0 .. AccountCount - 1
      /\ o \in 0 .. AccountCount - 1
  BY FailoverAssumption DEF Accounts
<1>2. PICK x \in 0 .. 2 * AccountCount - 1 : x = s + o
  BY <1>1
<1>3. x % AccountCount = IF x < AccountCount THEN x ELSE x - AccountCount
  BY <1>1, Modulo
<1>4. PICK i : i = x % AccountCount
  OBVIOUS
<1>5. i \in Accounts /\ \A a \in Accounts : Position(s, a) = o <=> a = i
  BY <1>1, <1>2, <1>3, <1>4 DEF Position, Accounts
<1> QED
  BY <1>2, <1>4, <1>5

(* Every account has a position below the number of accounts. *)
LEMMA PositionRange ==
  ASSUME NEW s \in Accounts, NEW a \in Accounts
  PROVE  Position(s, a) \in Accounts
<1>1. /\ AccountCount \in Nat /\ s \in 0 .. AccountCount - 1
      /\ a \in 0 .. AccountCount - 1
  BY FailoverAssumption DEF Accounts
<1> QED
  BY <1>1 DEF Position, Accounts

LEMMA LimitRange == \A a : retryLimit(a) \in 0 .. GuestMaxRetries
  BY FailoverAssumption DEF retryLimit

(* Updating a call's count, or token, of one account. *)
LEMMA UpdateType ==
  ASSUME NEW f \in [Calls -> [Accounts -> Nat]], NEW c \in Calls, NEW a \in Accounts,
         NEW t \in Nat
  PROVE  [f EXCEPT ![c][a] = t] \in [Calls -> [Accounts -> Nat]]
<1>1. [f[c] EXCEPT ![a] = t] \in [Accounts -> Nat]
  OBVIOUS
<1> QED
  BY <1>1

(* The calls start with nothing tried and no token issued. *)
LEMMA InitInv == Init => IInv
  BY FailoverAssumption
  DEF Init, IInv, TypeOK, Sweep, Tokens, Untouched, Accounts, NoPreference, Running, Returned

-----------------------------------------------------------------------------
(* Every step keeps the types. *)
LEMMA TypeStep == IInv /\ [Next]_vars => TypeOK'
<1> SUFFICES ASSUME IInv, [Next]_vars PROVE TypeOK'
  OBVIOUS
<1>0. TypeOK /\ AccountCount \in Nat \ {0} /\ GuestMaxRetries \in Nat
  BY FailoverAssumption DEF IInv
<1>1. ASSUME NEW c \in Calls, Start(c) PROVE TypeOK'
  BY <1>0, <1>1 DEF Start, Goto, TypeOK, NoPreference, Accounts, managerVars, history
<1>2. ASSUME NEW c \in Calls, pc[c] \in Running
      PROVE  accountIndex(c) \in Accounts
  <2>1. startIndex[c] \in Accounts /\ offset[c] \in Accounts
    BY <1>0, <1>2 DEF IInv, Sweep, TypeOK, Accounts
  <2> QED
    BY <2>1, AtPosition DEF accountIndex
<1>3. ASSUME NEW c \in Calls, GetToken(c) PROVE TypeOK'
  <2>1. accountIndex(c) \in Accounts
    BY <1>2, <1>3 DEF GetToken, Running
  <2>2. /\ cached' \in [Accounts -> Nat] /\ issued' \in [Accounts -> Nat]
        /\ token' \in [Calls -> Nat]
    BY <1>0, <1>3, <2>1 DEF GetToken, TypeOK
  <2> QED
    BY <1>0, <1>3, <2>1, <2>2 DEF GetToken, Goto, TypeOK
<1>4. ASSUME NEW c \in Calls, GetTokenFails(c) PROVE TypeOK'
  <2>1. accountIndex(c) \in Accounts
    BY <1>2, <1>4 DEF GetTokenFails, Running
  <2> QED
    BY <1>0, <1>4, <2>1 DEF GetTokenFails, Goto, TypeOK, Returned, managerVars
<1>5. ASSUME NEW c \in Calls, Operate(c) PROVE TypeOK'
  <2>1. accountIndex(c) \in Accounts
    BY <1>2, <1>5 DEF Operate, Running
  <2>2. failedToken' \in [Calls -> [Accounts -> Nat]]
    <3>1. PICK t \in Nat : t = token[c]
      BY <1>0 DEF TypeOK
    <3>2. \/ failedToken' = failedToken
          \/ failedToken' = [failedToken EXCEPT ![c][accountIndex(c)] = t]
      BY <1>5, <3>1 DEF Operate
    <3>3. failedToken \in [Calls -> [Accounts -> Nat]]
      BY <1>0 DEF TypeOK
    <3> QED
      BY <2>1, <3>1, <3>2, <3>3, UpdateType
  <2>3. pc' \in [Calls -> {"start", "token", "operation", "failed", "advance", "reset"}
                          \union Returned]
    BY <1>0, <1>5 DEF Operate, Goto, TypeOK, Returned
  <2> QED
    BY <1>0, <1>5, <2>2, <2>3 DEF Operate, TypeOK, managerVars, localVars
<1>6. ASSUME NEW c \in Calls, Invalidate(c) PROVE TypeOK'
  <2>1. accountIndex(c) \in Accounts
    BY <1>2, <1>6 DEF Invalidate, Running
  <2> QED
    BY <1>0, <1>6, <2>1, LimitRange DEF Invalidate, Goto, TypeOK, Returned, history
<1>7. ASSUME NEW c \in Calls, Advance(c) PROVE TypeOK'
  <2>1. offset[c] + 1 \in 0 .. AccountCount /\ currentIndex \in Accounts
    BY <1>0, <1>7 DEF Advance, IInv, Sweep, Running, TypeOK
  <2>2. (currentIndex + 1) % AccountCount \in Accounts
    BY <1>0, <2>1 DEF Accounts
  <2>3. currentIndex' \in Accounts
    BY <1>7, <2>1, <2>2 DEF Advance
  <2>4. offset' \in [Calls -> 0 .. AccountCount] /\ attempt' \in [Calls -> 0 .. GuestMaxRetries]
    BY <1>0, <1>7, <2>1 DEF Advance, TypeOK
  <2> QED
    BY <1>0, <1>7, <2>3, <2>4 DEF Advance, Goto, TypeOK, history
<1>8. ASSUME NEW c \in Calls, Reset(c) PROVE TypeOK'
  <2>1. 0 \in Accounts
    BY <1>0 DEF Accounts
  <2> QED
    BY <1>0, <1>8, <2>1 DEF Reset, Goto, TypeOK, Returned, localVars, history
<1>9. ASSUME NEW a \in Accounts, Expire(a) PROVE TypeOK'
  BY <1>0, <1>9 DEF Expire, TypeOK, localVars, history
<1>10. CASE UNCHANGED vars
  BY <1>0, <1>10 DEF TypeOK, vars, managerVars, localVars, history
<1> QED
  BY <1>1, <1>3, <1>4, <1>5, <1>6, <1>7, <1>8, <1>9, <1>10 DEF Next, Step

-----------------------------------------------------------------------------
(* A step of one call leaves the sweep of another as it was. *)
LEMMA OthersSweep ==
  ASSUME IInv, NEW c \in Calls, Step(c), NEW d \in Calls, d # c
  PROVE  /\ Sweep(d)'
         /\ pc'[d] = pc[d] /\ accountIndex(d)' = accountIndex(d)
         /\ failedToken'[d] = failedToken[d] /\ token'[d] = token[d]
<1>1. /\ pc'[d] = pc[d] /\ startIndex'[d] = startIndex[d] /\ offset'[d] = offset[d]
      /\ attempt'[d] = attempt[d] /\ token'[d] = token[d]
      /\ failedToken'[d] = failedToken[d] /\ tries'[d] = tries[d] /\ healthy' = healthy
  BY DEF Step, Start, GetToken, GetTokenFails, Operate, Invalidate, Advance, Reset, Goto,
         IInv, TypeOK, managerVars, localVars, history
<1>2. Sweep(d)
  BY DEF IInv
<1> QED
  BY <1>1, <1>2 DEF Sweep, Spent, Untouched, accountIndex, retryLimit, Accounts

-----------------------------------------------------------------------------
(* A call that begins has everything ahead of it (failover.go:44-51). *)
LEMMA StartSweep ==
  ASSUME IInv, NEW c \in Calls, Start(c)
  PROVE  Sweep(c)' /\ Tokens(c)'
<1>0. TypeOK /\ Sweep(c) /\ AccountCount \in Nat \ {0} /\ 0 \in Accounts
  BY FailoverAssumption DEF IInv, Accounts
<1>01. startIndex'[c] \in Accounts
  BY <1>0 DEF Start, TypeOK
<1>02. /\ offset[c] = 0 /\ attempt[c] = 0 /\ \A a \in Accounts : Untouched(c, a)
  BY <1>0 DEF Start, Sweep
<1>1. /\ startIndex'[c] \in Accounts /\ offset'[c] = 0 /\ offset'[c] \in Accounts
      /\ pc'[c] = "token" /\ attempt'[c] = 0 /\ AccountCount \in Nat \ {0}
      /\ \A a \in Accounts : tries'[c][a] = 0 /\ failedToken'[c][a] = 0
      /\ cached' = cached /\ issued' = issued
  BY <1>0, <1>01, <1>02 DEF Start, Goto, Untouched, TypeOK, managerVars, history
<1>2. PICK i \in Accounts : accountIndex(c)' = i
  BY <1>1, AtPosition DEF accountIndex
<1>3. \A a \in Accounts : /\ Position(startIndex'[c], a) \in Accounts
                          /\ cached[a] \in Nat /\ issued[a] \in Nat
  BY <1>1, PositionRange DEF IInv, TypeOK
<1>4. retryLimit(i) \in Nat /\ cached[i] \in Nat /\ retryLimit(i)' = retryLimit(i)
  BY <1>3, LimitRange, FailoverAssumption DEF retryLimit
<1>5. Sweep(c)'
  BY <1>1, <1>2, <1>3, <1>4 DEF Sweep, Untouched, Running, Accounts
<1>6. Tokens(c)'
  BY <1>1, <1>2, <1>3 DEF Tokens
<1> QED
  BY <1>5, <1>6

(* Where a call stands while it runs. *)
LEMMA Here ==
  ASSUME IInv, NEW c \in Calls, pc[c] \in Running
  PROVE  /\ accountIndex(c) \in Accounts /\ offset[c] \in Accounts
         /\ \A a \in Accounts : /\ Position(startIndex[c], a) \in Accounts
                               /\ (Position(startIndex[c], a) = offset[c] <=> a = accountIndex(c))
<1>1. startIndex[c] \in Accounts /\ offset[c] \in Accounts
  BY FailoverAssumption DEF IInv, Sweep, TypeOK, Accounts
<1> QED
  BY <1>1, AtPosition, PositionRange DEF accountIndex, Accounts

(* A step that stays at the current account disturbs only what the sweep   *)
(* says of that account.                                                   *)
LEMMA OwnSweep ==
  ASSUME IInv, NEW c \in Calls, pc[c] \in Running, NEW i \in Accounts, i = accountIndex(c),
         startIndex'[c] = startIndex[c], offset'[c] = offset[c], healthy' = healthy,
         \A a \in Accounts \ {i} : /\ tries'[c][a] = tries[c][a]
                                  /\ failedToken'[c][a] = failedToken[c][a],
         pc'[c] \in Running \union Returned,
         pc'[c] \in Running =>
           /\ attempt'[c] <= retryLimit(i)
           /\ tries'[c][i] = attempt'[c] + (IF pc'[c] = "token" THEN 0 ELSE 1),
         pc'[c] \in {"failed", "advance"} => i \notin healthy,
         pc'[c] = "advance" => attempt'[c] = retryLimit(i),
         pc'[c] = "exhausted" => /\ AccountCount = 1 /\ i \notin healthy
                                 /\ tries'[c][i] = 1 + retryLimit(i),
         pc'[c] \in {"ok", "stopped"} => tries'[c][i] <= 1 + retryLimit(i)
  PROVE  Sweep(c)'
<1>0. /\ accountIndex(c) \in Accounts /\ offset[c] \in Accounts
      /\ \A a \in Accounts : /\ Position(startIndex[c], a) \in Accounts
                            /\ (Position(startIndex[c], a) = offset[c] <=> a = accountIndex(c))
  BY Here, Zenon
<1>1. /\ accountIndex(c)' = i /\ \A a : retryLimit(a)' = retryLimit(a)
      /\ \A a : retryLimit(a) \in Nat
  BY LimitRange, FailoverAssumption DEF accountIndex, retryLimit
<1>2. \A a \in Accounts : a # i => /\ (Spent(c, a)' <=> Spent(c, a))
                                   /\ (Untouched(c, a)' <=> Untouched(c, a))
                                   /\ Spent(c, a) \/ Untouched(c, a)
                                   /\ tries[c][a] = tries'[c][a]
  <2>1. ASSUME NEW a \in Accounts, a # i
        PROVE  Spent(c, a) \/ Untouched(c, a)
    <3>1. Position(startIndex[c], a) \in Int /\ offset[c] \in Int
      <4>1. Position(startIndex[c], a) \in Accounts /\ offset[c] \in Accounts
        BY <1>0
      <4> QED
        BY <4>1, FailoverAssumption DEF Accounts
    <3>2. Position(startIndex[c], a) # offset[c]
      BY <2>1, <1>0
    <3>3. Position(startIndex[c], a) < offset[c] \/ Position(startIndex[c], a) > offset[c]
      BY <3>1, <3>2
    <3> QED
      BY <3>3 DEF IInv, Sweep
  <2> QED
    BY <1>1, <2>1 DEF Spent, Untouched
<1>3. \A a \in Accounts : a # i => tries'[c][a] <= 1 + retryLimit(a)
  BY <1>1, <1>2 DEF Spent, Untouched
<1>4. CASE pc'[c] \in Running
  <2>1. \A a \in Accounts : /\ Position(startIndex'[c], a) < offset'[c] => Spent(c, a)'
                            /\ Position(startIndex'[c], a) > offset'[c] => Untouched(c, a)'
    <3>1. \A a \in Accounts : Position(startIndex[c], a) \in Int /\ offset[c] \in Int
      BY <1>0, FailoverAssumption DEF Accounts
    <3>2. \A a \in Accounts : a = i => /\ ~(Position(startIndex[c], a) < offset[c])
                                       /\ ~(Position(startIndex[c], a) > offset[c])
      BY <1>0, <3>1
    <3> QED
      BY <1>2, <3>2 DEF IInv, Sweep
  <2>2. offset'[c] < AccountCount
    BY <1>0, FailoverAssumption DEF Accounts
  <2>3. /\ attempt'[c] <= retryLimit(accountIndex(c))'
        /\ tries'[c][accountIndex(c)'] = attempt'[c] + (IF pc'[c] = "token" THEN 0 ELSE 1)
        /\ pc'[c] \in {"failed", "advance"} => accountIndex(c)' \notin healthy'
        /\ pc'[c] = "advance" => attempt'[c] = retryLimit(accountIndex(c))'
    BY <1>1, <1>4
  <2>4. pc'[c] \notin {"start", "reset", "exhausted", "ok", "stopped"}
    BY <1>4 DEF Running
  <2> QED
    BY <1>4, <2>1, <2>2, <2>3, <2>4 DEF Sweep
<1>5. CASE pc'[c] = "exhausted"
  <2>1. \A a \in Accounts : a = i
    BY <1>5 DEF Accounts
  <2>2. Spent(c, i)'
    BY <1>1, <1>5 DEF Spent
  <2> QED
    BY <1>5, <2>1, <2>2 DEF Sweep, Running
<1>6. CASE pc'[c] \in {"ok", "stopped"}
  BY <1>1, <1>3, <1>6 DEF Sweep, Running
<1> QED
  BY <1>4, <1>5, <1>6 DEF Returned

(* The steps at one account: fetching its token, failing to, using it, and *)
(* dropping it (failover.go:57-98).                                        *)
LEMMA AccountSweep ==
  ASSUME IInv, TypeOK', NEW c \in Calls,
         GetToken(c) \/ GetTokenFails(c) \/ Operate(c) \/ Invalidate(c)
  PROVE  Sweep(c)'
<1> DEFINE i == accountIndex(c)
<1>1. pc[c] \in Running /\ i \in Accounts /\ TypeOK /\ Sweep(c)
  <2>1. pc[c] \in Running
    BY DEF GetToken, GetTokenFails, Operate, Invalidate, Running
  <2> QED
    BY <2>1, Here DEF IInv
<1>2. /\ tries[c][i] = attempt[c] + (IF pc[c] = "token" THEN 0 ELSE 1)
      /\ attempt[c] <= retryLimit(i) /\ attempt[c] \in Nat /\ retryLimit(i) \in Nat
      /\ tries[c][i] \in Nat
      /\ pc[c] = "failed" => i \notin healthy
  BY <1>1, LimitRange, FailoverAssumption DEF Sweep, TypeOK
<1>3. /\ startIndex'[c] = startIndex[c] /\ offset'[c] = offset[c] /\ healthy' = healthy
      /\ \A a \in Accounts \ {i} : /\ tries'[c][a] = tries[c][a]
                                  /\ failedToken'[c][a] = failedToken[c][a]
  BY <1>1 DEF GetToken, GetTokenFails, Operate, Invalidate, TypeOK, localVars, history
<1> HIDE DEF i
<1>4. CASE GetToken(c)
  <2>1. pc'[c] = "operation" /\ attempt'[c] = attempt[c] /\ tries'[c][i] = tries[c][i] + 1
        /\ pc[c] = "token"
    BY <1>1, <1>4 DEF GetToken, Goto, TypeOK, i
  <2> QED
    BY <1>1, <1>2, <1>3, <2>1, OwnSweep DEF i, Running, Returned
<1>5. CASE GetTokenFails(c)
  <2>1. /\ pc'[c] = "stopped" \/ (pc'[c] = "failed" /\ i \notin healthy)
        /\ attempt'[c] = attempt[c] /\ tries'[c][i] = tries[c][i] + 1 /\ pc[c] = "token"
    BY <1>1, <1>5 DEF GetTokenFails, Goto, TypeOK, i
  <2> QED
    BY <1>1, <1>2, <1>3, <2>1, OwnSweep DEF i, Running, Returned
<1>6. CASE Operate(c)
  <2>1. /\ pc'[c] \in {"ok", "stopped"} \/ (pc'[c] = "failed" /\ i \notin healthy)
        /\ attempt'[c] = attempt[c] /\ tries'[c][i] = tries[c][i] /\ pc[c] = "operation"
    BY <1>1, <1>6 DEF Operate, Goto, TypeOK, localVars, i
  <2> QED
    BY <1>1, <1>2, <1>3, <2>1, OwnSweep DEF i, Running, Returned
<1>7. CASE Invalidate(c)
  <2>1. /\ tries'[c][i] = tries[c][i] /\ pc[c] = "failed"
        /\ \/ pc'[c] = "token" /\ attempt'[c] = attempt[c] + 1 /\ attempt[c] < retryLimit(i)
           \/ /\ pc'[c] \in {"exhausted", "advance"} /\ attempt'[c] = attempt[c]
              /\ ~(attempt[c] < retryLimit(i))
              /\ (pc'[c] = "exhausted" => AccountCount = 1)
    BY <1>1, <1>7 DEF Invalidate, Goto, TypeOK, history, i
  <2>2. /\ tries[c][i] = attempt[c] + 1 /\ i \notin healthy
        /\ attempt[c] < retryLimit(i) => attempt[c] + 1 <= retryLimit(i)
        /\ ~(attempt[c] < retryLimit(i)) => attempt[c] = retryLimit(i)
    BY <1>2, <2>1
  <2> QED
    BY <1>1, <1>2, <1>3, <2>1, <2>2, OwnSweep DEF i, Running, Returned
<1> QED
  BY <1>4, <1>5, <1>6, <1>7

(* Going on to the next account, and after the last one to the report      *)
(* (failover.go:103-107).                                                  *)
LEMMA AdvanceSweep ==
  ASSUME IInv, TypeOK', NEW c \in Calls, Advance(c)
  PROVE  Sweep(c)' /\ Tokens(c)'
<1>1. /\ pc[c] = "advance" /\ pc[c] \in Running /\ TypeOK /\ Sweep(c)
      /\ AccountCount \in Nat \ {0}
  BY FailoverAssumption DEF Advance, Running, IInv
<1>2. /\ startIndex'[c] = startIndex[c] /\ healthy' = healthy
      /\ tries' = tries /\ failedToken' = failedToken /\ cached' = cached /\ issued' = issued
      /\ offset'[c] = offset[c] + 1 /\ attempt'[c] = 0
      /\ pc'[c] = IF offset[c] + 1 < AccountCount THEN "token" ELSE "reset"
  BY <1>1 DEF Advance, Goto, TypeOK, history
<1>3. /\ accountIndex(c) \in Accounts /\ offset[c] \in Accounts
      /\ \A a \in Accounts : /\ Position(startIndex[c], a) \in Accounts
                            /\ (Position(startIndex[c], a) = offset[c] <=> a = accountIndex(c))
  BY <1>1, Here, Zenon
<1>4. Spent(c, accountIndex(c))
  BY <1>1, <1>3, LimitRange, FailoverAssumption DEF Sweep, Spent, Running
<1>5. \A a \in Accounts : Position(startIndex'[c], a) < offset'[c] => Spent(c, a)'
  <2> SUFFICES ASSUME NEW a \in Accounts, Position(startIndex[c], a) < offset[c] + 1
               PROVE  Spent(c, a)
    BY <1>2 DEF Spent, retryLimit
  <2>1. Position(startIndex[c], a) \in Int /\ offset[c] \in Int
    BY <1>1, <1>3 DEF Accounts
  <2>2. Position(startIndex[c], a) < offset[c] \/ Position(startIndex[c], a) = offset[c]
    BY <2>1
  <2> QED
    BY <1>1, <1>3, <1>4, <2>2 DEF Sweep
<1>6. \A a \in Accounts : Position(startIndex[c], a) >= offset'[c] => Untouched(c, a)'
  <2> SUFFICES ASSUME NEW a \in Accounts, Position(startIndex[c], a) >= offset[c] + 1
               PROVE  Untouched(c, a)
    BY <1>2 DEF Untouched
  <2>1. Position(startIndex[c], a) \in Int /\ offset[c] \in Int
    BY <1>1, <1>3 DEF Accounts
  <2>2. Position(startIndex[c], a) > offset[c]
    BY <2>1
  <2> QED
    BY <1>1, <2>2 DEF Sweep
<1>7. CASE pc'[c] = "reset"
  <2>1. \A a \in Accounts : Position(startIndex[c], a) < offset'[c]
    BY <1>1, <1>2, <1>3, <1>7 DEF Accounts
  <2> QED
    BY <1>2, <1>5, <1>7, <2>1 DEF Sweep, Tokens, Running, IInv, TypeOK
<1>8. CASE pc'[c] = "token"
  <2>1. offset'[c] \in Accounts /\ startIndex'[c] \in Accounts /\ offset'[c] < AccountCount
    BY <1>1, <1>2, <1>3, <1>8 DEF Accounts, TypeOK
  <2>2. PICK i \in Accounts : /\ accountIndex(c)' = i
                             /\ Position(startIndex'[c], i) = offset'[c]
    BY <2>1, AtPosition DEF accountIndex
  <2>3. offset'[c] \in Int /\ cached[i] \in Nat
    <3>1. cached[i] \in Nat
      BY <1>1 DEF TypeOK
    <3> QED
      BY <1>1, <2>1, <3>1 DEF Accounts
  <2>4. Untouched(c, i)'
    BY <1>2, <1>6, <2>2, <2>3
  <2>5. \A a \in Accounts : Position(startIndex'[c], a) > offset'[c] => Untouched(c, a)'
    <3> SUFFICES ASSUME NEW a \in Accounts, Position(startIndex'[c], a) > offset'[c]
                 PROVE  Untouched(c, a)'
      OBVIOUS
    <3>1. Position(startIndex'[c], a) \in Int
      BY <1>1, <1>2, <1>3 DEF Accounts
    <3> QED
      BY <1>2, <1>6, <2>3, <3>1
  <2>6. /\ attempt'[c] <= retryLimit(accountIndex(c))'
        /\ tries'[c][accountIndex(c)'] = attempt'[c] + 0
        /\ failedToken'[c][accountIndex(c)'] = 0
    BY <1>2, <2>2, <2>4, LimitRange, FailoverAssumption DEF Untouched
  <2>7. Sweep(c)'
    BY <1>5, <1>8, <2>1, <2>5, <2>6 DEF Sweep
  <2>8. Tokens(c)'
    <3>1. \A a \in Accounts : failedToken[c][a] <= issued[a]
      BY DEF IInv, Tokens
    <3>2. cached'[i] = 0 \/ cached'[i] > failedToken'[c][i]
      BY <1>2, <2>2, <2>3, <2>6
    <3> QED
      BY <1>2, <1>8, <2>2, <3>1, <3>2 DEF Tokens
  <2> QED
    BY <2>7, <2>8
<1> QED
  BY <1>2, <1>7, <1>8

(* After the reset every account is still known to have failed. *)
LEMMA ResetSweep ==
  ASSUME IInv, NEW c \in Calls, Reset(c)
  PROVE  Sweep(c)' /\ Tokens(c)'
<1>1. /\ pc[c] = "reset" /\ pc'[c] = "exhausted" /\ Sweep(c) /\ Tokens(c)
      /\ tries' = tries /\ failedToken' = failedToken /\ healthy' = healthy
      /\ issued' = issued
  BY DEF Reset, Goto, IInv, TypeOK, history
<1>2. \A a \in Accounts : Spent(c, a)'
  BY <1>1 DEF Sweep, Spent, retryLimit
<1> QED
  BY <1>1, <1>2 DEF Sweep, Tokens, Running

(* What a step of one call does to the tokens of all.  Those it fetches    *)
(* are newer than any that ever failed.                                    *)
LEMMA TokensStep ==
  ASSUME IInv, TypeOK', NEW c \in Calls,
         GetToken(c) \/ GetTokenFails(c) \/ Operate(c) \/ Invalidate(c)
  PROVE  Tokens(c)'
<1> DEFINE i == accountIndex(c)
<1>1. pc[c] \in Running /\ i \in Accounts /\ TypeOK /\ Tokens(c)
  <2>1. pc[c] \in Running
    BY DEF GetToken, GetTokenFails, Operate, Invalidate, Running
  <2> QED
    BY <2>1, Here DEF IInv
<1>2. accountIndex(c)' = i
  BY DEF GetToken, GetTokenFails, Operate, Invalidate, localVars, accountIndex
<1>3. \A a \in Accounts : /\ failedToken[c][a] <= issued[a] /\ cached[a] <= issued[a]
                          /\ failedToken[c][a] \in Nat /\ issued[a] \in Nat
                          /\ cached[a] \in Nat /\ token[c] \in Nat
  BY <1>1 DEF IInv, Tokens, TypeOK
<1> HIDE DEF i
<1>4. CASE GetToken(c)
  <2>1. /\ pc[c] = "token" /\ pc'[c] = "operation" /\ failedToken' = failedToken
        /\ \/ cached[i] # 0 /\ token'[c] = cached[i] /\ issued' = issued
           \/ /\ token'[c] = issued[i] + 1
              /\ \A a \in Accounts : issued'[a] = IF a = i THEN issued[a] + 1 ELSE issued[a]
    BY <1>1, <1>4 DEF GetToken, Goto, TypeOK, i
  <2>2. \A a \in Accounts : failedToken'[c][a] <= issued'[a]
    BY <1>3, <2>1
  <2>3. token'[c] > failedToken'[c][i] /\ token'[c] <= issued'[i]
    BY <1>1, <1>3, <2>1 DEF Tokens, i
  <2> QED
    BY <1>2, <2>1, <2>2, <2>3 DEF Tokens
<1>5. CASE GetTokenFails(c)
  <2>1. pc'[c] \in {"failed", "stopped"} /\ failedToken' = failedToken /\ issued' = issued
    BY <1>1, <1>5 DEF GetTokenFails, Goto, TypeOK, managerVars
  <2> QED
    BY <1>3, <2>1 DEF Tokens
<1>6. CASE Operate(c)
  <2>1. /\ pc'[c] \in {"ok", "stopped", "failed"} /\ issued' = issued /\ token[c] <= issued[i]
        /\ \A a \in Accounts : failedToken'[c][a] \in {failedToken[c][a], token[c]}
        /\ \A a \in Accounts : a # i => failedToken'[c][a] = failedToken[c][a]
    BY <1>1, <1>6 DEF Operate, Goto, TypeOK, managerVars, i, Tokens
  <2>2. \A a \in Accounts : failedToken'[c][a] <= issued'[a]
    BY <1>3, <2>1
  <2> QED
    BY <2>1, <2>2 DEF Tokens
<1>7. CASE Invalidate(c)
  <2>1. /\ pc'[c] \in {"token", "exhausted", "advance"} /\ failedToken' = failedToken
        /\ issued' = issued /\ cached'[i] = 0
    BY <1>1, <1>7 DEF Invalidate, Goto, TypeOK, history, i
  <2> QED
    BY <1>2, <1>3, <2>1 DEF Tokens
<1> QED
  BY <1>4, <1>5, <1>6, <1>7

(* What a step does to the manager's tokens: it issues a newer one, drops  *)
(* the cached one, or leaves them.                                         *)
LEMMA CacheStep ==
  ASSUME IInv, NEW c \in Calls, Step(c), NEW a \in Accounts
  PROVE  /\ issued[a] \in Nat /\ issued'[a] \in Nat /\ issued'[a] >= issued[a]
         /\ cached'[a] <= issued'[a]
         /\ cached'[a] \in {cached[a], 0, issued[a] + 1}
<1>1. TypeOK /\ cached[a] <= issued[a] /\ cached[a] \in Nat /\ issued[a] \in Nat
  BY DEF IInv, TypeOK
<1>2. \/ cached'[a] = cached[a] /\ issued'[a] = issued[a]
      \/ cached'[a] = 0 /\ issued'[a] = issued[a]
      \/ cached'[a] = issued[a] + 1 /\ issued'[a] = issued[a] + 1
  <2>1. CASE GetToken(c)
    BY <1>1, <2>1 DEF GetToken, TypeOK
  <2>2. CASE Invalidate(c)
    BY <1>1, <2>2 DEF Invalidate, TypeOK
  <2>3. CASE Start(c) \/ GetTokenFails(c) \/ Operate(c) \/ Advance(c) \/ Reset(c)
    BY <2>3 DEF Start, GetTokenFails, Operate, Advance, Reset, managerVars
  <2> QED
    BY <2>1, <2>2, <2>3 DEF Step
<1> QED
  BY <1>1, <1>2

LEMMA OthersTokens ==
  ASSUME IInv, NEW c \in Calls, Step(c), NEW d \in Calls, d # c
  PROVE  Tokens(d)'
<1>1. /\ pc'[d] = pc[d] /\ accountIndex(d)' = accountIndex(d)
      /\ failedToken'[d] = failedToken[d] /\ token'[d] = token[d]
  BY OthersSweep
<1>2. \A a \in Accounts : /\ failedToken[d][a] <= issued[a] /\ failedToken[d][a] \in Nat
                          /\ issued[a] \in Nat /\ issued'[a] \in Nat
                          /\ issued'[a] >= issued[a] /\ cached[a] \in Nat
                          /\ cached'[a] \in {cached[a], 0, issued[a] + 1}
                          /\ token[d] \in Nat
  BY CacheStep DEF IInv, Tokens, TypeOK
<1>3. \A a \in Accounts : failedToken'[d][a] <= issued'[a]
  BY <1>1, <1>2
<1>4. ASSUME pc[d] \in Running
      PROVE  accountIndex(d) \in Accounts
  BY <1>4, Here
<1>5. PICK j : j = accountIndex(d)
  OBVIOUS
<1>6. ASSUME pc[d] = "token"
      PROVE  cached'[j] = 0 \/ cached'[j] > failedToken[d][j]
  <2>1. j \in Accounts /\ (cached[j] = 0 \/ cached[j] > failedToken[d][j])
    BY <1>4, <1>5, <1>6 DEF IInv, Tokens, Running
  <2> QED
    BY <1>2, <2>1
<1>7. ASSUME pc[d] = "operation"
      PROVE  token[d] > failedToken[d][j] /\ token[d] <= issued'[j]
  <2>1. j \in Accounts /\ token[d] > failedToken[d][j] /\ token[d] <= issued[j]
    BY <1>4, <1>5, <1>7 DEF IInv, Tokens, Running
  <2> QED
    BY <1>2, <2>1
<1> QED
  BY <1>1, <1>3, <1>5, <1>6, <1>7 DEF Tokens

(* A token expires: the sweeps do not see it. *)
LEMMA ExpireInv ==
  ASSUME IInv, NEW b \in Accounts, Expire(b), TypeOK'
  PROVE  IInv'
<1>1. /\ UNCHANGED <<healthy, issued, pc, startIndex, offset, attempt, token, failedToken, tries>>
      /\ \A a \in Accounts : cached'[a] \in {cached[a], 0} /\ issued[a] \in Nat
  BY DEF Expire, IInv, TypeOK, localVars, history
<1>2. ASSUME NEW c \in Calls PROVE Sweep(c)'
  BY <1>1 DEF IInv, Sweep, Spent, Untouched, accountIndex, retryLimit
<1>3. ASSUME NEW c \in Calls PROVE Tokens(c)'
  <2>1. pc[c] \in Running => accountIndex(c) \in Accounts
    BY Here
  <2> QED
    BY <1>1, <2>1 DEF IInv, Tokens, accountIndex, Running
<1> QED
  BY <1>1, <1>2, <1>3 DEF IInv

(* IInv is inductive. *)
LEMMA StepInv == IInv /\ [Next]_vars => IInv'
<1> SUFFICES ASSUME IInv, [Next]_vars PROVE IInv'
  OBVIOUS
<1>1. TypeOK'
  BY TypeStep
<1>2. ASSUME NEW c \in Calls, Step(c) PROVE IInv'
  <2>1. Sweep(c)' /\ Tokens(c)'
    BY <1>1, <1>2, StartSweep, AccountSweep, TokensStep, AdvanceSweep, ResetSweep DEF Step
  <2>2. \A d \in Calls : Sweep(d)' /\ Tokens(d)'
    BY <1>2, <2>1, OthersSweep, OthersTokens
  <2>3. \A a \in Accounts : cached'[a] <= issued'[a]
    BY <1>2, CacheStep
  <2> QED
    BY <1>1, <2>2, <2>3 DEF IInv
<1>3. CASE UNCHANGED vars
  BY <1>1, <1>3 DEF vars, managerVars, localVars, history, IInv, Sweep, Tokens, Spent, Untouched,
                    accountIndex, retryLimit
<1> QED
  BY <1>1, <1>2, <1>3, ExpireInv DEF Next

-----------------------------------------------------------------------------
THEOREM Invariance == Spec => []IInv
  BY InitInv, StepInv, PTL DEF Spec

(* The variables of the manager and of the calls keep their types: in      *)
(* particular the shared index never leaves the accounts (auth.go:228-248).*)
THEOREM TypeCorrect == Spec => []TypeOK
<1>1. IInv => TypeOK
  BY DEF IInv
<1> QED
  BY <1>1, Invariance, PTL

(* Of any number of calls, each that reports that the accounts failed has  *)
(* tried every account, each as often as its kind allows                   *)
(* (failover.go:50-107).                                                   *)
THEOREM ExhaustedCorrect == Spec => []ExhaustedAfterAll
<1>1. IInv => ExhaustedAfterAll
  BY DEF IInv, Sweep, Spent, ExhaustedAfterAll
<1> QED
  BY <1>1, Invariance, PTL

(* No interleaving makes a call try an account more often than that.       *)
THEOREM TriesCorrect == Spec => []TriesBounded
<1>1. ASSUME IInv, NEW c \in Calls, NEW a \in Accounts
      PROVE  tries[c][a] <= 1 + retryLimit(a)
  <2>1. retryLimit(a) \in Nat /\ TypeOK /\ Sweep(c) /\ tries[c][a] \in Nat
    BY <1>1, LimitRange, FailoverAssumption DEF IInv, TypeOK
  <2>2. CASE pc[c] \in Running
    <3>1. attempt[c] \in Nat /\ attempt[c] <= retryLimit(accountIndex(c))
          /\ tries[c][accountIndex(c)] <= attempt[c] + 1
      BY <2>1, <2>2, FailoverAssumption DEF Sweep, TypeOK
    <3>2. offset[c] \in Int /\ \A b \in Accounts : Position(startIndex[c], b) \in Int
      BY <1>1, <2>2, Here, FailoverAssumption DEF Accounts
    <3>3. CASE a = accountIndex(c)
      BY <2>1, <3>1, <3>3
    <3>4. CASE a # accountIndex(c)
      <4>1. Position(startIndex[c], a) # offset[c]
        BY <1>1, <2>2, <3>4, Here
      <4>2. Position(startIndex[c], a) < offset[c] \/ Position(startIndex[c], a) > offset[c]
        BY <3>2, <4>1
      <4> QED
        BY <2>1, <2>2, <4>2 DEF Sweep, Spent, Untouched
    <3> QED
      BY <3>3, <3>4
  <2> QED
    BY <2>1, <2>2 DEF Sweep, Spent, Untouched, TypeOK, Running, Returned
<1>2. IInv => TriesBounded
  BY <1>1 DEF TriesBounded
<1> QED
  BY <1>2, Invariance, PTL

(* While one account is healthy, no call reports that the accounts failed, *)
(* wherever it starts and whatever the others do (failover.go:30-37).      *)
THEOREM HealthyFound == Spec => []HealthyAccountFound
<1>1. IInv => HealthyAccountFound
  BY DEF IInv, TypeOK, Sweep, Spent, HealthyAccountFound
<1> QED
  BY <1>1, Invariance, PTL

(* No call uses a token of an account again after it failed with it, even  *)
(* if others fetch and drop tokens of the account meanwhile                *)
(* (failover.go:63, 84; auth.go:251-282).                                  *)
THEOREM NewTokenCorrect == Spec => []RetriesWithNewToken
<1>1. IInv => RetriesWithNewToken
  BY DEF IInv, Tokens, RetriesWithNewToken
<1> QED
  BY <1>1, Invariance, PTL

(* The shared index does not leave a healthy account (auth.go:228-248).    *)
THEOREM HealthyIndexCorrect == Spec => HealthyIndexStays
<1>1. ASSUME IInv, currentIndex \in healthy, [Next]_vars
      PROVE  currentIndex' = currentIndex
  <2>1. ASSUME NEW c \in Calls, Advance(c) PROVE currentIndex' = currentIndex
    BY <1>1, <2>1 DEF Advance, IInv, Sweep
  <2>2. ASSUME NEW c \in Calls, Reset(c) PROVE FALSE
    BY <1>1, <2>2 DEF Reset, IInv, Sweep, Spent, TypeOK
  <2>3. ASSUME NEW c \in Calls, \/ Start(c) \/ GetToken(c) \/ GetTokenFails(c) \/ Operate(c)
                                \/ Invalidate(c)
        PROVE  currentIndex' = currentIndex
    BY <2>3 DEF Start, GetToken, GetTokenFails, Operate, Invalidate, managerVars
  <2> QED
    BY <1>1, <2>1, <2>2, <2>3 DEF Next, Step, Expire, vars, managerVars
<1>2. IInv /\ [Next]_vars => [(currentIndex \in healthy) => currentIndex' = currentIndex]_vars
  BY <1>1
<1>3. Spec => [][(currentIndex \in healthy) => currentIndex' = currentIndex]_vars
  BY <1>2, Invariance, PTL DEF Spec
<1> QED
  BY <1>3 DEF HealthyIndexStays
=============================================================================
