-------------------------- MODULE TokenStore_proofs -------------------------
(***************************************************************************)
(* Proofs about the token store, for every number of callers, accounts,    *)
(* rotations, kills and failed writes.                                     *)
(***************************************************************************)
EXTENDS TokenStore, TLAPS

(* A list of tokens names each account once. *)
Distinct(tokens) ==
    \A i, j \in DOMAIN tokens : tokens[i][1] = tokens[j][1] => i = j

(* The caller that has the mutex and a rotated token in hand. *)
Carries(c) == mutex = c /\ pc[c] \in {"answered", "truncated", "saved"}

(* The mutex belongs to the caller that is refreshing; a dead process has  *)
(* no callers.                                                             *)
MutexHeld == \A c \in Callers : pc[c] \in Refreshing <=> mutex = c
DeadIsQuiet == ~up => \A c \in Callers : pc[c] = "out"

(* Every place that holds tokens holds one of each account, and none is    *)
(* read from or written to a file that does not exist.                     *)
OnePerAccount == /\ Distinct(tokenFile) /\ Distinct(dotenv) /\ Distinct(environ)
                 /\ Distinct(configured) /\ Distinct(memory)
FilesExist == /\ (tokenFile # <<>> => hasTokenFile) /\ (dotenv # <<>> => hasDotenv)
              /\ (environ # <<>> => inEnviron)
              /\ \A c \in Callers : pc[c] = "truncated" => hasTokenFile \/ hasDotenv
              /\ (up /\ Len(memory) > 1 => hasTokenFile)

(* The configuration is what the manager uses, but for the token that is   *)
(* being saved.                                                            *)
SameAccounts == \A i \in DOMAIN memory : configured[i][1] = memory[i][1]
ConfiguredIsMemory ==
    up => \A i \in DOMAIN memory :
            \/ configured[i] = memory[i]
            \/ \E c \in Callers : Carries(c) /\ index[c] = i /\ configured[i] = fresh[c]

(* The token carried is the newest of its account; of the other accounts   *)
(* the newest is in memory; GLM has handed out no more than its rotations.  *)
CarriedIsNewest ==
    \A c \in Callers : Carries(c) => fresh[c] = <<account(c), received[account(c)]>>
MemoryIsNewest ==
    up => \A i \in DOMAIN memory :
            \/ memory[i][2] = received[memory[i][1]]
            \/ \E c \in Callers : Carries(c) /\ index[c] = i
HandedOut == \A a \in Accounts : newest[a] <= rotations

(* Between two writes the stores hold what the process uses, the token     *)
(* that was just saved instead of the one it replaces.                     *)
Stored ==
    (up /\ ~unsaved /\ ~Shadowed /\ \A c \in Callers : pc[c] # "truncated") =>
        /\ Len(Restored) = Len(memory)
        /\ \A i \in DOMAIN memory :
              IF \E c \in Callers : mutex = c /\ index[c] = i /\ pc[c] = "saved"
                THEN \A c \in Callers : mutex = c => Restored[i] = fresh[c]
                ELSE Restored[i] = memory[i]

IInv == /\ TypeOK /\ MutexHeld /\ DeadIsQuiet
        /\ OnePerAccount /\ FilesExist /\ SameAccounts /\ ConfiguredIsMemory
        /\ CarriedIsNewest /\ MemoryIsNewest /\ HandedOut /\ Stored

(* A token of a list may be replaced by another one of its account. *)
LEMMA Replaced ==
  ASSUME NEW s \in Seq(Tokens), NEW i \in DOMAIN s, NEW t \in Tokens
  PROVE  LET new == [s EXCEPT ![i] = t]
         IN  /\ new \in Seq(Tokens) /\ Len(new) = Len(s) /\ DOMAIN new = DOMAIN s
             /\ new[i] = t /\ \A j \in DOMAIN s \ {i} : new[j] = s[j]
             /\ Distinct(s) /\ t[1] = s[i][1] => Distinct(new)
  BY DEF Distinct

(* A list of one token names one account. *)
LEMMA OneToken ==
  ASSUME NEW t \in Tokens
  PROVE  <<t>> \in Seq(Tokens) /\ Len(<<t>>) = 1 /\ Distinct(<<t>>)
<1>1. <<t>> \in Seq(Tokens) /\ Len(<<t>>) = 1 /\ DOMAIN <<t>> = {1}
  OBVIOUS
<1> QED
  BY <1>1 DEF Distinct

(* In a list of one token of each account, Known finds each one's number. *)
LEMMA KnownCorrect ==
  ASSUME NEW tokens \in Seq(Tokens), Distinct(tokens)
  PROVE  /\ Known(tokens) \in [Accounts -> 0 .. MaxRotations]
         /\ \A i \in DOMAIN tokens : Known(tokens)[tokens[i][1]] = tokens[i][2]
<1> USE TokenStoreAssumption DEF Tokens, Accounts, Known, Distinct
<1>1. ASSUME NEW a \in Accounts, \E i \in DOMAIN tokens : tokens[i][1] = a
      PROVE  LET k == CHOOSE i \in DOMAIN tokens : tokens[i][1] = a
             IN  k \in DOMAIN tokens /\ tokens[k][1] = a /\ tokens[k][2] \in 0 .. MaxRotations
  BY <1>1
<1>2. Known(tokens) \in [Accounts -> 0 .. MaxRotations]
  BY <1>1
<1>3. ASSUME NEW i \in DOMAIN tokens
      PROVE  Known(tokens)[tokens[i][1]] = tokens[i][2]
  <2> DEFINE a == tokens[i][1]
             k == CHOOSE j \in DOMAIN tokens : tokens[j][1] = a
  <2>1. a \in Accounts
    OBVIOUS
  <2>2. k \in DOMAIN tokens /\ tokens[k][1] = a
    BY <1>1, <2>1
  <2>3. k = i
    BY <2>2
  <2>4. Known(tokens)[a] = tokens[k][2]
    BY <2>1
  <2> QED
    BY <2>3, <2>4
<1> QED
  BY <1>2, <1>3

(* What a restart reads is a list of one token of each account. *)
LEMMA RestoredTokens ==
  ASSUME TypeOK, OnePerAccount
  PROVE  Restored \in Seq(Tokens) /\ Distinct(Restored)
  BY DEF TypeOK, OnePerAccount, Restored

(* Every place starts with tokens number 0, the memory with those restored. *)
LEMMA InitInv == Init => IInv
<1> SUFFICES ASSUME Init PROVE IInv
  OBVIOUS
<1> USE TokenStoreAssumption
<1>1. \A a \in Accounts : FirstToken(a) \in Tokens
  BY DEF FirstToken, Tokens, Accounts
<1>2. tokenFile \in Seq(Tokens) /\ Distinct(tokenFile)
  BY <1>1 DEF Init, Distinct, FirstToken, Accounts
<1>3. /\ dotenv \in Seq(Tokens) /\ Len(dotenv) <= 1 /\ Distinct(dotenv)
      /\ environ \in Seq(Tokens) /\ Len(environ) <= 1 /\ Distinct(environ)
  <2>1. <<>> \in Seq(Tokens) /\ Len(<<>>) = 0 /\ Distinct(<<>>)
    BY DEF Distinct
  <2>2. PICK t \in Tokens : t = FirstToken(EnvAccount)
    BY <1>1 DEF Accounts, EnvAccount
  <2>3. <<t>> \in Seq(Tokens) /\ Len(<<t>>) = 1 /\ Distinct(<<t>>)
    BY OneToken
  <2>4. dotenv \in {<<>>, <<t>>} /\ environ \in {<<>>, <<t>>}
    BY <2>2 DEF Init
  <2>5. ASSUME NEW l, l = <<>> \/ l = <<t>>
        PROVE  l \in Seq(Tokens) /\ Len(l) <= 1 /\ Distinct(l)
    <3>1. CASE l = <<>>
      BY <2>1, <3>1
    <3>2. CASE l = <<t>>
      BY <2>3, <3>2
    <3> QED
      BY <2>5, <3>1, <3>2
  <2> QED
    BY <2>4, <2>5
<1>4. Restored \in Seq(Tokens) /\ Distinct(Restored)
  BY <1>2, <1>3 DEF Restored
<1>5. /\ received \in [Accounts -> 0 .. MaxRotations]
      /\ \A i \in DOMAIN Restored : received[Restored[i][1]] = Restored[i][2]
  BY <1>4, KnownCorrect DEF Init
<1>6. TypeOK
  <2>1. {tokenFile, configured, memory} \subseteq Seq(Tokens) /\ Len(configured) = Len(memory)
    BY <1>2, <1>4 DEF Init
  <2>2. \A l \in {dotenv, environ} : l \in Seq(Tokens) /\ Len(l) <= 1
    BY <1>3
  <2>3. fresh \in [Callers -> Tokens]
    BY <1>1 DEF Init, Accounts, EnvAccount
  <2>4. {hasTokenFile, hasDotenv, inEnviron, up, unsaved} \subseteq BOOLEAN
    BY DEF Init
  <2>5. /\ cached \subseteq DOMAIN memory /\ mutex \in {Free}
        /\ pc \in [Callers -> {"out", "waiting"} \union Refreshing]
        /\ \A c \in Callers : pc[c] = "out"
    BY DEF Init
  <2>6. /\ newest \in [Accounts -> 0 .. MaxRotations]
        /\ rotations \in 0 .. MaxRotations /\ restarts \in 0 .. MaxRestarts
        /\ failures \in 0 .. MaxFailures
    BY DEF Init
  <2>7. index \in [Callers -> Nat \ {0}]
    BY DEF Init
  <2> QED
    BY <1>5, <2>1, <2>2, <2>3, <2>4, <2>5, <2>6, <2>7 DEF TypeOK
<1>7. MutexHeld /\ DeadIsQuiet
  BY DEF Init, MutexHeld, DeadIsQuiet, Refreshing, Free
<1>8. OnePerAccount /\ FilesExist
  <2>1. OnePerAccount
    BY <1>2, <1>3, <1>4 DEF Init, OnePerAccount
  <2>2. FilesExist
    <3>1. Len(Restored) > 1 => tokenFile # <<>>
      BY <1>3 DEF Restored
    <3> QED
      BY <3>1 DEF Init, FilesExist
  <2> QED
    BY <2>1, <2>2
<1>9. SameAccounts /\ ConfiguredIsMemory /\ Stored
  BY DEF Init, SameAccounts, ConfiguredIsMemory, Stored, Free
<1>10. CarriedIsNewest /\ MemoryIsNewest /\ HandedOut
  BY <1>5 DEF Init, CarriedIsNewest, MemoryIsNewest, HandedOut, Carries, Free
<1> QED
  BY <1>6, <1>7, <1>8, <1>9, <1>10 DEF IInv

-----------------------------------------------------------------------------
(* The types, a group of variables at a time.                              *)
StoresTyped ==
    /\ hasTokenFile \in BOOLEAN /\ hasDotenv \in BOOLEAN /\ inEnviron \in BOOLEAN
    /\ tokenFile \in Seq(Tokens)
    /\ dotenv \in Seq(Tokens) /\ Len(dotenv) <= 1 /\ environ \in Seq(Tokens) /\ Len(environ) <= 1
ManagerTyped ==
    /\ configured \in Seq(Tokens) /\ memory \in Seq(Tokens) /\ Len(configured) = Len(memory)
    /\ cached \subseteq DOMAIN memory
CallersTyped ==
    /\ index \in [Callers -> Nat \ {0}] /\ fresh \in [Callers -> Tokens]
    /\ pc \in [Callers -> {"out", "waiting"} \union Refreshing]
    /\ mutex \in {c \in Callers : pc[c] \in Refreshing} \union {Free}
    /\ \A c \in Callers : pc[c] # "out" => index[c] \in DOMAIN memory
CountersTyped ==
    /\ newest \in [Accounts -> 0 .. MaxRotations] /\ received \in [Accounts -> 0 .. MaxRotations]
    /\ up \in BOOLEAN /\ unsaved \in BOOLEAN
    /\ rotations \in 0 .. MaxRotations /\ restarts \in 0 .. MaxRestarts
    /\ failures \in 0 .. MaxFailures

Typed == StoresTyped /\ ManagerTyped /\ CallersTyped /\ CountersTyped
Locked == MutexHeld /\ DeadIsQuiet
Listed == OnePerAccount /\ FilesExist /\ SameAccounts
Newest == CarriedIsNewest /\ MemoryIsNewest /\ HandedOut
Kept == ConfiguredIsMemory /\ Stored

(* The invariant in these groups, before a step and after it. *)
LEMMA Groups == /\ IInv => Typed /\ Locked /\ Listed /\ Newest /\ Kept
                /\ Typed' /\ Locked' /\ Listed' /\ Newest' /\ Kept' => IInv'
  BY DEF IInv, TypeOK, Typed, StoresTyped, ManagerTyped, CallersTyped, CountersTyped,
         Locked, Listed, Newest, Kept

(* The list with the token that a caller carries in its place. *)
Swapped(tokens, c) == [tokens EXCEPT ![index[c]] = fresh[c]]

(* GLM numbers its tokens within the rotations so far. *)
LEMMA HandOutTyped ==
  ASSUME CountersTyped, HandedOut, NEW a \in Accounts, HandOut(a)
  PROVE  /\ newest' \in [Accounts -> 0 .. MaxRotations] /\ rotations' \in 0 .. MaxRotations
         /\ newest[a] + 1 \in 0 .. MaxRotations
         /\ HandedOut'
  BY TokenStoreAssumption DEF CountersTyped, HandedOut, HandOut

(* A caller that refreshes has the mutex to itself, for an account of the  *)
(* process, which is alive.                                                *)
LEMMA Refresher ==
  ASSUME IInv, NEW c \in Callers, pc[c] \in Refreshing
  PROVE  /\ mutex = c /\ up /\ \A d \in Callers \ {c} : pc[d] \notin Refreshing
         /\ index[c] \in DOMAIN memory /\ index[c] \in DOMAIN configured
         /\ account(c) \in Accounts /\ fresh[c] \in Tokens
<1>1. mutex = c /\ \A d \in Callers \ {c} : pc[d] \notin Refreshing
  BY DEF IInv, MutexHeld
<1>2. up
  BY DEF IInv, DeadIsQuiet, Refreshing
<1>3. index[c] \in DOMAIN memory /\ index[c] \in DOMAIN configured /\ fresh[c] \in Tokens
  BY Groups DEF Typed, ManagerTyped, CallersTyped, Refreshing
<1>4. account(c) \in Accounts
  BY <1>3, Groups DEF Typed, ManagerTyped, account, Tokens
<1> QED
  BY <1>1, <1>2, <1>3, <1>4

(* What it carries belongs into the configuration and into the memory.     *)
LEMMA SwapLists ==
  ASSUME IInv, NEW c \in Callers, Carries(c),
         NEW tokens, tokens = configured \/ tokens = memory
  PROVE  LET new == Swapped(tokens, c)
         IN  /\ new \in Seq(Tokens) /\ Len(new) = Len(tokens) /\ DOMAIN new = DOMAIN tokens
             /\ new[index[c]] = fresh[c]
             /\ \A j \in DOMAIN tokens \ {index[c]} : new[j] = tokens[j]
             /\ \A j \in DOMAIN tokens : new[j][1] = tokens[j][1]
             /\ Distinct(new)
<1>1. tokens \in Seq(Tokens) /\ Distinct(tokens)
  BY Groups DEF Typed, ManagerTyped, Listed, OnePerAccount
<1>2. index[c] \in DOMAIN tokens /\ fresh[c] \in Tokens
  BY Refresher DEF Carries, Refreshing
<1>3. fresh[c][1] = tokens[index[c]][1]
  BY <1>2, Refresher DEF Carries, Refreshing, IInv, CarriedIsNewest, SameAccounts, account
<1> QED
  BY <1>1, <1>2, <1>3, Replaced DEF Swapped

-----------------------------------------------------------------------------
(* GLM rotates the token: nothing is stored yet, and the caller carries    *)
(* the newest token of its account.                                        *)
LEMMA RotateInv ==
  ASSUME IInv, NEW c \in Callers, RefreshRotates(c)
  PROVE  IInv'
<1> DEFINE a == account(c)
           n == newest[a] + 1
<1>1. /\ pc[c] = "asked" /\ mutex = c /\ a \in Accounts
      /\ index[c] \in DOMAIN memory
      /\ \A d \in Callers \ {c} : pc[d] \notin Refreshing
  BY Refresher DEF RefreshRotates, Refreshing
<1>2. /\ pc' = [pc EXCEPT ![c] = "answered"]
      /\ fresh' = [fresh EXCEPT ![c] = <<a, n>>]
      /\ received' = [received EXCEPT ![a] = n]
      /\ UNCHANGED <<stores, environment, up, manager, mutex, index, unsaved, restarts, failures>>
  BY DEF RefreshRotates, Goto
<1>3. /\ newest' \in [Accounts -> 0 .. MaxRotations] /\ rotations' \in 0 .. MaxRotations
      /\ n \in 0 .. MaxRotations /\ HandedOut'
  BY <1>1, HandOutTyped, Groups DEF RefreshRotates, Typed, Newest
<1>4. Typed'
  <2>1. StoresTyped' /\ ManagerTyped'
    BY <1>2, Groups
    DEF Typed, StoresTyped, ManagerTyped, stores, environment, manager
  <2>2. CallersTyped'
    <3>1. <<a, n>> \in Tokens
      BY <1>1, <1>3 DEF Tokens
    <3>2. fresh' \in [Callers -> Tokens]
      BY <1>2, <3>1, Groups DEF Typed, CallersTyped
    <3> QED
      BY <1>1, <1>2, <3>2, Groups DEF Typed, CallersTyped, manager, Refreshing
  <2>3. CountersTyped'
    BY <1>1, <1>2, <1>3, Groups DEF Typed, CountersTyped
  <2> QED
    BY <2>1, <2>2, <2>3 DEF Typed
<1>5. Locked'
  BY <1>1, <1>2, Groups
  DEF Typed, CallersTyped, Locked, MutexHeld, DeadIsQuiet, Refreshing
<1>6. Listed'
  BY <1>2, Groups
  DEF Typed, CallersTyped, Listed, OnePerAccount, FilesExist, SameAccounts, Distinct, stores,
      environment, manager
<1>7. Newest'
  <2>1. \A d \in Callers : Carries(d)' <=> d = c
    BY <1>1, <1>2, Groups DEF Carries, Typed, CallersTyped, Locked, MutexHeld
  <2>2. \A d \in Callers : ~Carries(d)
    BY <1>1 DEF Carries, Refreshing
  <2>3. CarriedIsNewest'
    <3>1. account(c)' = a
      BY <1>2 DEF account, manager
    <3>2. fresh'[c] = <<a, n>> /\ received'[a] = n
      BY <1>1, <1>2, Groups DEF Typed, CallersTyped, CountersTyped
    <3> QED
      BY <2>1, <3>1, <3>2 DEF CarriedIsNewest
  <2>4. MemoryIsNewest'
    <3> SUFFICES ASSUME up', NEW i \in DOMAIN memory, i # index[c]
                 PROVE  memory[i][2] = received'[memory[i][1]]
      BY <1>2, <2>1 DEF MemoryIsNewest, manager
    <3>1. memory[i][2] = received[memory[i][1]]
      BY <1>2, <2>2, Groups DEF Newest, MemoryIsNewest
    <3>2. memory[i][1] # a /\ memory[i][1] \in Accounts
      BY <1>1, Groups DEF Listed, OnePerAccount, Distinct, Typed, ManagerTyped, Tokens, account
    <3> QED
      BY <1>2, <3>1, <3>2, Groups DEF Typed, CountersTyped
  <2> QED
    BY <1>3, <2>3, <2>4 DEF Newest
<1>8. Kept'
  <2>1. ConfiguredIsMemory'
    BY <1>1, <1>2, Groups DEF Kept, ConfiguredIsMemory, Carries, Refreshing, manager
  <2>2. Stored'
    BY <1>1, <1>2, Groups
    DEF Kept, Stored, Shadowed, Restored, Typed, CallersTyped, stores, environment, manager
  <2> QED
    BY <2>1, <2>2 DEF Kept
<1> QED
  BY <1>4, <1>5, <1>6, <1>7, <1>8, Groups

(* While a token is being saved, everything but the stores and the         *)
(* configuration stays: the mutex and what it guards.                      *)
LEMMA SavingStep ==
  ASSUME IInv, NEW c \in Callers, Carries(c),
         pc' \in {[pc EXCEPT ![c] = "truncated"], [pc EXCEPT ![c] = "saved"]},
         UNCHANGED <<up, memory, mutex, index, fresh, newest, received, rotations>>
  PROVE  /\ Locked' /\ Newest' /\ CallersTyped'
         /\ \A d \in Callers : Carries(d)' <=> d = c
<1>1. /\ mutex = c /\ \A d \in Callers \ {c} : pc[d] \notin Refreshing
  BY Refresher DEF Carries, Refreshing
<1>2. \A d \in Callers : (Carries(d) <=> d = c) /\ (Carries(d)' <=> d = c)
  BY <1>1, Groups DEF Carries, Typed, CallersTyped, Refreshing
<1>3. Locked'
  BY <1>1, Groups DEF Carries, Typed, CallersTyped, Locked, MutexHeld, DeadIsQuiet, Refreshing
<1>4. Newest'
  BY <1>2, Groups DEF Newest, CarriedIsNewest, MemoryIsNewest, HandedOut, account
<1>5. CallersTyped'
  BY <1>1, Groups DEF Carries, Typed, CallersTyped, Refreshing
<1> QED
  BY <1>2, <1>3, <1>4, <1>5

(* The token file or .env is emptied; where there is neither, nothing is   *)
(* written, but then the token came from the environment.                  *)
LEMMA BeginWriteInv ==
  ASSUME IInv, NEW c \in Callers, BeginWrite(c)
  PROVE  IInv'
<1>1. /\ Carries(c) /\ pc[c] = "answered" /\ mutex = c /\ up
      /\ \A d \in Callers \ {c} : pc[d] \notin Refreshing
      /\ index[c] \in DOMAIN memory /\ index[c] \in DOMAIN configured
  BY Refresher DEF BeginWrite, Carries, Refreshing
<1>2. /\ pc' \in {[pc EXCEPT ![c] = "truncated"], [pc EXCEPT ![c] = "saved"]}
      /\ UNCHANGED <<environment, up, memory, cached, mutex, index, fresh, newest, received,
                     unsaved, counters, hasDotenv>>
  BY DEF BeginWrite, Goto
<1>3. Locked' /\ Newest' /\ CallersTyped' /\ \A d \in Callers : Carries(d)' <=> d = c
  BY <1>1, <1>2, SavingStep DEF counters
<1>4. CountersTyped'
  BY <1>2, Groups DEF Typed, CountersTyped, counters
<1>5. CASE ToTokenFile
  <2>1. /\ hasTokenFile' = TRUE /\ tokenFile' = <<>> /\ pc' = [pc EXCEPT ![c] = "truncated"]
        /\ UNCHANGED <<dotenv, configured>>
    BY <1>5 DEF BeginWrite, Goto
  <2>2. StoresTyped' /\ ManagerTyped'
    BY <1>2, <2>1, Groups DEF Typed, StoresTyped, ManagerTyped, environment
  <2>3. Listed'
    BY <1>1, <1>2, <2>1, Groups
    DEF Listed, OnePerAccount, FilesExist, SameAccounts, Distinct, environment
  <2>4. Kept'
    <3>1. pc'[c] = "truncated"
      BY <2>1, Groups DEF Typed, CallersTyped
    <3>2. Stored'
      BY <3>1 DEF Stored
    <3>3. ConfiguredIsMemory'
      BY <1>1, <1>2, <1>3, <2>1, Groups
      DEF Kept, ConfiguredIsMemory, Carries, Refreshing
    <3> QED
      BY <3>2, <3>3 DEF Kept
  <2> QED
    BY <1>3, <1>4, <2>2, <2>3, <2>4, Groups DEF Typed
<1>6. CASE ~ToTokenFile
  <2>1. /\ configured' = Swapped(configured, c) /\ dotenv' = <<>>
        /\ pc' = [pc EXCEPT ![c] = IF hasDotenv THEN "truncated" ELSE "saved"]
        /\ UNCHANGED <<hasTokenFile, tokenFile>>
    BY <1>6 DEF BeginWrite, Goto, Swapped
  <2>2. /\ configured' \in Seq(Tokens) /\ Len(configured') = Len(configured)
        /\ DOMAIN configured' = DOMAIN configured
        /\ configured'[index[c]] = fresh[c]
        /\ \A j \in DOMAIN configured \ {index[c]} : configured'[j] = configured[j]
        /\ \A j \in DOMAIN configured : configured'[j][1] = configured[j][1]
        /\ Distinct(configured')
    BY <1>1, <2>1, SwapLists
  <2>3. StoresTyped' /\ ManagerTyped'
    BY <1>2, <2>1, <2>2, Groups DEF Typed, StoresTyped, ManagerTyped, environment
  <2>4. DOMAIN memory = DOMAIN configured
    BY Groups DEF Typed, ManagerTyped
  <2>5. Listed'
    <3>1. OnePerAccount'
      BY <1>2, <2>1, <2>2, Groups DEF Listed, OnePerAccount, Distinct, environment
    <3>2. FilesExist'
      BY <1>1, <1>2, <2>1, Groups DEF Listed, FilesExist, Typed, CallersTyped, Refreshing, environment
    <3>3. SameAccounts'
      BY <1>2, <2>2, <2>4, Groups DEF Listed, SameAccounts
    <3> QED
      BY <3>1, <3>2, <3>3 DEF Listed
  <2>6. ConfiguredIsMemory'
    BY <1>1, <1>2, <1>3, <2>2, <2>4, Groups DEF Kept, ConfiguredIsMemory, Carries, Refreshing
  <2>7. Stored'
    <3>1. CASE hasDotenv
      <4>1. pc'[c] = "truncated"
        BY <2>1, <3>1, Groups DEF Typed, CallersTyped
      <4> QED
        BY <4>1 DEF Stored
    <3>2. CASE ~hasDotenv
      <4>1. SUFFICES ASSUME up', ~unsaved', ~Shadowed'
                     PROVE  FALSE
        BY DEF Stored
      <4>2. ~inEnviron /\ tokenFile = <<>> /\ dotenv = <<>>
        BY <1>2, <1>6, <2>1, <3>2, <4>1, Groups
        DEF Shadowed, ToTokenFile, Listed, FilesExist, environment
      <4>3. Restored = <<>>
        BY <4>2 DEF Restored
      <4>4. Len(Restored) = Len(memory)
        BY <1>1, <1>2, <1>6, <4>1, <4>2, Groups DEF Kept, Stored, Shadowed, Refreshing
      <4> QED
        BY <1>1, <4>3, <4>4, Groups DEF Typed, ManagerTyped
    <3> QED
      BY <3>1, <3>2
  <2> QED
    BY <1>3, <1>4, <2>3, <2>5, <2>6, <2>7, Groups DEF Typed, Kept
<1> QED
  BY <1>5, <1>6

(* The store then holds the token carried, and of the other accounts what  *)
(* the configuration, and so the memory, holds.                            *)
LEMMA FinishWriteInv ==
  ASSUME IInv, NEW c \in Callers, FinishWrite(c)
  PROVE  IInv'
<1>1. /\ Carries(c) /\ pc[c] = "truncated" /\ mutex = c /\ up
      /\ \A d \in Callers \ {c} : pc[d] \notin Refreshing
      /\ index[c] \in DOMAIN memory /\ index[c] \in DOMAIN configured /\ fresh[c] \in Tokens
  BY Refresher DEF FinishWrite, Carries, Refreshing
<1>2. /\ pc' = [pc EXCEPT ![c] = "saved"] /\ unsaved' = FALSE
      /\ UNCHANGED <<hasTokenFile, hasDotenv, environment, up, manager, mutex, index, fresh, newest,
                     received, counters>>
  BY DEF FinishWrite, Goto
<1>3. Locked' /\ Newest' /\ CallersTyped' /\ \A d \in Callers : Carries(d)' <=> d = c
  BY <1>1, <1>2, SavingStep DEF counters, manager
<1>4. CountersTyped' /\ ManagerTyped'
  BY <1>2, Groups DEF Typed, CountersTyped, ManagerTyped, counters, manager
<1>5. \A i \in DOMAIN memory \ {index[c]} : configured[i] = memory[i]
  BY <1>1, Groups DEF Kept, ConfiguredIsMemory, Carries, Refreshing
<1>6. ConfiguredIsMemory' /\ SameAccounts'
  BY <1>1, <1>2, <1>3, <1>5, Groups
  DEF Kept, ConfiguredIsMemory, Carries, Refreshing, Listed, SameAccounts, manager
<1>7. pc'[c] = "saved" /\ \A i \in DOMAIN memory :
        (\E d \in Callers : mutex' = d /\ index'[d] = i /\ pc'[d] = "saved") <=> i = index[c]
  BY <1>1, <1>2, Groups DEF Typed, CallersTyped
<1>8. DOMAIN memory = DOMAIN configured /\ Len(memory) = Len(configured)
      /\ memory \in Seq(Tokens) /\ configured \in Seq(Tokens)
  BY Groups DEF Typed, ManagerTyped
<1>9. CASE ToTokenFile
  <2>1. tokenFile' = Swapped(configured, c) /\ UNCHANGED dotenv
    BY <1>9 DEF FinishWrite, Swapped
  <2>2. /\ tokenFile' \in Seq(Tokens) /\ Len(tokenFile') = Len(configured)
        /\ tokenFile'[index[c]] = fresh[c] /\ Distinct(tokenFile')
        /\ \A j \in DOMAIN configured \ {index[c]} : tokenFile'[j] = configured[j]
    BY <1>1, <2>1, SwapLists
  <2>3. hasTokenFile
    BY <1>1, <1>8, <1>9, Groups DEF ToTokenFile, Listed, FilesExist
  <2>4. StoresTyped'
    BY <1>2, <2>1, <2>2, Groups DEF Typed, StoresTyped, environment
  <2>5. Listed'
    BY <1>2, <1>6, <2>1, <2>2, <2>3, Groups
    DEF Listed, OnePerAccount, FilesExist, environment, manager
  <2>6. Stored'
    <3>1. Restored' = tokenFile' /\ Len(Restored') = Len(memory)
      BY <1>1, <1>8, <2>2 DEF Restored
    <3>2. ASSUME NEW i \in DOMAIN memory
          PROVE  tokenFile'[i] = IF i = index[c] THEN fresh[c] ELSE memory[i]
      BY <1>5, <1>8, <2>2
    <3> QED
      BY <1>1, <1>2, <1>7, <3>1, <3>2 DEF Stored, manager
  <2> QED
    BY <1>3, <1>4, <1>6, <2>4, <2>5, <2>6, Groups DEF Typed, Kept
<1>10. CASE ~ToTokenFile
  <2>1. dotenv' = <<fresh[c]>> /\ UNCHANGED tokenFile
    BY <1>10 DEF FinishWrite
  <2>2. dotenv' \in Seq(Tokens) /\ Len(dotenv') = 1 /\ Distinct(dotenv')
    BY <1>1, <2>1, OneToken
  <2>3. hasDotenv /\ ~hasTokenFile /\ tokenFile = <<>>
    BY <1>1, <1>10, Groups DEF ToTokenFile, Listed, FilesExist
  <2>4. StoresTyped'
    BY <1>2, <2>1, <2>2, Groups DEF Typed, StoresTyped, environment
  <2>5. Listed'
    BY <1>2, <1>6, <2>1, <2>2, <2>3, Groups
    DEF Listed, OnePerAccount, FilesExist, environment, manager
  <2>6. Stored'
    <3>1. SUFFICES ASSUME ~Shadowed'
                   PROVE  Restored' = dotenv' /\ Len(memory) = 1 /\ index[c] = 1
      BY <1>1, <1>2, <1>7, <1>8, <2>1, <2>2 DEF Stored, manager
    <3>2. Len(memory) = 1
      BY <1>1, <1>8, <1>10 DEF ToTokenFile
    <3>3. ~inEnviron'
      BY <1>2, <2>3, <3>1 DEF Shadowed
    <3> QED
      BY <1>1, <1>8, <2>1, <2>3, <3>2, <3>3 DEF Restored
  <2> QED
    BY <1>3, <1>4, <1>6, <2>4, <2>5, <2>6, Groups DEF Typed, Kept
<1> QED
  BY <1>9, <1>10

(* A write that fails leaves the stores behind, and says so.               *)
LEMMA WriteFailsInv ==
  ASSUME IInv, NEW c \in Callers, WriteFails(c)
  PROVE  IInv'
<1>1. /\ Carries(c) /\ mutex = c /\ up
      /\ \A d \in Callers \ {c} : pc[d] \notin Refreshing
      /\ index[c] \in DOMAIN memory /\ index[c] \in DOMAIN configured
  BY Refresher DEF WriteFails, Carries, Refreshing
<1>2. /\ pc' = [pc EXCEPT ![c] = "saved"] /\ unsaved' = TRUE
      /\ failures' = failures + 1 /\ failures < MaxFailures
      /\ configured' = configured \/ configured' = Swapped(configured, c)
      /\ UNCHANGED <<stores, environment, up, memory, cached, mutex, index, fresh, newest,
                     received, rotations, restarts>>
  BY DEF WriteFails, Goto, Swapped
<1>3. Locked' /\ Newest' /\ CallersTyped' /\ \A d \in Callers : Carries(d)' <=> d = c
  BY <1>1, <1>2, SavingStep
<1>4. StoresTyped' /\ CountersTyped'
  BY <1>2, Groups, TokenStoreAssumption
  DEF Typed, StoresTyped, CountersTyped, stores, environment
<1>5. /\ configured' \in Seq(Tokens) /\ Len(configured') = Len(configured)
      /\ DOMAIN configured' = DOMAIN configured /\ Distinct(configured')
      /\ configured'[index[c]] \in {configured[index[c]], fresh[c]}
      /\ \A j \in DOMAIN configured \ {index[c]} : configured'[j] = configured[j]
      /\ \A j \in DOMAIN configured : configured'[j][1] = configured[j][1]
  <2>1. CASE configured' = configured
    BY <2>1, Groups DEF Typed, ManagerTyped, Listed, OnePerAccount
  <2>2. CASE configured' = Swapped(configured, c)
    BY <1>1, <2>2, SwapLists
  <2> QED
    BY <1>2, <2>1, <2>2
<1>6. DOMAIN memory = DOMAIN configured
  BY Groups DEF Typed, ManagerTyped
<1>7. ManagerTyped'
  BY <1>2, <1>5, Groups DEF Typed, ManagerTyped
<1>8. Listed'
  <2>1. OnePerAccount' /\ SameAccounts'
    BY <1>2, <1>5, <1>6, Groups
    DEF Listed, OnePerAccount, SameAccounts, Distinct, stores, environment
  <2>2. FilesExist'
    BY <1>2, Groups DEF Listed, FilesExist, Typed, CallersTyped, stores, environment
  <2> QED
    BY <2>1, <2>2 DEF Listed
<1>9. Kept'
  <2>1. Stored'
    BY <1>2 DEF Stored
  <2>2. ConfiguredIsMemory'
    BY <1>1, <1>2, <1>3, <1>5, <1>6, Groups
    DEF Kept, ConfiguredIsMemory, Carries, Refreshing
  <2> QED
    BY <2>1, <2>2 DEF Kept
<1> QED
  BY <1>3, <1>4, <1>7, <1>8, <1>9, Groups DEF Typed

(* Configuration and memory take the token carried, saved or not.          *)
LEMMA RememberInv ==
  ASSUME IInv, NEW c \in Callers, Remember(c)
  PROVE  IInv'
<1>1. /\ Carries(c) /\ pc[c] = "saved" /\ mutex = c /\ up
      /\ \A d \in Callers \ {c} : pc[d] \notin Refreshing
      /\ index[c] \in DOMAIN memory
  BY Refresher DEF Remember, Carries, Refreshing
<1>2. /\ pc' = [pc EXCEPT ![c] = "out"] /\ mutex' = Free
      /\ configured' = Swapped(configured, c) /\ memory' = Swapped(memory, c)
      /\ cached' = cached \union {index[c]}
      /\ UNCHANGED <<stores, environment, up, index, fresh, newest, received, unsaved, counters>>
  BY DEF Remember, Goto, Unlock, Swapped
<1>3. /\ configured' \in Seq(Tokens) /\ Len(configured') = Len(configured)
      /\ configured'[index[c]] = fresh[c] /\ Distinct(configured')
      /\ \A j \in DOMAIN configured \ {index[c]} : configured'[j] = configured[j]
  BY <1>1, <1>2, SwapLists
<1>4. /\ memory' \in Seq(Tokens) /\ Len(memory') = Len(memory) /\ DOMAIN memory' = DOMAIN memory
      /\ memory'[index[c]] = fresh[c] /\ Distinct(memory')
      /\ \A j \in DOMAIN memory \ {index[c]} : memory'[j] = memory[j]
  BY <1>1, <1>2, SwapLists
<1>5. DOMAIN memory = DOMAIN configured /\ Len(memory) = Len(configured)
  BY Groups DEF Typed, ManagerTyped
<1>6. \A i \in DOMAIN memory \ {index[c]} : configured[i] = memory[i]
  BY <1>1, Groups DEF Kept, ConfiguredIsMemory, Carries, Refreshing
<1>7. \A i \in DOMAIN memory' : configured'[i] = memory'[i]
  BY <1>3, <1>4, <1>5, <1>6
<1>8. Typed'
  <2>1. StoresTyped' /\ ManagerTyped'
    BY <1>1, <1>2, <1>3, <1>4, <1>5, Groups
    DEF Typed, StoresTyped, ManagerTyped, stores, environment
  <2>2. CallersTyped'
    BY <1>1, <1>2, <1>4, Groups DEF Typed, CallersTyped, Refreshing
  <2>3. CountersTyped'
    BY <1>2, Groups DEF Typed, CountersTyped, counters
  <2> QED
    BY <2>1, <2>2, <2>3 DEF Typed
<1>9. \A d \in Callers : pc'[d] \notin Refreshing /\ ~Carries(d)'
  BY <1>1, <1>2, Groups, TokenStoreAssumption
  DEF Typed, CallersTyped, Refreshing, Carries, Free
<1>10. Locked'
  BY <1>1, <1>2, <1>9, TokenStoreAssumption
  DEF Locked, MutexHeld, DeadIsQuiet, Free
<1>11. Listed'
  <2>1. OnePerAccount' /\ SameAccounts'
    BY <1>2, <1>3, <1>4, <1>7, Groups
    DEF Listed, OnePerAccount, SameAccounts, Distinct, stores, environment
  <2>2. FilesExist'
    BY <1>2, <1>4, Groups DEF Listed, FilesExist, Typed, CallersTyped, stores, environment
  <2> QED
    BY <2>1, <2>2 DEF Listed
<1>12. Newest'
  <2>1. MemoryIsNewest'
    <3> SUFFICES ASSUME NEW i \in DOMAIN memory
                 PROVE  memory'[i][2] = received'[memory'[i][1]]
      BY <1>4 DEF MemoryIsNewest
    <3>1. CASE i = index[c]
      BY <1>1, <1>2, <1>4, <3>1, Groups DEF Newest, CarriedIsNewest
    <3>2. CASE i # index[c]
      BY <1>1, <1>2, <1>4, <3>2, Groups DEF Newest, MemoryIsNewest, Carries, Refreshing
    <3> QED
      BY <3>1, <3>2
  <2> QED
    BY <1>2, <1>9, <2>1, Groups DEF Newest, CarriedIsNewest, HandedOut, counters
<1>13. Kept'
  <2>1. ConfiguredIsMemory'
    BY <1>7 DEF ConfiguredIsMemory
  <2>2. Stored'
    <3> SUFFICES ASSUME ~unsaved', ~Shadowed'
                 PROVE  /\ Len(Restored') = Len(memory')
                        /\ \A i \in DOMAIN memory' : Restored'[i] = memory'[i]
      BY <1>9 DEF Stored, Refreshing
    <3>1. Restored' = Restored /\ (Shadowed' <=> Shadowed)
      BY <1>2 DEF Restored, Shadowed, stores, environment
    <3>2. /\ Len(Restored) = Len(memory)
          /\ \A i \in DOMAIN memory :
               Restored[i] = IF i = index[c] THEN fresh[c] ELSE memory[i]
      BY <1>1, <1>2, <3>1, Groups DEF Kept, Stored, Refreshing
    <3> QED
      BY <1>4, <3>1, <3>2
  <2> QED
    BY <2>1, <2>2 DEF Kept
<1> QED
  BY <1>8, <1>10, <1>11, <1>12, <1>13, Groups

(* A step that leaves the tokens and the saving of one alone.              *)
LEMMA QuietStep ==
  ASSUME IInv, Typed', Locked', HandedOut',
         UNCHANGED <<stores, environment, up, configured, memory, fresh, received, unsaved>>,
         \A c \in Callers : /\ Carries(c)' <=> Carries(c)
                            /\ Carries(c) => pc'[c] = pc[c] /\ index'[c] = index[c]
  PROVE  IInv'
<1>1. \A c \in Callers : (mutex' = c /\ pc'[c] = "saved") <=> (mutex = c /\ pc[c] = "saved")
  BY DEF Carries
<1>2. \A c \in Callers : pc'[c] = "truncated" <=> pc[c] = "truncated"
  BY Groups DEF Carries, Locked, MutexHeld, Refreshing
<1>3. Listed'
  BY <1>2, Groups
  DEF Listed, OnePerAccount, FilesExist, SameAccounts, Distinct, stores, environment
<1>4. Newest'
  BY Groups DEF Newest, CarriedIsNewest, MemoryIsNewest, account
<1>5. ConfiguredIsMemory'
  BY Groups DEF Kept, ConfiguredIsMemory
<1>6. Stored'
  <2>1. Restored' = Restored /\ (Shadowed' <=> Shadowed)
    BY DEF Restored, Shadowed, stores, environment
  <2>2. \A c \in Callers : mutex' = c /\ pc'[c] = "saved" => Carries(c)
    BY <1>1 DEF Carries
  <2> QED
    BY <1>1, <1>2, <2>1, <2>2, Groups DEF Kept, Stored, Locked, MutexHeld, Refreshing, Carries
<1> QED
  BY <1>3, <1>4, <1>5, <1>6, Groups DEF Kept

(* A caller comes, gets the mutex or a cached token, or hears from GLM     *)
(* nothing it has to keep.                                                 *)
LEMMA CallerInv ==
  ASSUME IInv, NEW c \in Callers,
         Call(c) \/ Lock(c) \/ RefreshFails(c) \/ RefreshKeeps(c)
  PROVE  IInv'
<1> USE DEF Typed, StoresTyped, ManagerTyped, CallersTyped, CountersTyped, Refreshing,
            Goto, Unlock, stores, environment, manager, counters
<1>1. CASE Call(c)
  <2>1. Typed'
    BY <1>1, Groups DEF Call
  <2>2. Locked'
    BY <1>1, Groups DEF Call, Locked, MutexHeld, DeadIsQuiet
  <2>3. HandedOut' /\ UNCHANGED <<stores, environment, up, configured, memory, fresh, received, unsaved>>
    BY <1>1, Groups DEF Call, Newest, HandedOut
  <2>4. \A d \in Callers : /\ Carries(d)' <=> Carries(d)
                           /\ Carries(d) => pc'[d] = pc[d] /\ index'[d] = index[d]
    BY <1>1, Groups DEF Call, Carries
  <2> QED
    BY <2>1, <2>2, <2>3, <2>4, QuietStep
<1>2. CASE Lock(c)
  <2>1. Typed'
    <3>1. CASE index[c] \in cached
      BY <1>2, <3>1, Groups DEF Lock
    <3>2. CASE index[c] \notin cached
      BY <1>2, <3>2, Groups DEF Lock
    <3> QED
      BY <3>1, <3>2
  <2>2. Locked'
    BY <1>2, Groups, TokenStoreAssumption DEF Lock, Locked, MutexHeld, DeadIsQuiet, Free
  <2>3. HandedOut' /\ UNCHANGED <<stores, environment, up, configured, memory, fresh, received, unsaved>>
    BY <1>2, Groups DEF Lock, Newest, HandedOut
  <2>4. \A d \in Callers : /\ Carries(d)' <=> Carries(d)
                           /\ Carries(d) => pc'[d] = pc[d] /\ index'[d] = index[d]
    BY <1>2, Groups, TokenStoreAssumption DEF Lock, Carries, Free
  <2> QED
    BY <2>1, <2>2, <2>3, <2>4, QuietStep
<1>3. CASE RefreshFails(c)
  <2>1. account(c) \in Accounts /\ mutex = c /\ \A d \in Callers \ {c} : pc[d] \notin Refreshing
    BY <1>3, Refresher DEF RefreshFails
  <2>2. CountersTyped' /\ HandedOut'
    <3>1. CASE UNCHANGED <<newest, rotations>>
      BY <1>3, <3>1, Groups DEF RefreshFails, Newest, HandedOut
    <3>2. CASE HandOut(account(c))
      <4>1. /\ newest' \in [Accounts -> 0 .. MaxRotations] /\ rotations' \in 0 .. MaxRotations
            /\ HandedOut'
        BY <2>1, <3>2, HandOutTyped, Groups DEF Newest
      <4> QED
        BY <1>3, <4>1, Groups DEF RefreshFails
    <3> QED
      BY <1>3, <3>1, <3>2 DEF RefreshFails
  <2>3. Typed'
    BY <1>3, <2>2, Groups DEF RefreshFails
  <2>4. Locked'
    BY <1>3, <2>1, Groups, TokenStoreAssumption
    DEF RefreshFails, Locked, MutexHeld, DeadIsQuiet, Free
  <2>5. UNCHANGED <<stores, environment, up, configured, memory, fresh, received, unsaved>>
    BY <1>3 DEF RefreshFails
  <2>6. \A d \in Callers : ~Carries(d) /\ ~Carries(d)'
    BY <1>3, <2>1, Groups, TokenStoreAssumption DEF RefreshFails, Carries, Free
  <2> QED
    BY <2>2, <2>3, <2>4, <2>5, <2>6, QuietStep
<1>4. CASE RefreshKeeps(c)
  <2>1. index[c] \in DOMAIN memory /\ mutex = c /\ \A d \in Callers \ {c} : pc[d] \notin Refreshing
    BY <1>4, Refresher DEF RefreshKeeps
  <2>2. Typed'
    BY <1>4, <2>1, Groups DEF RefreshKeeps
  <2>3. Locked'
    BY <1>4, <2>1, Groups, TokenStoreAssumption
    DEF RefreshKeeps, Locked, MutexHeld, DeadIsQuiet, Free
  <2>4. HandedOut' /\ UNCHANGED <<stores, environment, up, configured, memory, fresh, received, unsaved>>
    BY <1>4, Groups DEF RefreshKeeps, Newest, HandedOut
  <2>5. \A d \in Callers : ~Carries(d) /\ ~Carries(d)'
    BY <1>4, <2>1, Groups, TokenStoreAssumption DEF RefreshKeeps, Carries, Free
  <2> QED
    BY <2>2, <2>3, <2>4, <2>5, QuietStep
<1> QED
  BY <1>1, <1>2, <1>3, <1>4

(* A dead process leaves its stores, and a started one reads them.         *)
LEMMA ProcessInv ==
  ASSUME IInv, Kill \/ Restart
  PROVE  IInv'
<1> USE TokenStoreAssumption
    DEF Typed, StoresTyped, ManagerTyped, CallersTyped, CountersTyped, Refreshing,
        Unlock, stores, environment, manager, callerVars, counters
<1>1. CASE Kill
  <2>1. Typed'
    <3>1. StoresTyped' /\ ManagerTyped' /\ CallersTyped'
      BY <1>1, Groups DEF Kill
    <3>2. CountersTyped'
      <4>1. up' \in BOOLEAN
        BY <1>1 DEF Kill
      <4> QED
        BY <1>1, <4>1, Groups DEF Kill
    <3> QED
      BY <3>1, <3>2
  <2>2. Locked'
    BY <1>1, Groups DEF Kill, Locked, MutexHeld, DeadIsQuiet, Free
  <2>3. Listed'
    BY <1>1, Groups DEF Kill, Listed, OnePerAccount, FilesExist, SameAccounts, Distinct
  <2>4. Newest'
    BY <1>1, Groups DEF Kill, Newest, CarriedIsNewest, MemoryIsNewest, HandedOut, Carries, Free
  <2>5. Kept'
    BY <1>1 DEF Kill, Kept, ConfiguredIsMemory, Stored
  <2> QED
    BY <2>1, <2>2, <2>3, <2>4, <2>5, Groups
<1>2. CASE Restart
  <2>1. Restored \in Seq(Tokens) /\ Distinct(Restored)
    BY RestoredTokens DEF IInv
  <2>2. Known(Restored) \in [Accounts -> 0 .. MaxRotations]
        /\ \A i \in DOMAIN Restored : Known(Restored)[Restored[i][1]] = Restored[i][2]
    BY <2>1, KnownCorrect
  <2>3. \A c \in Callers : pc'[c] = "out" /\ mutex' # c
    BY <1>2, Groups DEF Restart, Locked, MutexHeld, DeadIsQuiet
  <2>4. Typed'
    <3>1. StoresTyped' /\ ManagerTyped'
      BY <1>2, <2>1, Groups DEF Restart
    <3>2. CallersTyped'
      BY <1>2, <2>3, Groups DEF Restart
    <3>3. CountersTyped'
      <4>1. up' \in BOOLEAN /\ unsaved' \in BOOLEAN
        BY <1>2 DEF Restart
      <4> QED
        BY <1>2, <2>2, <4>1, Groups DEF Restart
    <3> QED
      BY <3>1, <3>2, <3>3
  <2>5. Locked'
    BY <1>2, <2>3 DEF Restart, Locked, MutexHeld, DeadIsQuiet
  <2>6. Listed'
    <3>1. OnePerAccount' /\ SameAccounts'
      BY <1>2, <2>1, Groups DEF Restart, Listed, OnePerAccount, SameAccounts, Distinct
    <3>2. Len(Restored) > 1 => hasTokenFile
      BY Groups DEF Restored, Listed, FilesExist
    <3>3. FilesExist'
      BY <1>2, <2>3, <3>2, Groups DEF Restart, Listed, FilesExist
    <3> QED
      BY <3>1, <3>3 DEF Listed
  <2>7. Newest'
    BY <1>2, <2>2, <2>3, Groups
    DEF Restart, Newest, CarriedIsNewest, MemoryIsNewest, HandedOut, Carries
  <2>8. Kept'
    <3>1. Restored' = Restored
      BY <1>2 DEF Restart, Restored
    <3> QED
      BY <1>2, <2>3, <3>1 DEF Restart, Kept, ConfiguredIsMemory, Stored
  <2> QED
    BY <2>4, <2>5, <2>6, <2>7, <2>8, Groups
<1> QED
  BY <1>1, <1>2

(* Every step keeps the invariant. *)
LEMMA StepInv == IInv /\ [Next]_vars => IInv'
<1> SUFFICES ASSUME IInv, [Next]_vars PROVE IInv'
  OBVIOUS
<1>1. ASSUME NEW c \in Callers, Call(c) \/ Lock(c) \/ Refresh(c) PROVE IInv'
  BY <1>1, CallerInv, RotateInv, BeginWriteInv, FinishWriteInv, WriteFailsInv, RememberInv
  DEF Refresh
<1>2. ASSUME NEW i \in cached, Uncache(i) PROVE IInv'
  <2>1. Typed'
    BY <1>2, Groups
    DEF Uncache, Typed, StoresTyped, ManagerTyped, CallersTyped, CountersTyped, stores,
        environment, callerVars, counters
  <2>2. /\ Locked' /\ HandedOut'
        /\ UNCHANGED <<stores, environment, up, configured, memory, fresh, received, unsaved>>
        /\ UNCHANGED <<pc, index, mutex>>
    BY <1>2, Groups
    DEF Uncache, Locked, MutexHeld, DeadIsQuiet, Newest, HandedOut, callerVars, counters
  <2> QED
    BY <2>1, <2>2, QuietStep DEF Carries
<1>3. CASE Kill \/ Restart
  BY <1>3, ProcessInv
<1>4. CASE UNCHANGED vars
  <2>1. /\ Typed' /\ Locked' /\ HandedOut'
        /\ UNCHANGED <<stores, environment, up, configured, memory, fresh, received, unsaved>>
        /\ UNCHANGED <<pc, index, mutex>>
    BY <1>4, Groups
    DEF vars, Typed, StoresTyped, ManagerTyped, CallersTyped, CountersTyped, Locked, MutexHeld,
        DeadIsQuiet, Newest, HandedOut, stores, environment, manager, callerVars, counters
  <2> QED
    BY <2>1, QuietStep DEF Carries
<1> QED
  BY <1>1, <1>2, <1>3, <1>4 DEF Next

(* IInv holds in every reachable state. *)
THEOREM Invariance == Spec => []IInv
  BY InitInv, StepInv, PTL DEF Spec

(* Every variable keeps its type. *)
THEOREM TypeCorrect == Spec => []TypeOK
<1>1. IInv => TypeOK
  BY DEF IInv
<1> QED
  BY <1>1, Invariance, PTL

(* GLM is asked with the newest token it has handed to the process,        *)
(* whether that was saved or not (auth.go:265, 284-345).                   *)
THEOREM NewestIsPresented == Spec => []NewestPresented
<1>1. IInv => NewestPresented
  <2> SUFFICES ASSUME IInv, NEW c \in Callers, pc[c] = "asked"
               PROVE  memory[index[c]][2] = received[account(c)]
    BY DEF NewestPresented
  <2>1. /\ mutex = c /\ up /\ index[c] \in DOMAIN memory
        /\ \A d \in Callers \ {c} : pc[d] \notin Refreshing
    BY Refresher DEF Refreshing
  <2> QED
    BY <2>1 DEF IInv, MemoryIsNewest, Carries, Refreshing, account
<1> QED
  BY <1>1, Invariance, PTL

(* But for the instant between emptying and writing a file, the stores     *)
(* hold every account, with the token in use or the one that replaces it   *)
(* (auth.go:334-345, 412-432; config.go:320-348, 481-528).                 *)
THEOREM CrashRisksOnlyOneToken == Spec => []CrashRisksOneToken
<1>1. IInv => CrashRisksOneToken
  BY DEF IInv, CrashRisksOneToken, Stored
<1> QED
  BY <1>1, Invariance, PTL
=============================================================================
