----------------------------- MODULE TokenStore -----------------------------
(***************************************************************************)
(* Refreshing access tokens and keeping the rotated refresh tokens:        *)
(* GetAccessTokenForAccount, refreshAccessToken and persistRefreshToken    *)
(* (internal/auth/auth.go), and what LoadConfig and SetRefreshToken        *)
(* (internal/config/config.go) read and write.  Callers share the          *)
(* manager's mutex, which a refresh keeps while it asks GLM and writes the *)
(* answer to disk.  The process may be killed between any two steps and is *)
(* started again.                                                          *)
(*                                                                         *)
(* A refresh token is a pair <<account, number>>; GLM hands out an         *)
(* account's tokens in the order of their numbers.  Guest accounts have no *)
(* stored token and nothing to keep: a process in guest mode has no        *)
(* accounts here.                                                          *)
(***************************************************************************)
EXTENDS Integers, Sequences, FiniteSets

CONSTANTS Callers,        \* concurrent callers of GetAccessTokenForAccount
          FileLines,      \* bound: lines of the token file
          MaxRotations,   \* bound: rotations of refresh tokens, lost ones included
          MaxRestarts,    \* bound: kills of the process
          MaxFailures     \* bound: writes that fail

ASSUME TokenStoreAssumption ==
    /\ FileLines \in Nat /\ MaxRotations \in Nat /\ MaxRestarts \in Nat /\ MaxFailures \in Nat
    /\ "free" \notin Callers

VARIABLES
    hasTokenFile, tokenFile,   \* GLM_TOKEN_FILE: does it exist, and its tokens
    hasDotenv, dotenv,         \* .env, and its GLM_REFRESH_TOKEN: <<>> or <<token>>
    inEnviron, environ,        \* is GLM_REFRESH_TOKEN in the environment, and its value
    up,                        \* the process runs
    configured,                \* config.GLMRefreshTokens
    memory,                    \* m.accounts[i].RefreshToken
    cached,                    \* accounts with a valid CachedToken
    mutex,                     \* m.mu: its owner, or Free
    pc, index, fresh,          \* of a caller: place, account index, rotated token
    newest,                    \* number of the newest token GLM has handed out
    received,                  \* number of the newest token this process knows of
    unsaved,                   \* the last write failed
    rotations, restarts, failures

stores == <<hasTokenFile, tokenFile, hasDotenv, dotenv>>
environment == <<inEnviron, environ>>
manager == <<configured, memory, cached>>
callerVars == <<pc, index, fresh>>
counters == <<rotations, restarts, failures>>
vars == <<stores, environment, up, manager, mutex, callerVars, newest, received, unsaved,
          counters>>

Free == "free"
EnvAccount == 0                      \* the account of GLM_REFRESH_TOKEN
Accounts == 0 .. FileLines
FirstToken(a) == <<a, 0>>

(* The accounts LoadConfig finds: those of the token file, else the one of *)
(* GLM_REFRESH_TOKEN, where the environment, even if empty, overrides .env.*)
Restored ==
    IF tokenFile # <<>> THEN tokenFile ELSE IF inEnviron THEN environ ELSE dotenv

Known(tokens) ==
    [a \in Accounts |-> IF \E i \in DOMAIN tokens : tokens[i][1] = a
                          THEN tokens[CHOOSE i \in DOMAIN tokens : tokens[i][1] = a][2]
                          ELSE 0]

Init ==
    /\ hasTokenFile \in BOOLEAN /\ hasDotenv \in BOOLEAN /\ inEnviron \in BOOLEAN
    /\ \E n \in 0 .. FileLines : tokenFile = [a \in 1 .. n |-> FirstToken(a)]
    /\ tokenFile # <<>> => hasTokenFile
    /\ dotenv \in {<<>>, <<FirstToken(EnvAccount)>>} /\ (dotenv # <<>> => hasDotenv)
    /\ environ \in {<<>>, <<FirstToken(EnvAccount)>>} /\ (environ # <<>> => inEnviron)
    /\ up = TRUE /\ configured = Restored /\ memory = Restored /\ cached = {}
    /\ mutex = Free
    /\ pc = [c \in Callers |-> "out"] /\ index = [c \in Callers |-> 1]
    /\ fresh = [c \in Callers |-> FirstToken(EnvAccount)]
    /\ newest = [a \in Accounts |-> 0] /\ received = Known(Restored)
    /\ unsaved = FALSE /\ rotations = 0 /\ restarts = 0 /\ failures = 0

account(c) == memory[index[c]][1]
Goto(c, label) == pc' = [pc EXCEPT ![c] = label]
Unlock == mutex' = Free
(* GLM makes a new refresh token for an account. *)
HandOut(a) ==
    /\ rotations < MaxRotations /\ rotations' = rotations + 1
    /\ newest' = [newest EXCEPT ![a] = @ + 1]
(* Whether persistRefreshToken writes the token file, and not .env. *)
ToTokenFile == hasTokenFile \/ Len(configured) > 1

Call(c) ==
    /\ up /\ pc[c] = "out"
    /\ \E i \in DOMAIN memory : index' = [index EXCEPT ![c] = i]
    /\ Goto(c, "waiting")
    /\ UNCHANGED <<stores, environment, up, manager, mutex, fresh, newest, received, unsaved,
                   counters>>

(* A cached access token is returned; otherwise GLM is asked for one, with *)
(* the mutex held.                                                         *)
Lock(c) ==
    /\ pc[c] = "waiting" /\ mutex = Free
    /\ \/ index[c] \in cached /\ Goto(c, "out") /\ UNCHANGED mutex
       \/ index[c] \notin cached /\ Goto(c, "asked") /\ mutex' = c
    /\ UNCHANGED <<stores, environment, up, manager, index, fresh, newest, received, unsaved,
                   counters>>

\* Bug: an error path that forgets to unlock.
RefreshFailsLocked(c) ==
    /\ pc[c] = "asked"
    /\ Goto(c, "out")
    /\ UNCHANGED <<newest, rotations>> \/ HandOut(account(c))
    /\ UNCHANGED <<stores, environment, up, manager, mutex, index, fresh, received, unsaved,
                   restarts, failures>>

(* GLM refuses, or its answer is lost, rotated token and all. *)
RefreshFails(c) ==
    /\ pc[c] = "asked"
    /\ Goto(c, "out") /\ Unlock
    /\ UNCHANGED <<newest, rotations>> \/ HandOut(account(c))
    /\ UNCHANGED <<stores, environment, up, manager, index, fresh, received, unsaved, restarts,
                   failures>>

(* GLM grants an access token and leaves the refresh token as it is. *)
RefreshKeeps(c) ==
    /\ pc[c] = "asked"
    /\ cached' = cached \union {index[c]}
    /\ Goto(c, "out") /\ Unlock
    /\ UNCHANGED <<stores, environment, up, configured, memory, index, fresh, newest, received,
                   unsaved, counters>>

(* GLM grants an access token and a new refresh token. *)
RefreshRotates(c) ==
    LET next == newest[account(c)] + 1
    IN  /\ pc[c] = "asked"
        /\ HandOut(account(c))
        /\ received' = [received EXCEPT ![account(c)] = next]
        /\ fresh' = [fresh EXCEPT ![c] = <<account(c), next>>]
        /\ Goto(c, "answered")
        /\ UNCHANGED <<stores, environment, up, manager, mutex, index, unsaved, restarts, failures>>

(* os.WriteFile empties the token file, or .env, before it writes.  Where  *)
(* there is no .env the token is not written at all.                       *)
BeginWrite(c) ==
    /\ pc[c] = "answered"
    /\ \/ /\ ToTokenFile
          /\ hasTokenFile' = TRUE /\ tokenFile' = <<>> /\ Goto(c, "truncated")
          /\ UNCHANGED <<hasDotenv, dotenv, configured>>
       \/ /\ ~ToTokenFile
          /\ configured' = [configured EXCEPT ![index[c]] = fresh[c]]
          /\ dotenv' = <<>> /\ Goto(c, IF hasDotenv THEN "truncated" ELSE "saved")
          /\ UNCHANGED <<hasTokenFile, tokenFile, hasDotenv>>
    /\ UNCHANGED <<environment, up, memory, cached, mutex, index, fresh, newest, received,
                   unsaved, counters>>

(* All lines of the token file, or the GLM_REFRESH_TOKEN line of .env. *)
FinishWrite(c) ==
    /\ pc[c] = "truncated"
    /\ IF ToTokenFile
         THEN /\ tokenFile' = [configured EXCEPT ![index[c]] = fresh[c]]
              /\ UNCHANGED dotenv
         ELSE dotenv' = <<fresh[c]>> /\ UNCHANGED tokenFile
    /\ unsaved' = FALSE
    /\ Goto(c, "saved")
    /\ UNCHANGED <<hasTokenFile, hasDotenv, environment, up, manager, mutex, index, fresh, newest,
                   received, counters>>

(* The file cannot be opened, or not be written once it is empty; the      *)
(* error is logged and the refresh goes on.                                *)
WriteFails(c) ==
    /\ failures < MaxFailures /\ failures' = failures + 1
    /\ \/ pc[c] = "truncated"
       \/ pc[c] = "answered" /\ (ToTokenFile \/ hasDotenv)
    /\ configured' = IF ToTokenFile THEN configured
                                    ELSE [configured EXCEPT ![index[c]] = fresh[c]]
    /\ unsaved' = TRUE
    /\ Goto(c, "saved")
    /\ UNCHANGED <<stores, environment, up, memory, cached, mutex, index, fresh, newest, received,
                   rotations, restarts>>

\* Bugs: the configuration keeps the old token; the new one is used only once it is saved.
RememberNotConfigured(c) ==
    /\ pc[c] = "saved"
    /\ memory' = [memory EXCEPT ![index[c]] = fresh[c]]
    /\ cached' = cached \union {index[c]}
    /\ Goto(c, "out") /\ Unlock
    /\ UNCHANGED <<stores, environment, up, configured, index, fresh, newest, received, unsaved,
                   counters>>

RememberIfSaved(c) ==
    /\ pc[c] = "saved"
    /\ memory' = IF unsaved THEN memory ELSE [memory EXCEPT ![index[c]] = fresh[c]]
    /\ configured' = IF unsaved THEN configured ELSE [configured EXCEPT ![index[c]] = fresh[c]]
    /\ cached' = cached \union {index[c]}
    /\ Goto(c, "out") /\ Unlock
    /\ UNCHANGED <<stores, environment, up, index, fresh, newest, received, unsaved, counters>>

(* The new token is used from now on, saved or not. *)
Remember(c) ==
    /\ pc[c] = "saved"
    /\ memory' = [memory EXCEPT ![index[c]] = fresh[c]]
    /\ configured' = [configured EXCEPT ![index[c]] = fresh[c]]
    /\ cached' = cached \union {index[c]}
    /\ Goto(c, "out") /\ Unlock
    /\ UNCHANGED <<stores, environment, up, index, fresh, newest, received, unsaved, counters>>

(* An access token expires, or InvalidateAccount drops it. *)
Uncache(i) ==
    /\ up /\ i \in cached
    /\ cached' = cached \ {i}
    /\ UNCHANGED <<stores, environment, up, configured, memory, mutex, callerVars, newest,
                   received, unsaved, counters>>

(* The process dies, at any point. *)
Kill ==
    /\ up /\ restarts < MaxRestarts
    /\ up' = FALSE /\ restarts' = restarts + 1
    /\ pc' = [c \in Callers |-> "out"] /\ Unlock
    /\ UNCHANGED <<stores, environment, manager, index, fresh, newest, received, unsaved, rotations,
                   failures>>

(* LoadConfig and NewManager. *)
Restart ==
    /\ ~up /\ up' = TRUE
    /\ configured' = Restored /\ memory' = Restored /\ cached' = {}
    /\ received' = Known(Restored)
    /\ unsaved' = FALSE
    /\ UNCHANGED <<stores, environment, mutex, callerVars, newest, counters>>

Refresh(c) == \/ RefreshFails(c) \/ RefreshKeeps(c) \/ RefreshRotates(c) \/ BeginWrite(c)
              \/ FinishWrite(c) \/ WriteFails(c) \/ Remember(c)

Next ==
    \/ \E c \in Callers : Call(c) \/ Lock(c) \/ Refresh(c)
    \/ \E i \in cached : Uncache(i)
    \/ Kill \/ Restart

Spec == Init /\ [][Next]_vars

(* A request to GLM ends (the HTTP client has a time-out), the writes end, *)
(* and sync.Mutex serves a waiter that others keep overtaking.             *)
FairSpec == Spec /\ \A c \in Callers : WF_vars(Refresh(c)) /\ SF_vars(Lock(c))

-----------------------------------------------------------------------------
Refreshing == {"asked", "answered", "truncated", "saved"}
Tokens == Accounts \X (0 .. MaxRotations)

TypeOK ==
    /\ hasTokenFile \in BOOLEAN /\ hasDotenv \in BOOLEAN /\ inEnviron \in BOOLEAN
    /\ tokenFile \in Seq(Tokens)
    /\ dotenv \in Seq(Tokens) /\ Len(dotenv) <= 1 /\ environ \in Seq(Tokens) /\ Len(environ) <= 1
    /\ configured \in Seq(Tokens) /\ memory \in Seq(Tokens) /\ Len(configured) = Len(memory)
    /\ up \in BOOLEAN /\ unsaved \in BOOLEAN /\ index \in [Callers -> Nat \ {0}]
    /\ cached \subseteq DOMAIN memory
    /\ pc \in [Callers -> {"out", "waiting"} \union Refreshing]
    /\ mutex \in {c \in Callers : pc[c] \in Refreshing} \union {Free}
    /\ \A c \in Callers : pc[c] # "out" => index[c] \in DOMAIN memory
    /\ fresh \in [Callers -> Tokens]
    /\ newest \in [Accounts -> 0 .. MaxRotations] /\ received \in [Accounts -> 0 .. MaxRotations]
    /\ rotations \in 0 .. MaxRotations /\ restarts \in 0 .. MaxRestarts /\ failures \in 0 .. MaxFailures

(* The token of the environment is in use, and will be after a restart. *)
Shadowed == inEnviron /\ ~hasTokenFile

(* Whatever instant the process dies at, but for the one between emptying  *)
(* and writing the file, a restart finds every account in order, each with *)
(* the token the process last used, or the rotated one for the account     *)
(* being refreshed: what persistRefreshToken writes, to whichever place,   *)
(* is what LoadConfig reads, and a later write repairs a failed one        *)
(* (auth.go:334-345, 412-432; config.go:320-348, 481-528).                 *)
CrashRisksOneToken ==
    (up /\ ~unsaved /\ ~Shadowed /\ \A c \in Callers : pc[c] # "truncated") =>
        /\ Len(Restored) = Len(memory)
        /\ \A i \in DOMAIN memory :
              \/ Restored[i] = memory[i]
              \/ \E c \in Callers :
                    mutex = c /\ index[c] = i /\ pc[c] = "saved" /\ Restored[i] = fresh[c]

(* No rotated token is forgotten while the process runs: GLM is asked with *)
(* the newest token it has handed to this process, even if that could not  *)
(* be saved, and by concurrent callers too (auth.go:265, 284-345).         *)
NewestPresented ==
    \A c \in Callers : pc[c] = "asked" => memory[index[c]][2] = received[account(c)]

(* A caller that waits for the mutex gets its turn and an answer, however  *)
(* the refreshes of others end (auth.go:261-282), unless the process dies. *)
CallersAnswered == \A c \in Callers : pc[c] = "waiting" ~> pc[c] = "out"
=============================================================================
