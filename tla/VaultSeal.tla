------------------------------ MODULE VaultSeal ------------------------------
(***************************************************************************)
(* The seal handler of the core service: it initialises Vault, keeps the   *)
(* keys in a Kubernetes secret, unseals Vault, and goes on unsealing it.   *)
(* The service starts when the first attempt succeeds, and exits otherwise *)
(* to be started again.                                                    *)
(***************************************************************************)
EXTENDS Naturals

CONSTANT MaxStop      \* bound: how often the core service is stopped from outside

ASSUME SealAssumption == MaxStop \in Nat

VARIABLES
    vault,       \* uninitialised, sealed or unsealed
    secret,      \* the keys are in the secret
    core,        \* what the core service does
    checker,     \* what its unseal checker does
    stops        \* how often it was stopped

sealVars == <<vault, secret, core, checker, stops>>

SealInit ==
    /\ vault = "uninitialised" /\ secret = FALSE
    /\ core = "down" /\ checker = "none" /\ stops = 0

\* The process ends, and its goroutine with it.
Exit == core' = "down" /\ checker' = "none"

StartCore ==
    /\ core = "down"
    /\ core' = "init"
    /\ UNCHANGED <<vault, secret, checker, stops>>

---------------------------------------------------------------------------
(* initVault *)

\* TryInit has initialised Vault: the keys are in the memory of the service only.
TryInit ==
    /\ core = "init" /\ vault = "uninitialised"
    /\ vault' = "sealed"
    /\ core' = "store"
    /\ UNCHANGED <<secret, checker, stops>>

InitFails ==
    /\ core = "init"
    /\ Exit
    /\ UNCHANGED <<vault, secret, stops>>

StoreKeys ==
    /\ core = "store"
    /\ secret' = TRUE
    /\ core' = "wait" /\ checker' = "first"
    /\ UNCHANGED <<vault, stops>>

StoreKeysFails ==
    /\ core = "store"
    /\ Exit
    /\ UNCHANGED <<vault, secret, stops>>

\* Vault was initialised before: the service goes on if the secret is there.
VerifySecret ==
    /\ core = "init" /\ vault # "uninitialised" /\ secret
    /\ core' = "wait" /\ checker' = "first"
    /\ UNCHANGED <<vault, secret, stops>>

SecretMissing ==
    /\ core = "init" /\ vault # "uninitialised" /\ ~secret
    /\ Exit
    /\ UNCHANGED <<vault, secret, stops>>

---------------------------------------------------------------------------
(* unsealChecker and Start, which waits for its signal. *)

\* The secret cannot be read now: the channel is closed and Start fails.
GetKeysFails ==
    /\ core = "wait" /\ checker = "first"
    /\ Exit
    /\ UNCHANGED <<vault, secret, stops>>

FirstUnseal ==
    /\ core = "wait" /\ checker = "first"
    /\ vault' = "unsealed"
    /\ core' = "ready" /\ checker' = "loop"
    /\ UNCHANGED <<secret, stops>>

FirstUnsealFails ==
    /\ core = "wait" /\ checker = "first"
    /\ checker' = "loop"
    /\ UNCHANGED <<vault, secret, core, stops>>

\* Every minute.  Nothing is signalled here, so Start does not hear of it.
PeriodicUnseal ==
    /\ checker = "loop" /\ vault = "sealed"
    /\ vault' = "unsealed"
    /\ UNCHANGED <<secret, core, checker, stops>>

\* Mutant: Start does not give up while Vault is unsealed.
StartTimesOutIfSealed ==
    /\ core = "wait" /\ checker = "loop" /\ vault = "sealed"
    /\ Exit
    /\ UNCHANGED <<vault, secret, stops>>

\* initialUnsealTimeout
StartTimesOut ==
    /\ core = "wait" /\ checker = "loop"
    /\ Exit
    /\ UNCHANGED <<vault, secret, stops>>

---------------------------------------------------------------------------
(* The environment. *)

VaultRestarts ==
    /\ vault = "unsealed"
    /\ vault' = "sealed"
    /\ UNCHANGED <<secret, core, checker, stops>>

StopCore ==
    /\ core # "down" /\ stops < MaxStop
    /\ stops' = stops + 1
    /\ Exit
    /\ UNCHANGED <<vault, secret>>

SealNext ==
    \/ StartCore \/ TryInit \/ InitFails \/ StoreKeys \/ StoreKeysFails
    \/ VerifySecret \/ SecretMissing \/ GetKeysFails
    \/ FirstUnseal \/ FirstUnsealFails \/ PeriodicUnseal \/ StartTimesOut
    \/ VaultRestarts \/ StopCore

---------------------------------------------------------------------------
SealTypeOK ==
    /\ vault \in {"uninitialised", "sealed", "unsealed"}
    /\ secret \in BOOLEAN
    /\ core \in {"down", "init", "store", "wait", "ready"}
    /\ checker \in {"none", "first", "loop"}
    /\ stops \in Nat

\* Whenever the core service is started it comes up in the end, though a failed first attempt
\* to unseal Vault is never made up for in the same process: unless Vault was initialised and
\* the keys were not stored, after which no start ever succeeds.
ComesUp ==
    core = "init" ~> core = "ready" \/ (core = "down" /\ vault # "uninitialised" /\ ~secret)
=============================================================================
