---------------------------- MODULE SignedRouter ----------------------------
(***************************************************************************)
(* Signed invocations: BinaryTrieRouter::execute_signed_authorized         *)
(* (src/src/dispatch/router.rs) with the NonceStore of                     *)
(* src/src/security/replay.rs.  Anyone may present a signed invocation any *)
(* number of times, at any time, altered or not, while the clock advances, *)
(* the negotiated capabilities change and old nonces are cleaned up.       *)
(* Ed25519 and Blake3 are external: whether a signature verifies and a     *)
(* hash matches is an input.  The clock does not go back.                  *)
(***************************************************************************)
EXTENDS Integers, FiniteSets

CONSTANTS
    Invocations,      \* records [tool, nonce, timestamp]: what the client signed
    MaxNonces, ExpirationSecs, ClockSkew,
    MaxToolId,        \* u16::MAX
    Registered,       \* tool ids with a handler
    MaxNow            \* bound: the clock

ASSUME InvocationsAssumption ==
    \A inv \in Invocations : inv.timestamp \in Nat

ASSUME WindowAssumption ==
    ExpirationSecs \in Nat /\ ClockSkew \in Nat /\ MaxNonces \in Nat /\ MaxNow \in Nat

VARIABLES
    now,
    nonces,           \* NonceStore.nonces: nonce -> timestamp
    granted,          \* tool ids of the negotiated manifest
    passed, executed  \* history: how often an invocation passed the replay
                      \* check, and how often its handler ran

signedVars == <<now, nonces, granted, passed, executed>>

SignedInit ==
    /\ now = 0
    /\ nonces = [n \in {} |-> 0]
    /\ granted = {}
    /\ passed = [inv \in Invocations |-> 0]
    /\ executed = [inv \in Invocations |-> 0]

\* is_expired
IsExpired(timestamp) ==
    IF timestamp > now THEN timestamp > now + ClockSkew
    ELSE now - timestamp > ExpirationSecs

\* Mutant: a nonce is dropped while its timestamp is still acceptable.
KeptEarly(timestamp) == timestamp > now \/ now - timestamp < ExpirationSecs

\* cleanup_expired keeps an entry; the subtraction saturates at zero.
Kept(timestamp) == timestamp > now \/ now - timestamp <= ExpirationSecs

AfterCleanup == [n \in {k \in DOMAIN nonces : Kept(nonces[k])} |-> nonces[n]]

Full(store) == Cardinality(DOMAIN store) >= MaxNonces

\* check_nonce: the store it cleans up when it is full ...
CheckedStore == IF Full(nonces) THEN AfterCleanup ELSE nonces

\* ... the test ...
NonceFresh(inv) ==
    /\ ~IsExpired(inv.timestamp)
    /\ inv.nonce \notin DOMAIN nonces
    /\ ~Full(CheckedStore)

\* ... and what it leaves behind, also when it refuses for lack of room.
StoreAfter(inv) ==
    IF IsExpired(inv.timestamp) \/ inv.nonce \in DOMAIN nonces THEN nonces
    ELSE IF Full(CheckedStore) THEN CheckedStore
    ELSE [n \in DOMAIN CheckedStore \cup {inv.nonce} |->
             IF n = inv.nonce THEN inv.timestamp ELSE CheckedStore[n]]

\* validate_authorized_tool
Authorized(tool, args_valid) == tool \in granted /\ tool \in Registered /\ args_valid

\* execute_signed_authorized, with its checks in order.  One whose signature,
\* hash or tool id fails leaves no trace.
Present(inv, signature_ok, hash_ok, args_valid) ==
    /\ signature_ok /\ hash_ok /\ inv.tool <= MaxToolId
    /\ nonces' = StoreAfter(inv)
    /\ \/ ~NonceFresh(inv) /\ UNCHANGED <<passed, executed>>
       \/ /\ NonceFresh(inv)
          /\ passed' = [passed EXCEPT ![inv] = @ + 1]
          /\ executed' = [executed EXCEPT ![inv] =
                             IF Authorized(inv.tool, args_valid) THEN @ + 1 ELSE @]
    /\ UNCHANGED <<now, granted>>

CleanupExpired ==
    /\ nonces' = AfterCleanup
    /\ UNCHANGED <<now, granted, passed, executed>>

Tick ==
    /\ now < MaxNow                     \* bound
    /\ now' = now + 1
    /\ UNCHANGED <<nonces, granted, passed, executed>>

\* Another manifest is negotiated; it may grant more or less.
Renegotiate(tools) ==
    /\ granted' = tools
    /\ UNCHANGED <<now, nonces, passed, executed>>

SignedNext ==
    \/ \E inv \in Invocations, signature_ok, hash_ok, args_valid \in BOOLEAN :
          Present(inv, signature_ok, hash_ok, args_valid)
    \/ CleanupExpired
    \/ Tick
    \/ \E tools \in SUBSET Registered : Renegotiate(tools)

SignedSpec == SignedInit /\ [][SignedNext]_signedVars

----------------------------------------------------------------------------
(* Properties *)

\* An invocation passes the replay check at most once, however long it is kept
\* and however often the store is cleaned up in between; so its handler runs
\* at most once, and one that was denied cannot run after the permissions
\* have been broadened.
NeverTwice == \A inv \in Invocations : passed[inv] <= 1 /\ executed[inv] <= passed[inv]

\* Why: an invocation that passed is remembered under its nonce, until its
\* timestamp is no longer acceptable.
PassedIsRemembered ==
    \A inv \in Invocations :
        passed[inv] > 0 =>
            \/ inv.nonce \in DOMAIN nonces /\ nonces[inv.nonce] = inv.timestamp
            \/ now - inv.timestamp > ExpirationSecs

SignedTypeOK ==
    /\ now \in Nat
    /\ nonces \in [DOMAIN nonces -> Nat]
    /\ passed \in [Invocations -> Nat]
    /\ executed \in [Invocations -> Nat]

SignedInv == SignedTypeOK /\ NeverTwice /\ PassedIsRemembered
=============================================================================
