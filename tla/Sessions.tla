------------------------------ MODULE Sessions ------------------------------
(***************************************************************************)
(* The dashboard's sessions (internal/auth/session_store.go).  A token is  *)
(* never issued twice.  lastSeen is left out: nothing reads it.            *)
(***************************************************************************)
EXTENDS Clock

CONSTANTS
    MaxTokens,    \* bound: tokens issued
    SessionTTL    \* in ticks

ASSUME SessionAssumption == MaxTokens \in Nat /\ SessionTTL \in Nat

VARIABLES
    sessions,    \* the tokens in the map
    createdAt,   \* of each token issued, in the map or not any more
    ended        \* history: tokens that were revoked

sessionVars == <<sessions, createdAt, ended>>

Tokens == 1..MaxTokens
Never == -1
Issued == {t \in Tokens : createdAt[t] # Never}

SessionInit ==
    /\ sessions = {}
    /\ createdAt = [t \in Tokens |-> Never]
    /\ ended = {}

Create ==
    \E t \in Tokens \ Issued :
        /\ t - 1 \in Issued \cup {0}
        /\ createdAt' = [createdAt EXCEPT ![t] = now]
        /\ sessions' = sessions \cup {t}
        /\ UNCHANGED ended

TooOld(t) == now - createdAt[t] > SessionTTL

\* Faulty variant: a session lasts until cleanup removes it.
LookupUntimed(t, ok) ==
    /\ ok = (t \in sessions)
    /\ UNCHANGED sessionVars

\* Lookup, with the answer ok: the key of the session, or none.
Lookup(t, ok) ==
    /\ ok = (t \in sessions /\ ~TooOld(t))
    /\ sessions' = IF ok THEN sessions ELSE sessions \ {t}
    /\ UNCHANGED <<createdAt, ended>>

Revoke(t) ==
    /\ sessions' = sessions \ {t}
    /\ ended' = ended \cup {t}
    /\ UNCHANGED createdAt

\* cleanup of the SessionStore.
SessionCleanup ==
    /\ \E t \in sessions : TooOld(t)
    /\ sessions' = {t \in sessions : ~TooOld(t)}
    /\ UNCHANGED <<createdAt, ended>>
=============================================================================
