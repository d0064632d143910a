-------------------------- MODULE OfferedEndpoint --------------------------
(***************************************************************************)
(* The endpoint a service-discovery client was offered last, which the     *)
(* network thread stores and other threads ask for.  One std::unique_lock  *)
(* guards it, and all threads share that object: what it knows of owning   *)
(* the mutex is a plain flag that is tested before the mutex is taken, and *)
(* written after it was taken and after it was released.                   *)
(***************************************************************************)
EXTENDS Naturals

CONSTANTS
    NetworkThread,  \* the thread that receives offers
    Readers,        \* the threads that ask for the endpoint
    Endpoints,      \* endpoints a server may offer
    Nothing         \* no thread, no endpoint

ASSUME ThreadsAssumption ==
    NetworkThread \notin Readers /\ Nothing \notin Readers \cup {NetworkThread}
ASSUME EndpointsAssumption == Nothing \notin Endpoints

Threads == Readers \cup {NetworkThread}

VARIABLES
    mEndpointMutex,      \* the thread that has locked the mutex
    mOwns,               \* the flag of the unique_lock mEndpointLock
    at,                  \* where each thread is
    offer,               \* what the message handled by the network thread holds
    mOfferedIpAddress,   \* the endpoint whose address is stored
    mOfferedPort,        \* the endpoint whose port is stored
    got                  \* what each reader has been told

endpointVars == <<mEndpointMutex, mOwns, at, offer, mOfferedIpAddress, mOfferedPort, got>>

\* The options of an offer hold a TCP endpoint, or only others, or there are none.
Offers ==
    [options : {"tcp"}, endpoint : Endpoints]
        \cup [options : {"others", "none"}, endpoint : {Nothing}]

NothingRead == [ip |-> Nothing, port |-> Nothing]

EndpointTypeOK ==
    /\ mEndpointMutex \in Threads \cup {Nothing}
    /\ mOwns \in BOOLEAN
    /\ at \in [Threads -> {"ready", "lock", "acquire", "own", "first", "second", "unlock",
                           "release", "disown", "threw"}]
    /\ offer \in Offers
    /\ mOfferedIpAddress \in Endpoints \cup {Nothing}
    /\ mOfferedPort \in Endpoints \cup {Nothing}
    /\ got \in [Readers -> [ip : Endpoints \cup {Nothing}, port : Endpoints \cup {Nothing}]]

EndpointInit ==
    /\ mEndpointMutex = Nothing
    /\ mOwns = FALSE
    /\ at = [t \in Threads |-> "ready"]
    /\ offer = [options |-> "none", endpoint |-> Nothing]
    /\ mOfferedIpAddress = Nothing
    /\ mOfferedPort = Nothing
    /\ got = [r \in Readers |-> NothingRead]

-----------------------------------------------------------------------------
(* std::unique_lock, used by several threads *)

Goes(t, to) == at' = [at EXCEPT ![t] = to]

\* lock throws when the flag says that the mutex is owned, whoever owns it.
TestOwns(t) ==
    /\ at[t] = "lock"
    /\ Goes(t, IF mOwns THEN "threw" ELSE "acquire")
    /\ UNCHANGED <<mEndpointMutex, mOwns, offer, mOfferedIpAddress, mOfferedPort, got>>

\* Mutant: the flag alone is trusted, and the mutex is not waited for.
AcquireAnyway(t) ==
    /\ at[t] = "acquire"
    /\ mEndpointMutex' = t
    /\ Goes(t, "own")
    /\ UNCHANGED <<mOwns, offer, mOfferedIpAddress, mOfferedPort, got>>

\* A mutex that was never released blocks for ever, also the thread that has it.
Acquire(t) ==
    /\ at[t] = "acquire" /\ mEndpointMutex = Nothing
    /\ mEndpointMutex' = t
    /\ Goes(t, "own")
    /\ UNCHANGED <<mOwns, offer, mOfferedIpAddress, mOfferedPort, got>>

Own(t) ==
    /\ at[t] = "own"
    /\ mOwns' = TRUE
    /\ Goes(t, "first")
    /\ UNCHANGED <<mEndpointMutex, offer, mOfferedIpAddress, mOfferedPort, got>>

\* unlock throws, with the mutex still locked, when another thread has just
\* written the flag.
TestUnlock(t) ==
    /\ at[t] = "unlock"
    /\ Goes(t, IF mOwns THEN "release" ELSE "threw")
    /\ UNCHANGED <<mEndpointMutex, mOwns, offer, mOfferedIpAddress, mOfferedPort, got>>

Release(t) ==
    /\ at[t] = "release"
    /\ mEndpointMutex' = Nothing
    /\ Goes(t, "disown")
    /\ UNCHANGED <<mOwns, offer, mOfferedIpAddress, mOfferedPort, got>>

Disown(t) ==
    /\ at[t] = "disown"
    /\ mOwns' = FALSE
    /\ Goes(t, "ready")
    /\ UNCHANGED <<mEndpointMutex, offer, mOfferedIpAddress, mOfferedPort, got>>

-----------------------------------------------------------------------------
(* The network thread: receiveSdMessage *)

receiveSdMessage(message) ==
    /\ at[NetworkThread] = "ready"
    /\ offer' = message
    /\ Goes(NetworkThread, "lock")
    /\ UNCHANGED <<mEndpointMutex, mOwns, mOfferedIpAddress, mOfferedPort, got>>

\* The loop over the options has no end: without a TCP endpoint among them it
\* throws past the last one, and nobody unlocks.
tryExtractOfferedEndpoint ==
    /\ at[NetworkThread] = "first"
    /\ Goes(NetworkThread, CASE offer.options = "tcp"    -> "second"
                       [] offer.options = "others" -> "threw"
                       [] offer.options = "none"   -> "unlock")
    /\ mOfferedIpAddress' = IF offer.options = "tcp" THEN offer.endpoint ELSE mOfferedIpAddress
    /\ UNCHANGED <<mEndpointMutex, mOwns, offer, mOfferedPort, got>>

StorePort ==
    /\ at[NetworkThread] = "second"
    /\ mOfferedPort' = offer.endpoint
    /\ Goes(NetworkThread, "unlock")
    /\ UNCHANGED <<mEndpointMutex, mOwns, offer, mOfferedIpAddress, got>>

-----------------------------------------------------------------------------
(* The reading threads: TryGetOfferedEndpoint *)

TryGet(r) ==
    /\ at[r] = "ready"
    /\ got' = [got EXCEPT ![r] = NothingRead]
    /\ Goes(r, "lock")
    /\ UNCHANGED <<mEndpointMutex, mOwns, offer, mOfferedIpAddress, mOfferedPort>>

\* A reader is told of an endpoint when both halves are set.
CopyAddress(r) ==
    /\ at[r] = "first"
    /\ IF mOfferedIpAddress # Nothing /\ mOfferedPort # Nothing
       THEN Goes(r, "second") /\ got' = [got EXCEPT ![r].ip = mOfferedIpAddress]
       ELSE Goes(r, "unlock") /\ UNCHANGED got
    /\ UNCHANGED <<mEndpointMutex, mOwns, offer, mOfferedIpAddress, mOfferedPort>>

CopyPort(r) ==
    /\ at[r] = "second"
    /\ got' = [got EXCEPT ![r].port = mOfferedPort]
    /\ Goes(r, "unlock")
    /\ UNCHANGED <<mEndpointMutex, mOwns, offer, mOfferedIpAddress, mOfferedPort>>

-----------------------------------------------------------------------------
EndpointLock(t) ==
    \/ TestOwns(t) \/ Acquire(t) \/ Own(t)
    \/ TestUnlock(t) \/ Release(t) \/ Disown(t)

EndpointNext ==
    \/ \E t \in Threads : EndpointLock(t)
    \/ \E message \in Offers : receiveSdMessage(message)
    \/ tryExtractOfferedEndpoint
    \/ StorePort
    \/ \E r \in Readers : TryGet(r) \/ CopyAddress(r) \/ CopyPort(r)

EndpointSpec == EndpointInit /\ [][EndpointNext]_endpointVars

-----------------------------------------------------------------------------
(* Properties *)

\* Whatever the flag of the shared unique_lock says, and whoever threw with the
\* mutex locked: nobody is told the address of one offer with the port of
\* another.
EndpointIsWhole == \A r \in Readers : got[r].port # Nothing => got[r].ip = got[r].port

=============================================================================
