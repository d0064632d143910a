------------------------ MODULE DeterministicClient ------------------------
(***************************************************************************)
(* ara::exec::DeterministicClient: the first client of a process starts a  *)
(* thread, the cycle, that draws a random number every ten milliseconds    *)
(* and wakes whoever waits for it; the last client stops it.  A client     *)
(* waits in a thread of its own.  Seeds go to the cycle through an         *)
(* AtomicOptional, whose two members are written one after the other.      *)
(***************************************************************************)
EXTENDS Naturals, FiniteSets

CONSTANTS
    Clients,
    Seeds         \* what SetRandomSeed may be called with

VARIABLES
    mCounter,
    mRunning,
    mFuture,      \* where the cycle is, "none" without one or after get()
    mSeed,        \* the AtomicOptional: mValue and mHasValue
    mGenerator,   \* the seed the generator has
    mRandomNumber,\* drawn in this cycle or not, as far as a waiter can tell
    pc,           \* where each client is
    overlapped    \* of these clients two were made or destroyed at a time

detVars == <<mCounter, mRunning, mFuture, mSeed, mGenerator, mRandomNumber, pc, overlapped>>

Leaving == {"last", "stopped", "uncounted"}
Changing == {"counted", "blocked"} \cup Leaving
Places == Changing \cup {"off", "idle", "waiting", "seeding"}
CyclePlaces == {"none", "check", "seed", "reset", "draw", "notify", "sleep", "done"}

DetTypeOK ==
    /\ mCounter \in 0 .. Cardinality(Clients)
    /\ mRunning \in BOOLEAN /\ mFuture \in CyclePlaces
    /\ mSeed \in [mValue : Seeds \cup {0}, mHasValue : BOOLEAN]
    /\ mGenerator \in Seeds \cup {0}
    /\ mRandomNumber \in BOOLEAN
    /\ pc \in [Clients -> Places] /\ overlapped \in BOOLEAN

DetInit ==
    /\ mCounter = 0 /\ mRunning = FALSE /\ mFuture = "none"
    /\ mSeed = [mValue |-> 0, mHasValue |-> FALSE] /\ mGenerator = 0
    /\ mRandomNumber = FALSE
    /\ pc = [c \in Clients |-> "off"] /\ overlapped = FALSE

At(c, place) == pc[c] = place

Goto(c, place) == pc' = [pc EXCEPT ![c] = place]

\* Nothing orders constructors and destructors of different threads; whether
\* they overlap is remembered until there is neither a client nor a cycle.
Change(c) ==
    overlapped' = (overlapped \/ \E x \in Clients \ {c} : pc[x] \in Changing)

-----------------------------------------------------------------------------
(* The clients *)

\* The constructor counts ...
Construct(c) ==
    /\ At(c, "off") /\ Change(c)
    /\ mCounter' = mCounter + 1
    /\ Goto(c, "counted")
    /\ UNCHANGED <<mRunning, mFuture, mSeed, mGenerator, mRandomNumber>>

\* ... reads the counter again, and starts the cycle when it is the first.  To
\* assign over the future of a cycle that still runs is to wait for that cycle,
\* which the flag just set keeps running.
StartCycle(c) ==
    /\ At(c, "counted")
    /\ IF mCounter = 1
       THEN /\ mRunning' = TRUE
            /\ \/ mFuture \in {"none", "done"} /\ mFuture' = "check" /\ Goto(c, "idle")
               \/ mFuture \notin {"none", "done"} /\ UNCHANGED mFuture /\ Goto(c, "blocked")
       ELSE UNCHANGED <<mRunning, mFuture>> /\ Goto(c, "idle")
    /\ UNCHANGED <<mCounter, mSeed, mGenerator, mRandomNumber, overlapped>>

\* The wait has no condition: whatever notification comes next ends it.
WaitForActivation(c) ==
    /\ At(c, "idle")
    /\ Goto(c, "waiting")
    /\ UNCHANGED <<mCounter, mRunning, mFuture, mSeed, mGenerator, mRandomNumber, overlapped>>

SpuriousWakeup(c) ==
    /\ At(c, "waiting")
    /\ Goto(c, "idle")
    /\ UNCHANGED <<mCounter, mRunning, mFuture, mSeed, mGenerator, mRandomNumber, overlapped>>

\* SetRandomSeed: AtomicOptional::operator= writes the value, then the flag.
SetRandomSeed(c, seed) ==
    /\ At(c, "idle")
    /\ mSeed' = [mSeed EXCEPT !.mValue = seed]
    /\ Goto(c, "seeding")
    /\ UNCHANGED <<mCounter, mRunning, mFuture, mGenerator, mRandomNumber, overlapped>>

SetHasValue(c) ==
    /\ At(c, "seeding")
    /\ mSeed' = [mSeed EXCEPT !.mHasValue = TRUE]
    /\ Goto(c, "idle")
    /\ UNCHANGED <<mCounter, mRunning, mFuture, mGenerator, mRandomNumber, overlapped>>

\* Mutant: every client stops the cycle.
DestroyStops(c) ==
    /\ At(c, "idle") /\ Change(c)
    /\ Goto(c, "last")
    /\ UNCHANGED <<mCounter, mRunning, mFuture, mSeed, mGenerator, mRandomNumber>>

\* The destructor looks whether this is the last client ...
Destroy(c) ==
    /\ At(c, "idle") /\ Change(c)
    /\ Goto(c, IF mCounter = 1 THEN "last" ELSE "uncounted")
    /\ UNCHANGED <<mCounter, mRunning, mFuture, mSeed, mGenerator, mRandomNumber>>

\* ... which tells the cycle to end and gets its future, that is, waits until it
\* has ended ...
StopCycle(c) ==
    /\ \/ At(c, "last") /\ mRunning' = FALSE /\ Goto(c, "stopped") /\ UNCHANGED mFuture
       \/ At(c, "stopped") /\ mFuture = "done" /\ mFuture' = "none" /\ Goto(c, "uncounted")
          /\ UNCHANGED mRunning
    /\ UNCHANGED <<mCounter, mSeed, mGenerator, mRandomNumber, overlapped>>

\* (a future that was got before throws, in a destructor, and the process ends;
\* what follows is a new one) ...
GetThrows(c) == At(c, "stopped") /\ mFuture = "none"

Abort(c) ==
    /\ GetThrows(c)
    /\ mCounter' = 0 /\ mRunning' = FALSE /\ mFuture' = "none"
    /\ mSeed' = [mValue |-> 0, mHasValue |-> FALSE] /\ mGenerator' = 0
    /\ mRandomNumber' = FALSE
    /\ pc' = [x \in Clients |-> "off"] /\ overlapped' = FALSE

\* ... and counts.
Uncount(c) ==
    /\ At(c, "uncounted")
    /\ mCounter' = mCounter - 1
    /\ Goto(c, "off")
    /\ overlapped' = (overlapped /\ ~(mFuture = "none" /\ \A x \in Clients \ {c} : At(x, "off")))
    /\ UNCHANGED <<mRunning, mFuture, mSeed, mGenerator, mRandomNumber>>

-----------------------------------------------------------------------------
(* activateCycle *)

CycleTo(from, to) == mFuture = from /\ mFuture' = to

\* HasValue, then Value: the seed that is there when it is read.
ApplySeed ==
    \/ CycleTo("check", IF mRunning THEN "seed" ELSE "done")
       /\ UNCHANGED <<mSeed, mGenerator>>
    \/ CycleTo("seed", "reset") /\ mSeed.mHasValue /\ mGenerator' = mSeed.mValue
       /\ UNCHANGED mSeed
    \/ CycleTo("seed", "draw") /\ ~mSeed.mHasValue /\ UNCHANGED <<mSeed, mGenerator>>
    \/ CycleTo("reset", "draw") /\ mSeed' = [mSeed EXCEPT !.mHasValue = FALSE]
       /\ UNCHANGED mGenerator

\* The number is drawn, whoever waits is woken, and the cycle sleeps.
Activate ==
    \/ CycleTo("draw", "notify") /\ mRandomNumber' = TRUE /\ UNCHANGED pc
    \/ CycleTo("notify", "sleep") /\ UNCHANGED mRandomNumber
       /\ pc' = [c \in Clients |-> IF At(c, "waiting") THEN "idle" ELSE pc[c]]
    \/ CycleTo("sleep", "check") /\ mRandomNumber' = FALSE /\ UNCHANGED pc

activateCycle ==
    /\ \/ ApplySeed /\ UNCHANGED <<mRandomNumber, pc>>
       \/ Activate /\ UNCHANGED <<mSeed, mGenerator>>
    /\ UNCHANGED <<mCounter, mRunning, overlapped>>

ClientStep(c) ==
    StartCycle(c) \/ SetHasValue(c) \/ StopCycle(c) \/ Abort(c) \/ Uncount(c)

DetNext ==
    \/ \E c \in Clients :
          \/ Construct(c) \/ ClientStep(c) \/ WaitForActivation(c) \/ SpuriousWakeup(c) \/ Destroy(c)
          \/ \E s \in Seeds : SetRandomSeed(c, s)
    \/ activateCycle

-----------------------------------------------------------------------------
(* Properties *)

\* The calls that have to return: a destructor and SetRandomSeed however clients
\* come and go, a constructor and a wait as long as no two clients were made or
\* destroyed at a time.
Owed(c) ==
    \/ pc[c] \in Leaving \cup {"seeding"}
    \/ pc[c] \in {"counted", "blocked", "waiting"} /\ ~overlapped

\* They do, although a destructor waits for the cycle and whoever waits needs it;
\* and a destructor throws, which ends the process, only after such an overlap.
CallsReturn ==
    /\ \A c \in Clients : Owed(c) ~> ~Owed(c)
    /\ [](\A c \in Clients : GetThrows(c) => overlapped)

=============================================================================
