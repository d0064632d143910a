--------------------------- MODULE VehicleStatus ---------------------------
(***************************************************************************)
(* The extended vehicle publishes its status, and watchdogs on other       *)
(* machines listen for it.  The module composes the event group of PubSub  *)
(* with the life of both applications (main, which polls until SIGTERM and *)
(* then calls Terminate, and Main, which runs in a thread of its own), the *)
(* generated skeleton and proxy, and the storage each application logs to. *)
(***************************************************************************)
EXTENDS PubSub, KeyValueStorage

CONSTANT Vehicle    \* the owner of the vehicle's storage

ASSUME OwnersAssumption == Owners = Clients \cup {Vehicle} /\ Vehicle \notin Clients
ASSUME EntriesAssumption == {"log", "event"} \subseteq Values

VARIABLES
    evPc,          \* where Main of the vehicle is
    polling,       \* whether main of each process still polls
    evToken,       \* mCancellationToken of the vehicle
    waPc,          \* where Main of each watchdog is
    waCallback,    \* where the poller of each watchdog is in onEventReceived
    mExpiredLogged,
    mFirstEventReceived,
    mLogCounter    \* of each application

evVars == <<evPc, evToken>>
waVars == <<waPc, waCallback, mExpiredLogged, mFirstEventReceived>>
vars == <<psVars, store, evVars, polling, waVars, mLogCounter>>

EvReceiving == {"constructed", "unoffered", "running", "leaving", "stopping", "stopped",
                "syncing", "renaming", "done"}
EvStopped == {"stopped", "syncing", "renaming", "done"}
WaWatching == {"handling", "started", "loop", "expired", "write", "count", "sync", "writing", "renaming"}

TypeOK ==
    /\ PubSubTypeOK /\ StoreTypeOK
    /\ evPc \in EvReceiving \cup {"off", "constructing", "failed"}
    /\ polling \in [Owners -> BOOLEAN]
    /\ evToken \in BOOLEAN
    /\ waPc \in [Clients -> WaWatching \cup {"off", "proxied", "opened"}]
    /\ waCallback \in [Clients -> {"idle", "write", "count"}]
    /\ mExpiredLogged \in [Clients -> BOOLEAN]
    /\ mFirstEventReceived \in [Clients -> BOOLEAN]
    /\ \A o \in Owners : mLogCounter[o] \in 0 .. MaxLog[o]

Init ==
    /\ PubSubInit /\ StoreInit
    /\ evPc = "off"
    /\ polling = [o \in Owners |-> FALSE]
    /\ evToken = FALSE
    /\ waPc = [w \in Clients |-> "off"]
    /\ waCallback = [w \in Clients |-> "idle"]
    /\ mExpiredLogged = [w \in Clients |-> FALSE]
    /\ mFirstEventReceived = [w \in Clients |-> FALSE]
    /\ mLogCounter = [o \in Owners |-> 0]

\* The counter of log entries, followed as far as the keys are.
Advance(o) == mLogCounter' = [mLogCounter EXCEPT ![o] = IF @ < MaxLog[o] THEN @ + 1 ELSE @]

\* persistLog: an entry under the next number, when there is a storage.
persistLog(o, entry) ==
    IF IsOpen(o) THEN SetValue(o, mLogCounter[o], entry) /\ Advance(o)
                 ELSE UNCHANGED <<store, mLogCounter>>

-----------------------------------------------------------------------------
(* The extended vehicle *)

\* main starts Main in a thread and polls; Main opens the storage.
EvInitialize ==
    /\ evPc = "off"
    /\ evPc' = "constructing"
    /\ polling' = [polling EXCEPT ![Vehicle] = TRUE]
    /\ Open(Vehicle)
    /\ UNCHANGED <<psVars, evToken, waVars, mLogCounter>>

\* The skeleton is constructed from its manifest: from here on requests arrive.
EvConstruct ==
    /\ evPc = "constructing"
    /\ evPc' = "constructed"
    /\ persistLog(Vehicle, "log")
    /\ UNCHANGED <<psVars, evToken, polling, waVars>>

\* A socket of the skeleton or of the DoIP server cannot be set up: Main
\* returns, main goes on polling, and a skeleton that exists goes on answering.
EvConstructFails ==
    /\ \/ evPc = "constructing" /\ evPc' = "failed"
       \/ evPc = "constructed" /\ evPc' = "unoffered"
    /\ UNCHANGED <<psVars, store, evToken, polling, waVars, mLogCounter>>

\* OfferService.
EvOffer ==
    /\ evPc = "constructed"
    /\ Start
    /\ evPc' = "running"
    /\ UNCHANGED <<store, evToken, polling, waVars, mLogCounter>>

\* A heartbeat of the loop: the entry is logged and the status published.
EvHeartbeat ==
    /\ evPc = "running"
    /\ Publish \/ (mCurrentState # "Subscribed" /\ UNCHANGED psVars)
    /\ persistLog(Vehicle, "log")
    /\ UNCHANGED <<evVars, polling, waVars>>

\* The poller runs its callbacks while main polls, and ends the one it is in.
EvPoll ==
    /\ polling[Vehicle] \/ request # NoRequest
    /\ evPc \in EvReceiving
    /\ ServerPoller
    /\ UNCHANGED <<store, evVars, polling, waVars, mLogCounter>>

\* SIGTERM or SIGINT, of either application: main polls no more.
onSignal(o) ==
    /\ polling[o]
    /\ polling' = [polling EXCEPT ![o] = FALSE]
    /\ UNCHANGED <<psVars, store, evVars, waVars, mLogCounter>>

\* Mutant: the token is set while the poller may still be in a callback.
TerminatePolling ==
    /\ evPc # "off" /\ ~evToken
    /\ evToken' = TRUE
    /\ UNCHANGED <<psVars, store, evPc, polling, waVars, mLogCounter>>

\* Terminate, after the last callback has returned.
Terminate ==
    /\ evPc # "off" /\ ~polling[Vehicle] /\ ~evToken /\ request = NoRequest
    /\ evToken' = TRUE
    /\ UNCHANGED <<psVars, store, evPc, polling, waVars, mLogCounter>>

\* Mutant: the loop goes on until the service is down, which only it can bring about.
EvLeavesLoopNever ==
    /\ evPc = "running" /\ evToken /\ mCurrentState = "ServiceDown"
    /\ evPc' = "leaving"
    /\ persistLog(Vehicle, "log")
    /\ UNCHANGED <<psVars, evToken, polling, waVars>>

EvLeavesLoop ==
    /\ evPc = "running" /\ evToken
    /\ evPc' = "leaving"
    /\ persistLog(Vehicle, "log")
    /\ UNCHANGED <<psVars, evToken, polling, waVars>>

\* StopOfferService: the event group is stopped, the discovery server deleted.
EvStopReads ==
    /\ evPc = "leaving"
    /\ StopReads
    /\ evPc' = "stopping"
    /\ UNCHANGED <<store, evToken, polling, waVars, mLogCounter>>

EvStopActs ==
    /\ evPc = "stopping"
    /\ StopActs
    /\ evPc' = "stopped"
    /\ persistLog(Vehicle, "log")
    /\ UNCHANGED <<evToken, polling, waVars>>

\* The last save, unless there is no storage or its temporary file cannot be
\* opened.
EvSync ==
    /\ \/ evPc = "stopped" /\ IsOpen(Vehicle) /\ SyncBegins(Vehicle) /\ evPc' = "syncing"
       \/ evPc = "stopped" /\ UNCHANGED store /\ evPc' = "done"
       \/ evPc = "syncing" /\ SyncWritten(Vehicle) /\ evPc' = "renaming"
       \/ evPc = "renaming" /\ SyncRenamed(Vehicle) /\ evPc' = "done"
       \/ evPc \in {"syncing", "renaming"} /\ SyncFails(Vehicle) /\ evPc' = "done"
    /\ UNCHANGED <<psVars, evToken, polling, waVars, mLogCounter>>

\* The process is gone, and with it everything that was not saved or sent.
EvGone ==
    /\ evPc' = "off"
    /\ evToken' = FALSE
    /\ polling' = [polling EXCEPT ![Vehicle] = FALSE]
    /\ mLogCounter' = [mLogCounter EXCEPT ![Vehicle] = 0]
    /\ CloseStorage(Vehicle)
    /\ mCurrentState' = "ServiceDown" /\ mSubscriptionCounter' = 0 /\ mSessionId' = 1
    /\ stopping' = "no" /\ request' = NoRequest /\ mSendingQueue' = {} /\ mEventQueue' = FALSE
    /\ subscribers' = {} /\ stray' = FALSE
    /\ UNCHANGED <<net, clientVars, waVars>>

EvExit == evPc \in {"done", "failed", "unoffered"} /\ evToken /\ EvGone

EvKilled == evPc # "off" /\ EvGone

EvMain ==
    \/ EvConstruct \/ EvConstructFails \/ EvOffer \/ EvLeavesLoop \/ EvStopReads
    \/ EvStopActs \/ EvSync \/ EvExit

-----------------------------------------------------------------------------
(* The watchdogs *)

\* Main constructs the proxy, which subscribes, once, whoever listens.  (When a
\* socket fails, Main ends with an exception and the watchdog stays off.)
WaConnect(w) ==
    /\ waPc[w] = "off"
    /\ Subscribe(w)
    /\ waPc' = [waPc EXCEPT ![w] = "proxied"]
    /\ polling' = [polling EXCEPT ![w] = TRUE]
    /\ UNCHANGED <<store, evVars, waCallback, mExpiredLogged, mFirstEventReceived, mLogCounter>>

WaOpen(w) ==
    /\ waPc[w] = "proxied"
    /\ Open(w)
    /\ waPc' = [waPc EXCEPT ![w] = "opened"]
    /\ UNCHANGED <<psVars, evVars, polling, waCallback, mExpiredLogged,
                   mFirstEventReceived, mLogCounter>>

\* The number of an entry is read and written: when the other thread does the
\* same, one of the two may be lost.
Count(w, meanwhile) == Advance(w) \/ (meanwhile /\ UNCHANGED mLogCounter)

\* The handler is set, an entry is written, and the loop begins.
WaStart(w) ==
    /\ \/ /\ waPc[w] = "opened"
          /\ waPc' = [waPc EXCEPT ![w] = IF IsOpen(w) THEN "handling" ELSE "loop"]
          /\ UNCHANGED <<store, mLogCounter>>
       \/ /\ waPc[w] = "handling"
          /\ SetValue(w, mLogCounter[w], "log")
          /\ waPc' = [waPc EXCEPT ![w] = "started"]
          /\ UNCHANGED mLogCounter
       \/ /\ waPc[w] = "started"
          /\ Count(w, waCallback[w] = "count")
          /\ waPc' = [waPc EXCEPT ![w] = "loop"]
          /\ UNCHANGED store
    /\ UNCHANGED <<psVars, evVars, polling, waCallback, mExpiredLogged,
                   mFirstEventReceived>>

\* onEventReceived, in the poller's thread: first the flags ...
onEventReceived(w) ==
    /\ polling[w] /\ waCallback[w] = "idle" /\ waPc[w] # "off"
    /\ receiveEvent(w)
    /\ IF waPc[w] \in WaWatching
       THEN /\ mExpiredLogged' = [mExpiredLogged EXCEPT ![w] = FALSE]
            /\ mFirstEventReceived' = [mFirstEventReceived EXCEPT ![w] = TRUE]
            /\ waCallback' = [waCallback EXCEPT ![w] = IF IsOpen(w) THEN "write" ELSE "idle"]
       ELSE UNCHANGED <<mExpiredLogged, mFirstEventReceived, waCallback>>
    /\ UNCHANGED <<store, evVars, polling, waPc, mLogCounter>>

\* ... then an entry, in two steps that Main can come between, also while it
\* saves.
WaEventWrite(w) ==
    /\ waCallback[w] = "write"
    /\ SetValue(w, mLogCounter[w], "event")
    /\ waCallback' = [waCallback EXCEPT ![w] = "count"]
    /\ UNCHANGED <<psVars, evVars, polling, waPc, mExpiredLogged, mFirstEventReceived, mLogCounter>>

WaEventCount(w) ==
    /\ waCallback[w] = "count"
    /\ Count(w, waPc[w] \in {"started", "count"})
    /\ waCallback' = [waCallback EXCEPT ![w] = "idle"]
    /\ UNCHANGED <<psVars, store, evVars, polling, waPc, mExpiredLogged,
                   mFirstEventReceived>>

\* The loop finds that the timeout is over, which it may be at any turn, ...
WaExpired(w) ==
    /\ waPc[w] = "loop" /\ ~mExpiredLogged[w] /\ mFirstEventReceived[w]
    /\ waPc' = [waPc EXCEPT ![w] = "expired"]
    /\ UNCHANGED <<psVars, store, evVars, polling, waCallback, mExpiredLogged,
                   mFirstEventReceived, mLogCounter>>

\* ... notes that it has, whatever happened in between ...
WaNoted(w) ==
    /\ waPc[w] = "expired"
    /\ mExpiredLogged' = [mExpiredLogged EXCEPT ![w] = TRUE]
    /\ waPc' = [waPc EXCEPT ![w] = IF IsOpen(w) THEN "write" ELSE "loop"]
    /\ UNCHANGED <<psVars, store, evVars, polling, waCallback, mFirstEventReceived, mLogCounter>>

\* ... and saves an entry.
WaSave(w) ==
    /\ \/ /\ waPc[w] = "write"
          /\ SetValue(w, mLogCounter[w], "log")
          /\ waPc' = [waPc EXCEPT ![w] = "count"]
          /\ UNCHANGED mLogCounter
       \/ /\ waPc[w] = "count"
          /\ Count(w, waCallback[w] = "count")
          /\ waPc' = [waPc EXCEPT ![w] = "sync"]
          /\ UNCHANGED store
       \/ /\ waPc[w] = "sync"
          /\ SyncBegins(w)
          /\ waPc' = [waPc EXCEPT ![w] = "writing"]
          /\ UNCHANGED mLogCounter
       \/ /\ waPc[w] = "writing"
          /\ SyncWritten(w)
          /\ waPc' = [waPc EXCEPT ![w] = "renaming"]
          /\ UNCHANGED mLogCounter
       \/ /\ waPc[w] = "renaming"
          /\ SyncRenamed(w)
          /\ waPc' = [waPc EXCEPT ![w] = "loop"]
          /\ UNCHANGED mLogCounter
       \/ /\ waPc[w] = "sync"
          /\ waPc' = [waPc EXCEPT ![w] = "loop"]
          /\ UNCHANGED <<store, mLogCounter>>
       \/ /\ waPc[w] \in {"writing", "renaming"}
          /\ SyncFails(w)
          /\ waPc' = [waPc EXCEPT ![w] = "loop"]
          /\ UNCHANGED mLogCounter
    /\ UNCHANGED <<psVars, evVars, polling, waCallback, mExpiredLogged,
                   mFirstEventReceived>>

\* Main looks at nothing that would end its loop: only a kill ends a watchdog.
WaKilled(w) ==
    /\ waPc[w] # "off"
    /\ waPc' = [waPc EXCEPT ![w] = "off"]
    /\ polling' = [polling EXCEPT ![w] = FALSE]
    /\ waCallback' = [waCallback EXCEPT ![w] = "idle"]
    /\ mExpiredLogged' = [mExpiredLogged EXCEPT ![w] = FALSE]
    /\ mFirstEventReceived' = [mFirstEventReceived EXCEPT ![w] = FALSE]
    /\ mLogCounter' = [mLogCounter EXCEPT ![w] = 0]
    /\ CloseStorage(w)
    /\ UNCHANGED <<psVars, evVars>>

WaMain(w) == WaOpen(w) \/ WaStart(w) \/ WaExpired(w) \/ WaNoted(w) \/ WaSave(w)

WaPoller(w) == onEventReceived(w) \/ WaEventWrite(w) \/ WaEventCount(w)

-----------------------------------------------------------------------------
Next ==
    \/ EvInitialize \/ EvMain \/ EvHeartbeat \/ EvPoll \/ Terminate \/ EvKilled
    \/ \E o \in Owners : onSignal(o)
    \/ \E w \in Clients :
           WaConnect(w) \/ WaMain(w) \/ WaPoller(w) \/ WaKilled(w)

Spec == Init /\ [][Next]_vars

\* The threads of the vehicle run; nobody has to start, signal or kill it.
Fairness ==
    WF_vars(EvMain) /\ WF_vars(EvPoll) /\ WF_vars(Terminate)

FairSpec == Spec /\ Fairness

-----------------------------------------------------------------------------
(* Properties *)

\* After StopOfferService the event group is down, although Stop acts on a
\* state it has read before: main has stopped polling by then, and no request
\* can come between.
StoppedIsDown == evPc \in EvStopped => mCurrentState = "ServiceDown"

\* Each storage is an atomic one: whenever its process is killed, in the middle
\* of a save too, the next one opens what was saved last; and what a save leaves
\* is all of the map, unless the other thread changed the map meanwhile.
Atomic == INSTANCE AtomicStorage WITH
              memory <- [o \in Owners |-> store[o].root],
              copying <- [o \in Owners |-> store[o].walk],
              durable <- [o \in Owners |-> store[o].file],
              copy <- [o \in Owners |-> IF store[o].tmp = Torn THEN Missing ELSE store[o].tmp]
StorageIsAtomic == Atomic!Spec

\* A vehicle that was signalled ends, whatever it was doing: its poller comes
\* back from the callback it is in, and Main looks at the token.
VehicleTerminates == evPc # "off" /\ ~polling[Vehicle] ~> evPc = "off"

=============================================================================
