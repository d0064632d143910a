----------------------------- MODULE WireProofs -----------------------------
(***************************************************************************)
(* Proofs about what is sent as bytes: the session id of SomeIpMessages,   *)
(* whatever its width; the stream of requests, whatever they are and       *)
(* however it is cut; the service-discovery messages with their entries    *)
(* and options, likewise; and the FIFO of CheckpointChannel, whatever is   *)
(* lost and whichever byte changes.  And about HealthManagement,           *)
(* which gets those checkpoints, for every tolerance, every range of       *)
(* expected indications and every width of the indication counter.         *)
(*                                                                         *)
(* An induction over data is one over a set of numbers: it rests on the    *)
(* theorem of the library that a well-founded relation has minima.         *)
(***************************************************************************)
EXTENDS HealthManagement, CheckpointChannel, TLAPS, WellFoundedInduction

-----------------------------------------------------------------------------
(* HealthManagement *)

\* An expired update, which a worker may apply much later, blames a
\* supervision that has expired and so stays expired.
UpdateIsSound ==
    \A s \in Supervisions :
        reporting[s].at = "update" /\ reporting[s].status = kExpired
            => status[reporting[s].type] = kExpired

\* The alive worker stops with the cycle that uses up its tolerance.
CounterBelowTolerance ==
    alive # "stopped" => mAliveCounter < FailedReferenceCyclesTolerance

IInv ==
    /\ TypeOK
    /\ CounterBelowTolerance
    /\ UpdateIsSound
    /\ BlamedIsExpired

-----------------------------------------------------------------------------
\* The invariant holds when the alive supervision has just been constructed.
LEMMA InitIInv == Init => IInv
  BY AliveAssumption, SMTT(30)
  DEF Init, IInv, TypeOK, CounterBelowTolerance, UpdateIsSound, BlamedIsExpired,
      Supervisions, SupervisionStatus, kDeactivated, kOk, kFailed, kExpired, Phases

\* A report of the workers keeps the types, and no status that has expired
\* changes: Report refuses to leave kExpired.
LEMMA ReportKeeps ==
  ASSUME TypeOK, NEW s \in Supervisions, NEW new \in SupervisionStatus, Report(s, new),
         UpdateIsSound, BlamedIsExpired, UNCHANGED recovered
  PROVE  /\ status' \in [Supervisions -> SupervisionStatus]
         /\ reporting' \in [Supervisions ->
              [at : {"no", "callback", "update"}, status : SupervisionStatus,
               type : Supervisions]]
         /\ UpdateIsSound'
         /\ BlamedIsExpired'
  <1>1. status' \in [Supervisions -> SupervisionStatus]
    BY DEF TypeOK, Report
  <1>2. reporting' \in [Supervisions ->
              [at : {"no", "callback", "update"}, status : SupervisionStatus,
               type : Supervisions]]
    BY DEF TypeOK, Report
  <1>3. \A t \in Supervisions : status[t] = kExpired => status'[t] = kExpired
    BY DEF TypeOK, Report
  <1>4. \A t \in Supervisions :
          /\ reporting'[t].at = "update" => reporting[t].at = "update"
          /\ reporting'[t].status = reporting[t].status
          /\ reporting'[t].type = reporting[t].type
          /\ reporting[t].type \in Supervisions
    BY DEF TypeOK, Report
  <1>5. UpdateIsSound'
    BY <1>3, <1>4 DEF UpdateIsSound
  <1>6. BlamedIsExpired'
    BY <1>3 DEF BlamedIsExpired, TypeOK
  <1> QED
    BY <1>1, <1>2, <1>5, <1>6

\* getGlobalUpdate names a supervision that has the status it returns.
LEMMA GlobalUpdateSound ==
  ASSUME TypeOK
  PROVE  /\ GlobalUpdate.status \in SupervisionStatus
         /\ GlobalUpdate.type \in Supervisions
         /\ status[GlobalUpdate.type] = GlobalUpdate.status
  BY DEF TypeOK, GlobalUpdate, Supervisions

\* The steps of the callbacks, which run in the threads of the workers.
LEMMA CallbacksKeep == IInv /\ Callbacks => IInv'
  <1> SUFFICES ASSUME IInv, NEW s \in Supervisions, ComputeUpdate(s) \/ ApplyUpdate(s)
               PROVE  IInv'
    BY DEF Callbacks
  <1> USE DEF IInv
  <1>1. CASE ComputeUpdate(s)
    <2> DEFINE u == GlobalUpdate
    <2>1. /\ u.status \in SupervisionStatus
          /\ u.type \in Supervisions
          /\ status[u.type] = u.status
      BY GlobalUpdateSound
    <2> HIDE DEF u
    <2>2. /\ reporting' = [reporting EXCEPT ![s] =
                             [at |-> "update", status |-> u.status, type |-> u.type]]
          /\ UNCHANGED <<status, globalVars, aliveVars, deadlineVars>>
      BY <1>1 DEF ComputeUpdate, u
    <2>3. TypeOK'
      BY <2>1, <2>2 DEF TypeOK, globalVars, aliveVars, deadlineVars
    <2>4. UpdateIsSound'
      BY <2>1, <2>2 DEF UpdateIsSound, TypeOK
    <2>5. CounterBelowTolerance' /\ BlamedIsExpired'
      BY <2>2 DEF CounterBelowTolerance, BlamedIsExpired, globalVars, aliveVars
    <2> QED
      BY <2>3, <2>4, <2>5
  <1>2. CASE ApplyUpdate(s)
    <2>1. TypeOK'
      BY <1>2 DEF ApplyUpdate, TypeOK, aliveVars, deadlineVars
    <2>2. UpdateIsSound'
      BY <1>2 DEF ApplyUpdate, UpdateIsSound, TypeOK
    <2>3. CounterBelowTolerance'
      BY <1>2 DEF ApplyUpdate, CounterBelowTolerance, aliveVars
    <2>4. BlamedIsExpired'
      BY <1>2 DEF ApplyUpdate, UpdateIsSound, BlamedIsExpired
    <2> QED
      BY <2>1, <2>2, <2>3, <2>4
  <1> QED
    BY <1>1, <1>2

\* The steps of Main, which writes the global status without any callback.
LEMMA MainKeeps == IInv /\ Main => IInv'
  <1> SUFFICES ASSUME IInv, Main PROVE IInv'
    OBVIOUS
  <1> USE DEF IInv
  <1>1. mStatus' \in SupervisionStatus
    BY GlobalUpdateSound DEF Main, Configured, ConstructGlobal, Hook, TypeOK
  <1>2. /\ main' \in {"configure", "construct", "hookAlive", "hookDeadline", "setCallback", "ready"}
        /\ UNCHANGED <<status, reporting, recovered, aliveVars, deadlineVars>>
    BY DEF Main, Configured, ConstructGlobal, Hook
  <1>3. TypeOK'
    BY <1>1, <1>2 DEF TypeOK, aliveVars, deadlineVars
  <1>4. CounterBelowTolerance' /\ UpdateIsSound' /\ BlamedIsExpired'
    BY <1>2 DEF CounterBelowTolerance, UpdateIsSound, BlamedIsExpired, aliveVars
  <1> QED
    BY <1>3, <1>4

\* The steps of the alive supervision, and the indications it counts.
LEMMA AliveKeeps == IInv /\ (AliveWorker \/ ReportAliveness) => IInv'
  <1> SUFFICES ASSUME IInv, AliveWorker \/ ReportAliveness PROVE IInv'
    OBVIOUS
  <1> USE DEF IInv
  <1> USE AliveAssumption
  <1>1. CASE ReportAliveness
    <2>1. TypeOK'
      BY <1>1 DEF ReportAliveness, TypeOK, globalVars, deadlineVars
    <2> QED
      BY <1>1, <2>1 DEF ReportAliveness, CounterBelowTolerance, UpdateIsSound, BlamedIsExpired,
                        globalVars
  <1>2. CASE CycleEnds
    <2>1. TypeOK'
      BY <1>2 DEF CycleEnds, TypeOK, globalVars, deadlineVars
    <2> QED
      BY <1>2, <2>1 DEF CycleEnds, CounterBelowTolerance, UpdateIsSound, BlamedIsExpired,
                        globalVars
  <1>3. ASSUME NEW new \in SupervisionStatus, Report("Alive", new),
               UNCHANGED <<globalVars, deadlineVars>>,
               mAliveIndications' = 0,
               mAliveCounter' \in 0 .. FailedReferenceCyclesTolerance,
               alive' \in {"sleep", "stopped"},
               CounterBelowTolerance'
        PROVE  IInv'
    <2>1. UNCHANGED recovered
      BY <1>3 DEF globalVars
    <2>2. /\ status' \in [Supervisions -> SupervisionStatus]
          /\ reporting' \in [Supervisions ->
               [at : {"no", "callback", "update"}, status : SupervisionStatus,
                type : Supervisions]]
          /\ UpdateIsSound'
          /\ BlamedIsExpired'
      BY <1>3, <2>1, ReportKeeps DEF Supervisions
    <2>3. TypeOK'
      BY <1>3, <2>2 DEF TypeOK, globalVars, deadlineVars
    <2> QED
      BY <1>3, <2>2, <2>3
  <1>4. CASE GoodCycle
    <2>1. /\ mAliveCounter' \in 0 .. FailedReferenceCyclesTolerance
          /\ CounterBelowTolerance'
      BY <1>4 DEF GoodCycle, TypeOK, CounterBelowTolerance
    <2>2. kOk \in SupervisionStatus
      BY DEF kOk, SupervisionStatus, kDeactivated, kExpired
    <2> QED
      BY <1>3, <1>4, <2>1, <2>2 DEF GoodCycle
  <1>5. CASE BadCycle
    <2>1. /\ mAliveCounter' \in 0 .. FailedReferenceCyclesTolerance
          /\ CounterBelowTolerance'
      BY <1>5 DEF BadCycle, TypeOK, CounterBelowTolerance
    <2>2. kFailed \in SupervisionStatus /\ kExpired \in SupervisionStatus
      BY DEF kFailed, SupervisionStatus, kDeactivated, kExpired
    <2>3. PICK new \in SupervisionStatus :
            Report("Alive", new) /\ alive' \in {"sleep", "stopped"}
      BY <1>5, <2>2 DEF BadCycle
    <2> QED
      BY <1>3, <1>5, <2>1, <2>3 DEF BadCycle
  <1> QED
    BY <1>1, <1>2, <1>4, <1>5 DEF AliveWorker

\* The steps of the deadline supervision, its checkpoints and its clock.
LEMMA DeadlineKeeps ==
  IInv /\ (DeadlineWorker \/ ReportSourceCheckpoint \/ ReportTargetCheckpoint
             \/ Tick \/ SpuriousWakeup) => IInv'
  <1> SUFFICES ASSUME IInv, DeadlineWorker \/ ReportSourceCheckpoint \/ ReportTargetCheckpoint
                              \/ Tick \/ SpuriousWakeup
               PROVE  IInv'
    OBVIOUS
  <1> USE DEF IInv
  <1>1. CASE DeadlineTimeout \/ WorkerWoken
    <2>1. kOk \in SupervisionStatus /\ kExpired \in SupervisionStatus
      BY DEF kOk, SupervisionStatus, kDeactivated, kExpired
    <2>2. PICK new \in SupervisionStatus : Report("Deadline", new)
      BY <1>1, <2>1 DEF DeadlineTimeout, WorkerWoken
    <2>3. /\ deadline' = "finished"
          /\ UNCHANGED <<globalVars, aliveVars, mTargetIsReached, phase>>
      BY <1>1 DEF DeadlineTimeout, WorkerWoken
    <2>4. UNCHANGED recovered
      BY <2>3 DEF globalVars
    <2>5. /\ status' \in [Supervisions -> SupervisionStatus]
          /\ reporting' \in [Supervisions ->
               [at : {"no", "callback", "update"}, status : SupervisionStatus,
                type : Supervisions]]
          /\ UpdateIsSound'
          /\ BlamedIsExpired'
      BY <2>2, <2>4, ReportKeeps DEF Supervisions
    <2>6. TypeOK'
      BY <2>3, <2>5 DEF TypeOK, globalVars, aliveVars
    <2>7. CounterBelowTolerance'
      BY <2>3 DEF CounterBelowTolerance, aliveVars
    <2> QED
      BY <2>5, <2>6, <2>7
  <1>2. CASE WorkerWaits \/ ReportSourceCheckpoint \/ ReportTargetCheckpoint
               \/ Tick \/ SpuriousWakeup
    <2>1. mTargetIsReached' \in BOOLEAN
      BY <1>2, Zenon DEF WorkerWaits, ReportSourceCheckpoint, ReportTargetCheckpoint, Tick,
                         SpuriousWakeup, TypeOK
    <2>2. UNCHANGED <<status, reporting, globalVars, aliveVars>>
      BY <1>2 DEF WorkerWaits, ReportSourceCheckpoint, ReportTargetCheckpoint, Tick,
                  SpuriousWakeup
    <2>3. /\ deadline' \in {"none", "starting", "waiting", "woken", "finished"}
          /\ phase' \in Phases
      BY <1>2 DEF WorkerWaits, ReportSourceCheckpoint, ReportTargetCheckpoint, Tick,
                  SpuriousWakeup, Notified, TypeOK, Phases
    <2>4. TypeOK'
      BY <2>1, <2>2, <2>3 DEF TypeOK, globalVars, aliveVars
    <2> QED
      BY <2>2, <2>4 DEF CounterBelowTolerance, UpdateIsSound, BlamedIsExpired, globalVars,
                        aliveVars
  <1> QED
    BY <1>1, <1>2 DEF DeadlineWorker

\* The conjunction of the two properties, the soundness of pending updates and
\* the bound on the alive counter is inductive.
THEOREM Inductive == Spec => []IInv
  <1>1. Init => IInv
    BY InitIInv
  <1>2. IInv /\ [Next]_vars => IInv'
    <2>1. CASE Next
      BY <2>1, CallbacksKeep, MainKeeps, AliveKeeps, DeadlineKeeps DEF Next
    <2>2. CASE UNCHANGED vars
      BY <2>2 DEF vars, globalVars, aliveVars, deadlineVars, IInv, TypeOK,
                  CounterBelowTolerance, UpdateIsSound, BlamedIsExpired
    <2> QED
      BY <2>1, <2>2
  <1> QED
    BY <1>1, <1>2, PTL DEF Spec

\* The counters of the alive supervision stay within their limits, and every
\* other variable within its type.
THEOREM TypeCorrect == Spec => []TypeOK
  <1>1. IInv => TypeOK
    BY DEF IInv
  <1> QED
    BY <1>1, Inductive, PTL

\* Whatever update a worker applies, and however late, the recovery handler is
\* told of a supervision that has expired.
THEOREM OnlyExpiredIsBlamed == Spec => []BlamedIsExpired
  <1>1. IInv => BlamedIsExpired
    BY DEF IInv
  <1> QED
    BY <1>1, Inductive, PTL

-----------------------------------------------------------------------------
(* The session id of SomeIpMessages *)

SessionInv ==
    /\ (mRebooted = TRUE /\ wrapped = FALSE) \/ (mRebooted = FALSE /\ wrapped = TRUE)
    /\ mSessionId \in 1 .. MaxSession

\* The session id is advanced by IncrementSessionId alone.
LEMMA SessionStep == SessionInv /\ [SdNext \/ StreamNext]_wireVars => SessionInv'
  <1> SUFFICES ASSUME SessionInv, [SdNext \/ StreamNext]_wireVars PROVE SessionInv'
    OBVIOUS
  <1>1. CASE UNCHANGED <<mSessionId, mRebooted, wrapped>>
    BY <1>1 DEF SessionInv
  <1>2. CASE IncrementSessionId
    <2>1. CASE mSessionId = MaxSession
      <3>1. mSessionId' = 1 /\ mRebooted' = FALSE /\ wrapped' = TRUE
        BY <1>2, <2>1 DEF IncrementSessionId, SessionInv
      <3> QED
        BY <3>1, SessionAssumption DEF SessionInv, Short
    <2>2. CASE mSessionId # MaxSession
      <3>1. mSessionId' = mSessionId + 1 /\ mRebooted' = mRebooted /\ wrapped' = wrapped
        BY <1>2, <2>2 DEF IncrementSessionId, SessionInv
      <3> QED
        BY <2>2, <3>1, SessionAssumption DEF SessionInv, Short
    <2> QED
      BY <2>1, <2>2
  <1> QED
    BY <1>1, <1>2
       DEF SdNext, StreamNext, wireVars, sdVars, CreateEntry, AddOption, AddEntry, SdSend, SdReceive,
           RpcSend, RpcReceive

\* However often it wraps, the session id of an agent's messages is never zero,
\* and the reboot flag is cleared by the first wrap and for good.
THEOREM RebootFlagIsRight == WireSpec => []RebootFlag
  <1>1. WireInit => SessionInv
    BY SessionAssumption DEF WireInit, SessionInv, Short
  <1>2. SessionInv /\ [SdNext \/ StreamNext]_wireVars => SessionInv'
    BY SessionStep
  <1>3. SessionInv => RebootFlag
    <2>1. ASSUME SessionInv PROVE mRebooted = ~wrapped
      BY <2>1, Zenon DEF SessionInv
    <2> QED
      BY <2>1 DEF SessionInv, RebootFlag
  <1> QED
    BY <1>1, <1>2, <1>3, PTL DEF WireSpec

-----------------------------------------------------------------------------
(* Induction and recursion *)

\* A set of numbers has a least element.
LEMMA Least ==
    ASSUME NEW T, T \subseteq Nat, T # {}
    PROVE  \E x \in T : \A y \in T : x <= y
<1>1. PICK x \in T : \A y \in T : ~(<<y, x>> \in OpToRel(<, Nat))
  BY NatLessThanWellFounded, WFMin, Zenon
<1>2. \A y \in T : <<y, x>> \in Nat \X Nat
  BY <1>1
<1>3. \A y \in T : ~(y < x)
  <2> SUFFICES ASSUME NEW y \in T, y < x PROVE FALSE
    OBVIOUS
  <2>1. <<y, x>> \in {ss \in Nat \X Nat : ss[1] < ss[2]}
    BY <1>2
  <2> QED BY <2>1, <1>1, Zenon DEF OpToRel
<1>4. \A y \in T : x <= y
  BY <1>3
<1> QED BY <1>4, Zenon

\* Induction: a set with 0 and with the successor of each of its numbers holds
\* every number.
LEMMA NatSetInduction ==
    ASSUME NEW S, 0 \in S, \A n \in Nat : n \in S => n + 1 \in S
    PROVE  Nat \subseteq S
<1> SUFFICES ASSUME ~(Nat \subseteq S) PROVE FALSE
  OBVIOUS
<1> DEFINE T == Nat \ S
<1>1. PICK x \in T : \A y \in T : x <= y
  BY Least
<1>2. x # 0 /\ x - 1 \in Nat /\ x - 1 \notin T
  BY <1>1
<1> QED BY <1>2

\* A function that is defined by its value at 0 and a step from each value to the
\* next exists.
StepsOf(n, S) == [(1 .. n) \X S -> S]
Iterates(n, S, x0, step, f) ==
    f \in [0 .. n -> S] /\ f[0] = x0 /\ \A k \in 1 .. n : f[k] = step[<<k, f[k - 1]>>]

\* The iterates of a step exist.
LEMMA RecursiveSteps ==
    ASSUME NEW n \in Nat, NEW S, NEW x0 \in S, NEW step \in StepsOf(n, S)
    PROVE  \E f : Iterates(n, S, x0, step, f)
<1> USE DEF StepsOf
<1> DEFINE Good(m) == \E f \in [0 .. m -> S] : f[0] = x0 /\ \A k \in 1 .. m : f[k] = step[<<k, f[k - 1]>>]
           G == {m \in Nat : m <= n => Good(m)}
<1>1. 0 \in G
  <2>1. [k \in 0 .. 0 |-> x0] \in [0 .. 0 -> S] /\ [k \in 0 .. 0 |-> x0][0] = x0
    OBVIOUS
  <2>2. \A k \in 1 .. 0 : FALSE
    OBVIOUS
  <2> QED BY <2>1, <2>2
<1>2. \A m \in Nat : m \in G => m + 1 \in G
  <2> SUFFICES ASSUME NEW m \in Nat, m \in G, m + 1 <= n PROVE Good(m + 1)
    OBVIOUS
  <2>1. PICK f \in [0 .. m -> S] : f[0] = x0 /\ \A k \in 1 .. m : f[k] = step[<<k, f[k - 1]>>]
    OBVIOUS
  <2>2. PICK x \in S : x = step[<<m + 1, f[m]>>]
    OBVIOUS
  <2> DEFINE g == [k \in 0 .. m + 1 |-> IF k = m + 1 THEN x ELSE f[k]]
  <2>3. g \in [0 .. m + 1 -> S]
    OBVIOUS
  <2>4. g[0] = x0
    BY <2>1
  <2>5. ASSUME NEW k \in 1 .. m + 1 PROVE g[k] = step[<<k, g[k - 1]>>]
    <3>1. CASE k = m + 1
      <4>1. k \in 0 .. m + 1 /\ k - 1 \in 0 .. m + 1 /\ k - 1 = m /\ m # m + 1
        BY <3>1
      <4>2. g[k] = x /\ g[k - 1] = f[m]
        BY <3>1, <4>1
      <4> QED BY <2>2, <3>1, <4>2
    <3>2. CASE k # m + 1
      <4>1. k \in 1 .. m /\ k - 1 \in 0 .. m /\ k - 1 # m + 1
        BY <3>2
      <4>2. g[k] = f[k] /\ g[k - 1] = f[k - 1]
        BY <4>1
      <4> QED BY <2>1, <4>1, <4>2
    <3> QED BY <3>1, <3>2
  <2> QED BY <2>3, <2>4, <2>5
<1>3. Nat \subseteq G
  <2> HIDE DEF G
  <2> QED BY <1>1, <1>2, NatSetInduction
<1> QED BY <1>3 DEF Iterates

\* Two functions with the same recursion are the same.
SameSteps(n, f, g) == f[0] = g[0] /\ \A k \in 1 .. n : f[k - 1] = g[k - 1] => f[k] = g[k]
SameValues(n, f, g) == \A k \in 0 .. n : f[k] = g[k]

\* Functions with the same recursion have the same values.
LEMMA RecursiveSame ==
    ASSUME NEW n \in Nat, NEW f, NEW g, SameSteps(n, f, g)
    PROVE  SameValues(n, f, g)
<1> USE DEF SameSteps, SameValues
<1> DEFINE G == {m \in Nat : m <= n => f[m] = g[m]}
<1>1. 0 \in G
  OBVIOUS
<1>2. \A m \in Nat : m \in G => m + 1 \in G
  <2> SUFFICES ASSUME NEW m \in Nat, m \in G, m + 1 <= n PROVE f[m + 1] = g[m + 1]
    OBVIOUS
  <2>1. m + 1 \in 1 .. n /\ m + 1 - 1 = m /\ f[m] = g[m]
    OBVIOUS
  <2> QED BY <2>1
<1>3. Nat \subseteq G
  <2> HIDE DEF G
  <2> QED BY <1>1, <1>2, NatSetInduction
<1> QED BY <1>3

-----------------------------------------------------------------------------
(* Sequences of bytes *)

\* A short is made of two bytes.
LEMMA ShortBytes ==
    ASSUME NEW n \in Short
    PROVE  n \div 256 \in Byte /\ n % 256 \in Byte /\ 256 * (n \div 256) + (n % 256) = n
BY DEF Byte, Short

\* An integer of 32 bits is made of two shorts.
LEMMA WordParts ==
    ASSUME NEW n \in Wide
    PROVE  n \div 65536 \in Short /\ n % 65536 \in Short /\ 65536 * (n \div 65536) + (n % 65536) = n
BY DEF Wide, Short

\* The elements of a concatenation.
LEMMA Concat ==
    ASSUME NEW S, NEW s \in Seq(S), NEW t \in Seq(S)
    PROVE  /\ s \o t \in Seq(S)
           /\ Len(s) \in Nat /\ Len(t) \in Nat /\ Len(s \o t) = Len(s) + Len(t)
           /\ \A i \in 1 .. Len(s) : (s \o t)[i] = s[i]
           /\ \A i \in 1 .. Len(t) : (s \o t)[Len(s) + i] = t[i]
  <1>1. Len(s) \in Nat /\ Len(t) \in Nat
    OBVIOUS
  <1>2. \A i \in 1 .. Len(t) : (s \o t)[Len(s) + i] = t[i]
    BY <1>1
  <1> QED
    BY <1>1, <1>2

\* A sequence with another element at its end.
LEMMA OneMore ==
    ASSUME NEW S, NEW s \in Seq(S), NEW x \in S
    PROVE  /\ Append(s, x) \in Seq(S) /\ Len(s) \in Nat /\ Len(Append(s, x)) = Len(s) + 1
           /\ \A i \in 1 .. Len(s) : Append(s, x)[i] = s[i]
           /\ Append(s, x)[Len(s) + 1] = x
OBVIOUS

\* Sequences of the same elements are the same.
LEMMA SameSequence ==
    ASSUME NEW S, NEW s \in Seq(S), NEW t \in Seq(S), Len(s) = Len(t),
           \A i \in 1 .. Len(s) : s[i] = t[i]
    PROVE  s = t
  OBVIOUS

\* Sequences of bytes, read with ByteAt.
LEMMA ByteAtIs ==
    ASSUME NEW s \in Seq(Byte)
    PROVE  /\ Len(s) \in Nat
           /\ \A i \in Nat : i < Len(s) => ByteAt(s, i) = s[i + 1]
           /\ \A i \in 1 .. Len(s) : ByteAt(s, i - 1) = s[i]
           /\ \A i \in Nat : ByteAt(s, i) \in Byte
<1>1. Len(s) \in Nat /\ \A i \in 1 .. Len(s) : s[i] \in Byte
  OBVIOUS
<1>2. \A i \in Nat : i < Len(s) => ByteAt(s, i) = s[i + 1] /\ i + 1 \in 1 .. Len(s)
  BY <1>1 DEF ByteAt
<1>3. ASSUME NEW i \in 1 .. Len(s) PROVE ByteAt(s, i - 1) = s[i]
  <2>1. i - 1 \in Nat /\ i - 1 < Len(s) /\ (i - 1) + 1 = i
    BY <1>1
  <2> QED BY <1>2, <2>1
<1>4. 0 \in Byte
  BY DEF Byte
<1>5. ASSUME NEW i \in Nat PROVE ByteAt(s, i) \in Byte
  <2>1. CASE i < Len(s)
    BY <1>1, <1>2, <2>1
  <2>2. CASE ~(i < Len(s))
    BY <1>4, <2>2 DEF ByteAt
  <2> QED BY <2>1, <2>2
<1> QED BY <1>1, <1>2, <1>3, <1>5

\* The bytes of a concatenation.
LEMMA ByteAtConcat ==
    ASSUME NEW s \in Seq(Byte), NEW t \in Seq(Byte)
    PROVE  /\ s \o t \in Seq(Byte) /\ Len(s \o t) = Len(s) + Len(t)
           /\ \A i \in Nat : i < Len(s) => ByteAt(s \o t, i) = ByteAt(s, i)
           /\ \A i \in Nat : ByteAt(s \o t, Len(s) + i) = ByteAt(t, i)
<1>1. PICK u \in Seq(Byte) :
          /\ u = s \o t /\ Len(u) = Len(s) + Len(t) /\ Len(s) \in Nat /\ Len(t) \in Nat
          /\ \A i \in 1 .. Len(s) : u[i] = s[i]
          /\ \A i \in 1 .. Len(t) : u[Len(s) + i] = t[i]
  <2>1. /\ s \o t \in Seq(Byte)
        /\ Len(s) \in Nat /\ Len(t) \in Nat /\ Len(s \o t) = Len(s) + Len(t)
        /\ \A i \in 1 .. Len(s) : (s \o t)[i] = s[i]
        /\ \A i \in 1 .. Len(t) : (s \o t)[Len(s) + i] = t[i]
    BY Concat
  <2> QED BY <2>1, Zenon
<1>2. ASSUME NEW i \in Nat, i < Len(s) PROVE ByteAt(u, i) = ByteAt(s, i)
  <2>1. i + 1 \in 1 .. Len(s) /\ i < Len(u)
    BY <1>1, <1>2
  <2>2. u[i + 1] = s[i + 1]
    BY <1>1, <2>1
  <2> QED BY <1>2, <2>1, <2>2, ByteAtIs
<1>3. ASSUME NEW i \in Nat PROVE ByteAt(u, Len(s) + i) = ByteAt(t, i)
  <2>1. CASE i < Len(t)
    <3>1. Len(s) + i \in Nat /\ Len(s) + i < Len(u) /\ i + 1 \in 1 .. Len(t)
          /\ (Len(s) + i) + 1 = Len(s) + (i + 1)
      BY <1>1, <2>1
    <3>2. u[Len(s) + (i + 1)] = t[i + 1]
      BY <1>1, <3>1
    <3>3. ByteAt(u, Len(s) + i) = u[(Len(s) + i) + 1]
      BY <3>1, ByteAtIs
    <3>4. ByteAt(t, i) = t[i + 1]
      BY <2>1, ByteAtIs
    <3> QED BY <3>1, <3>2, <3>3, <3>4
  <2>2. CASE ~(i < Len(t))
    <3>1. ~(Len(s) + i < Len(u))
      BY <1>1, <2>2
    <3> QED BY <2>2, <3>1 DEF ByteAt
  <2> QED BY <2>1, <2>2
<1> QED BY <1>1, <1>2, <1>3

\* Sequences of the same bytes are the same.
LEMMA SameBytes ==
    ASSUME NEW s \in Seq(Byte), NEW t \in Seq(Byte), Len(s) = Len(t),
           \A i \in Nat : i < Len(s) => ByteAt(s, i) = ByteAt(t, i)
    PROVE  s = t
<1>1. ASSUME NEW i \in 1 .. Len(s) PROVE s[i] = t[i]
  <2>1. Len(s) \in Nat
    OBVIOUS
  <2>2. i - 1 \in Nat /\ i - 1 < Len(s)
    BY <2>1
  <2>3. ByteAt(s, i - 1) = s[i] /\ ByteAt(t, i - 1) = t[i]
    BY ByteAtIs
  <2> QED BY <2>2, <2>3
<1> QED BY <1>1, SameSequence

\* A sequence of one byte.
LEMMA Singleton ==
    ASSUME NEW a \in Byte
    PROVE  <<a>> \in Seq(Byte) /\ Len(<<a>>) = 1 /\ ByteAt(<<a>>, 0) = a
BY DEF ByteAt

\* The first byte of a sequence and the others.
Headed(u, a, s) ==
    /\ u \in Seq(Byte) /\ Len(u) = 1 + Len(s)
    /\ u[1] = a /\ Tail(u) = s /\ ByteAt(u, 0) = a
    /\ \A i \in Nat : ByteAt(u, 1 + i) = ByteAt(s, i)

\* Such a sequence is made by writing the byte first.
LEMMA HeadAndTail ==
    ASSUME NEW a \in Byte, NEW s \in Seq(Byte)
    PROVE  Headed(<<a>> \o s, a, s)
<1>1. <<a>> \in Seq(Byte) /\ Len(<<a>>) = 1 /\ ByteAt(<<a>>, 0) = a
  BY Singleton
<1>2. /\ <<a>> \o s \in Seq(Byte) /\ Len(<<a>> \o s) = 1 + Len(s)
      /\ ByteAt(<<a>> \o s, 0) = a
      /\ \A i \in Nat : ByteAt(<<a>> \o s, 1 + i) = ByteAt(s, i)
  <2>1. PICK h \in Seq(Byte) : h = <<a>> /\ Len(h) = 1 /\ ByteAt(h, 0) = a
    BY <1>1
  <2>2. PICK u \in Seq(Byte) :
           /\ u = h \o s /\ Len(u) = Len(h) + Len(s)
           /\ \A i \in Nat : i < Len(h) => ByteAt(u, i) = ByteAt(h, i)
           /\ \A i \in Nat : ByteAt(u, Len(h) + i) = ByteAt(s, i)
    BY ByteAtConcat, Zenon
  <2>3. Len(h) = 1 /\ Len(u) = 1 + Len(s)
    BY <2>1, <2>2
  <2>4. \A i \in Nat : ByteAt(u, 1 + i) = ByteAt(s, i)
    BY <2>2, <2>3, Zenon
  <2>5. ByteAt(u, 0) = ByteAt(h, 0)
    <3>1. 0 \in Nat /\ 0 < Len(h)
      BY <2>3
    <3> QED BY <2>2, <3>1, Zenon
  <2> QED BY <2>1, <2>2, <2>3, <2>4, <2>5, Zenon
<1>3. (<<a>> \o s)[1] = a
  OBVIOUS
<1>4. Tail(<<a>> \o s) = s
  OBVIOUS
<1> QED BY <1>2, <1>3, <1>4, Zenon DEF Headed

\* The two bytes of a short: the higher one first.
LEMMA InjectIs ==
    ASSUME NEW n \in Short
    PROVE  /\ Inject(n) \in Seq(Byte) /\ Len(Inject(n)) = 2
           /\ ByteAt(Inject(n), 0) = n \div 256 /\ ByteAt(Inject(n), 1) = n % 256
<1>1. PICK p \in Byte, q \in Byte : p = n \div 256 /\ q = n % 256
  BY ShortBytes
<1>2. <<p, q>> \in Seq(Byte) /\ Len(<<p, q>>) = 2 /\ ByteAt(<<p, q>>, 0) = p /\ ByteAt(<<p, q>>, 1) = q
  BY DEF ByteAt
<1> QED BY <1>1, <1>2 DEF Inject

\* The four bytes of two shorts.
LEMMA InjectIntegerIs ==
    ASSUME NEW p \in Short, NEW q \in Short
    PROVE  LET s == InjectInteger(<<p, q>>)
           IN  /\ s \in Seq(Byte) /\ Len(s) = 4
               /\ ByteAt(s, 0) = p \div 256 /\ ByteAt(s, 1) = p % 256
               /\ ByteAt(s, 2) = q \div 256 /\ ByteAt(s, 3) = q % 256
<1>1. PICK u \in Seq(Byte), v \in Seq(Byte) : u = Inject(p) /\ v = Inject(q) /\ Len(u) = 2 /\ Len(v) = 2
  BY InjectIs
<1>2. /\ ByteAt(u, 0) = p \div 256 /\ ByteAt(u, 1) = p % 256
      /\ ByteAt(v, 0) = q \div 256 /\ ByteAt(v, 1) = q % 256
  BY <1>1, InjectIs
<1>3. PICK s \in Seq(Byte) :
          /\ s = u \o v /\ Len(s) = Len(u) + Len(v)
          /\ \A i \in Nat : i < Len(u) => ByteAt(s, i) = ByteAt(u, i)
          /\ \A i \in Nat : ByteAt(s, Len(u) + i) = ByteAt(v, i)
  BY ByteAtConcat, Zenon
<1>4. InjectInteger(<<p, q>>) = s
  BY <1>1, <1>3 DEF InjectInteger
<1>5. /\ ByteAt(s, 0) = ByteAt(u, 0) /\ ByteAt(s, 1) = ByteAt(u, 1)
      /\ ByteAt(s, 2 + 0) = ByteAt(v, 0) /\ ByteAt(s, 2 + 1) = ByteAt(v, 1)
  BY <1>1, <1>3
<1>6. /\ s \in Seq(Byte) /\ Len(s) = 4
      /\ ByteAt(s, 0) = p \div 256 /\ ByteAt(s, 1) = p % 256
      /\ ByteAt(s, 2) = q \div 256 /\ ByteAt(s, 3) = q % 256
  BY <1>1, <1>2, <1>3, <1>5
<1> QED BY <1>4, <1>6, Zenon

\* A sequence of bytes with another one after it.
Joined(u, s, t) ==
    /\ u \in Seq(Byte) /\ Len(u) = Len(s) + Len(t)
    /\ \A i \in Nat : i < Len(s) => ByteAt(u, i) = ByteAt(s, i)
    /\ \A i \in Nat : ByteAt(u, Len(s) + i) = ByteAt(t, i)

\* A concatenation is one.
LEMMA Joins ==
    ASSUME NEW s \in Seq(Byte), NEW t \in Seq(Byte)
    PROVE  Joined(s \o t, s, t)
BY ByteAtConcat DEF Joined

\* There is one of any two sequences.
LEMMA SomeJoined ==
    ASSUME NEW s \in Seq(Byte), NEW t \in Seq(Byte)
    PROVE  \E u \in Seq(Byte) : u = s \o t /\ Joined(u, s, t)
<1>1. Joined(s \o t, s, t)
  BY Joins
<1>2. s \o t \in Seq(Byte)
  BY <1>1 DEF Joined
<1> QED BY <1>1, <1>2, Zenon

\* What is known of it when its first part has n bytes.
JoinedTo(u, s, t, n) ==
    /\ Len(u) = n + Len(t)
    /\ \A i \in Nat : i < n => ByteAt(u, i) = ByteAt(s, i)
    /\ \A i \in Nat : ByteAt(u, n + i) = ByteAt(t, i)

\* Joined sequences, when the length of the first is known.
LEMMA JoinedAt ==
    ASSUME NEW u, NEW s, NEW t, NEW n \in Nat, Joined(u, s, t), Len(s) = n
    PROVE  JoinedTo(u, s, t, n)
BY DEF Joined, JoinedTo

\* Four bytes in a row.
LEMMA FourBytes ==
    ASSUME NEW a \in Byte, NEW b \in Byte, NEW c \in Byte, NEW d \in Byte
    PROVE  LET s == <<a, b, c, d>>
           IN  /\ s \in Seq(Byte) /\ Len(s) = 4
               /\ ByteAt(s, 0) = a /\ ByteAt(s, 1) = b /\ ByteAt(s, 2) = c /\ ByteAt(s, 3) = d
<1>1. /\ <<a, b, c, d>> \in Seq(Byte) /\ Len(<<a, b, c, d>>) = 4
      /\ ByteAt(<<a, b, c, d>>, 0) = a /\ ByteAt(<<a, b, c, d>>, 1) = b
      /\ ByteAt(<<a, b, c, d>>, 2) = c /\ ByteAt(<<a, b, c, d>>, 3) = d
  BY DEF ByteAt
<1> QED BY <1>1, Zenon

\* The bytes of a header, field by field.
HeaderBytes(s, h, p, q) ==
    /\ ByteAt(s, 0) = h.messageId[1] \div 256 /\ ByteAt(s, 1) = h.messageId[1] % 256
    /\ ByteAt(s, 2) = h.messageId[2] \div 256 /\ ByteAt(s, 3) = h.messageId[2] % 256
    /\ ByteAt(s, 4) = p \div 256 /\ ByteAt(s, 5) = p % 256
    /\ ByteAt(s, 6) = q \div 256 /\ ByteAt(s, 7) = q % 256
    /\ ByteAt(s, 8) = h.clientId \div 256 /\ ByteAt(s, 9) = h.clientId % 256
    /\ ByteAt(s, 10) = h.sessionId \div 256 /\ ByteAt(s, 11) = h.sessionId % 256
    /\ ByteAt(s, 12) = h.protocolVersion /\ ByteAt(s, 13) = h.interfaceVersion
    /\ ByteAt(s, 14) = h.messageType /\ ByteAt(s, 15) = h.returnCode

HeaderOf(s, h, length) == HeaderBytes(s, h, length \div 65536, length % 65536)

\* The types of the fields of a header.
LEMMA HeaderFields ==
    ASSUME NEW h \in Headers
    PROVE  /\ h.messageId[1] \in Short /\ h.messageId[2] \in Short /\ h.clientId \in Short
           /\ h.sessionId \in Short /\ h.protocolVersion \in Byte /\ h.interfaceVersion \in Byte
           /\ h.messageType \in Byte /\ h.returnCode \in Byte
           /\ h.messageId = <<h.messageId[1], h.messageId[2]>>
<1>1. h \in [messageId : Short \X Short, clientId : Short, sessionId : Short, protocolVersion : Byte,
             interfaceVersion : Byte, messageType : Byte, returnCode : Byte]
  BY DEF Headers
<1> QED BY <1>1

\* The sixteen bytes of a header, each where it is looked for.
LEMMA HeaderWritten ==
    ASSUME NEW h \in Headers, NEW length \in Wide
    PROVE  LET s == SomeIpPayload(h, length)
           IN  s \in Seq(Byte) /\ Len(s) = 16 /\ HeaderOf(s, h, length)
<1>1. PICK p \in Short, q \in Short : Word(length) = <<p, q>> /\ p = length \div 65536 /\ q = length % 65536
  BY WordParts DEF Word
<1>2. PICK a \in Seq(Byte) :
          /\ a = InjectInteger(h.messageId) /\ Len(a) = 4
          /\ ByteAt(a, 0) = h.messageId[1] \div 256 /\ ByteAt(a, 1) = h.messageId[1] % 256
          /\ ByteAt(a, 2) = h.messageId[2] \div 256 /\ ByteAt(a, 3) = h.messageId[2] % 256
  <2>1. PICK x \in Short, y \in Short : h.messageId = <<x, y>> /\ x = h.messageId[1] /\ y = h.messageId[2]
    BY HeaderFields
  <2> QED BY <2>1, InjectIntegerIs
<1>3. PICK b \in Seq(Byte) :
          /\ b = InjectInteger(Word(length)) /\ Len(b) = 4
          /\ ByteAt(b, 0) = p \div 256 /\ ByteAt(b, 1) = p % 256
          /\ ByteAt(b, 2) = q \div 256 /\ ByteAt(b, 3) = q % 256
  BY <1>1, InjectIntegerIs
<1>4. PICK c \in Seq(Byte) :
          /\ c = Inject(h.clientId) /\ Len(c) = 2
          /\ ByteAt(c, 0) = h.clientId \div 256 /\ ByteAt(c, 1) = h.clientId % 256
  BY HeaderFields, InjectIs
<1>5. PICK d \in Seq(Byte) :
          /\ d = Inject(h.sessionId) /\ Len(d) = 2
          /\ ByteAt(d, 0) = h.sessionId \div 256 /\ ByteAt(d, 1) = h.sessionId % 256
  BY HeaderFields, InjectIs
<1>6. PICK e \in Seq(Byte) :
          /\ e = <<h.protocolVersion, h.interfaceVersion, h.messageType, h.returnCode>> /\ Len(e) = 4
          /\ ByteAt(e, 0) = h.protocolVersion /\ ByteAt(e, 1) = h.interfaceVersion
          /\ ByteAt(e, 2) = h.messageType /\ ByteAt(e, 3) = h.returnCode
  <2>1. PICK w \in Byte, x \in Byte, y \in Byte, z \in Byte :
            w = h.protocolVersion /\ x = h.interfaceVersion /\ y = h.messageType /\ z = h.returnCode
    BY HeaderFields, Zenon
  <2>2. PICK f \in Seq(Byte) :
            /\ f = <<w, x, y, z>> /\ Len(f) = 4
            /\ ByteAt(f, 0) = w /\ ByteAt(f, 1) = x /\ ByteAt(f, 2) = y /\ ByteAt(f, 3) = z
    <3>1. /\ <<w, x, y, z>> \in Seq(Byte) /\ Len(<<w, x, y, z>>) = 4
          /\ ByteAt(<<w, x, y, z>>, 0) = w /\ ByteAt(<<w, x, y, z>>, 1) = x
          /\ ByteAt(<<w, x, y, z>>, 2) = y /\ ByteAt(<<w, x, y, z>>, 3) = z
      BY FourBytes
    <3> QED BY <3>1, Zenon
  <2> QED BY <2>1, <2>2, Zenon
<1>7. PICK s1 \in Seq(Byte) : s1 = a \o b /\ Joined(s1, a, b)
  BY SomeJoined, Zenon
<1>8. PICK s2 \in Seq(Byte) : s2 = s1 \o c /\ Joined(s2, s1, c)
  BY SomeJoined, Zenon
<1>9. PICK s3 \in Seq(Byte) : s3 = s2 \o d /\ Joined(s3, s2, d)
  BY SomeJoined, Zenon
<1>10. PICK s4 \in Seq(Byte) : s4 = s3 \o e /\ Joined(s4, s3, e)
  BY SomeJoined, Zenon
<1>11. SomeIpPayload(h, length) = s4
  BY <1>2, <1>3, <1>4, <1>5, <1>6, <1>7, <1>8, <1>9, <1>10 DEF SomeIpPayload
<1>j. Joined(s1, a, b) /\ Joined(s2, s1, c) /\ Joined(s3, s2, d) /\ Joined(s4, s3, e)
  BY <1>7, <1>8, <1>9, <1>10, Zenon
<1>12. Len(a) = 4 /\ Len(b) = 4 /\ Len(c) = 2 /\ Len(d) = 2 /\ Len(e) = 4
  BY <1>2, <1>3, <1>4, <1>5, <1>6, Zenon
<1>14. /\ Len(s1) = 8
       /\ \A i \in Nat : i < 4 => ByteAt(s1, i) = ByteAt(a, i)
       /\ \A i \in Nat : ByteAt(s1, 4 + i) = ByteAt(b, i)
  <2>1. 4 \in Nat /\ Len(a) = 4
    BY <1>12
  <2>2. JoinedTo(s1, a, b, 4)
    BY <1>j, <2>1, JoinedAt, Zenon
  <2>3. 4 + Len(b) = 8
    BY <1>12
  <2> QED BY <2>2, <2>3, Zenon DEF JoinedTo
<1>15. /\ Len(s2) = 10
       /\ \A i \in Nat : i < 8 => ByteAt(s2, i) = ByteAt(s1, i)
       /\ \A i \in Nat : ByteAt(s2, 8 + i) = ByteAt(c, i)
  <2>1. 8 \in Nat /\ Len(s1) = 8
    BY <1>12, <1>14
  <2>2. JoinedTo(s2, s1, c, 8)
    BY <1>j, <2>1, JoinedAt, Zenon
  <2>3. 8 + Len(c) = 10
    BY <1>12
  <2> QED BY <2>2, <2>3, Zenon DEF JoinedTo
<1>16. /\ Len(s3) = 12
       /\ \A i \in Nat : i < 10 => ByteAt(s3, i) = ByteAt(s2, i)
       /\ \A i \in Nat : ByteAt(s3, 10 + i) = ByteAt(d, i)
  <2>1. 10 \in Nat /\ Len(s2) = 10
    BY <1>12, <1>15
  <2>2. JoinedTo(s3, s2, d, 10)
    BY <1>j, <2>1, JoinedAt, Zenon
  <2>3. 10 + Len(d) = 12
    BY <1>12
  <2> QED BY <2>2, <2>3, Zenon DEF JoinedTo
<1>17. /\ Len(s4) = 16
       /\ \A i \in Nat : i < 12 => ByteAt(s4, i) = ByteAt(s3, i)
       /\ \A i \in Nat : ByteAt(s4, 12 + i) = ByteAt(e, i)
  <2>1. 12 \in Nat /\ Len(s3) = 12
    BY <1>12, <1>16
  <2>2. JoinedTo(s4, s3, e, 12)
    BY <1>j, <2>1, JoinedAt, Zenon
  <2>3. 12 + Len(e) = 16
    BY <1>12
  <2> QED BY <2>2, <2>3, Zenon DEF JoinedTo
<1>18. \A i \in Nat : i < 8 => ByteAt(s4, i) = ByteAt(s1, i)
  BY <1>15, <1>16, <1>17
<1>19. ByteAt(s4, 8) = ByteAt(c, 0) /\ ByteAt(s4, 9) = ByteAt(c, 1)
  <2>1. ByteAt(s4, 8) = ByteAt(s2, 8 + 0) /\ ByteAt(s4, 9) = ByteAt(s2, 8 + 1)
    <3>1. /\ 8 \in Nat /\ 9 \in Nat /\ 8 < 12 /\ 9 < 12 /\ 8 < 10 /\ 9 < 10
          /\ 8 + 0 = 8 /\ 8 + 1 = 9
      OBVIOUS
    <3> QED BY <1>16, <1>17, <3>1, Zenon
  <2> QED BY <2>1, <1>15
<1>20. ByteAt(s4, 10) = ByteAt(d, 0) /\ ByteAt(s4, 11) = ByteAt(d, 1)
  <2>1. ByteAt(s4, 10) = ByteAt(s3, 10 + 0) /\ ByteAt(s4, 11) = ByteAt(s3, 10 + 1)
    <3>1. 10 \in Nat /\ 11 \in Nat /\ 10 < 12 /\ 11 < 12 /\ 10 + 0 = 10 /\ 10 + 1 = 11
      OBVIOUS
    <3> QED BY <1>17, <3>1, Zenon
  <2> QED BY <2>1, <1>16
<1>22. /\ ByteAt(s4, 12) = ByteAt(e, 0) /\ ByteAt(s4, 13) = ByteAt(e, 1)
       /\ ByteAt(s4, 14) = ByteAt(e, 2) /\ ByteAt(s4, 15) = ByteAt(e, 3)
  <2>1. /\ ByteAt(s4, 12 + 0) = ByteAt(e, 0) /\ ByteAt(s4, 12 + 1) = ByteAt(e, 1)
        /\ ByteAt(s4, 12 + 2) = ByteAt(e, 2) /\ ByteAt(s4, 12 + 3) = ByteAt(e, 3)
    BY <1>17
  <2> QED BY <2>1
<1>23. /\ ByteAt(s4, 0) = ByteAt(a, 0) /\ ByteAt(s4, 1) = ByteAt(a, 1)
       /\ ByteAt(s4, 2) = ByteAt(a, 2) /\ ByteAt(s4, 3) = ByteAt(a, 3)
  <2>1. 0 \in Nat /\ 1 \in Nat /\ 2 \in Nat /\ 3 \in Nat /\ 0 < 4 /\ 1 < 4 /\ 2 < 4 /\ 3 < 4
    OBVIOUS
  <2>2. 0 < 8 /\ 1 < 8 /\ 2 < 8 /\ 3 < 8
    OBVIOUS
  <2> QED BY <1>14, <1>18, <2>1, <2>2, Zenon
<1>24. /\ ByteAt(s4, 4) = ByteAt(b, 0) /\ ByteAt(s4, 5) = ByteAt(b, 1)
       /\ ByteAt(s4, 6) = ByteAt(b, 2) /\ ByteAt(s4, 7) = ByteAt(b, 3)
  <2>1. /\ ByteAt(s1, 4 + 0) = ByteAt(b, 0) /\ ByteAt(s1, 4 + 1) = ByteAt(b, 1)
        /\ ByteAt(s1, 4 + 2) = ByteAt(b, 2) /\ ByteAt(s1, 4 + 3) = ByteAt(b, 3)
    BY <1>14
  <2> QED BY <2>1, <1>18
<1>21. HeaderBytes(s4, h, p, q)
  <2>1. /\ ByteAt(s4, 0) = h.messageId[1] \div 256 /\ ByteAt(s4, 1) = h.messageId[1] % 256
        /\ ByteAt(s4, 2) = h.messageId[2] \div 256 /\ ByteAt(s4, 3) = h.messageId[2] % 256
    BY <1>2, <1>23
  <2>2. /\ ByteAt(s4, 4) = p \div 256 /\ ByteAt(s4, 5) = p % 256
        /\ ByteAt(s4, 6) = q \div 256 /\ ByteAt(s4, 7) = q % 256
    BY <1>3, <1>24
  <2>3. /\ ByteAt(s4, 8) = h.clientId \div 256 /\ ByteAt(s4, 9) = h.clientId % 256
        /\ ByteAt(s4, 10) = h.sessionId \div 256 /\ ByteAt(s4, 11) = h.sessionId % 256
    BY <1>4, <1>5, <1>19, <1>20
  <2>4. /\ ByteAt(s4, 12) = h.protocolVersion /\ ByteAt(s4, 13) = h.interfaceVersion
        /\ ByteAt(s4, 14) = h.messageType /\ ByteAt(s4, 15) = h.returnCode
    BY <1>6, <1>22
  <2> QED BY <2>1, <2>2, <2>3, <2>4 DEF HeaderBytes
<1>13. Len(s4) = 16
  BY <1>17
<1>25. HeaderOf(s4, h, length)
  BY <1>1, <1>21 DEF HeaderOf
<1> QED BY <1>11, <1>13, <1>25, Zenon

\* What is read of bytes that begin with a header.
LEMMA HeaderRead ==
    ASSUME NEW h \in Headers, NEW length \in Wide, NEW s \in Seq(Byte), HeaderOf(s, h, length)
    PROVE  DeserializeHeader(s) = h /\ Number(ExtractInteger(s, 4)) = length
<1>1. PICK p \in Short, q \in Short : p = length \div 65536 /\ q = length % 65536 /\ 65536 * p + q = length
  BY WordParts
<1>2. \A n \in Short : 256 * (n \div 256) + (n % 256) = n
  BY ShortBytes
<1>3. HeaderBytes(s, h, p, q)
  BY <1>1 DEF HeaderOf
<1>4. ExtractInteger(s, 4) = <<p, q>>
  BY <1>2, <1>3 DEF HeaderBytes, ExtractInteger, ExtractShort
<1>5. ExtractInteger(s, 0) = h.messageId
  BY <1>2, <1>3, HeaderFields DEF HeaderBytes, ExtractInteger, ExtractShort
<1>6. ExtractShort(s, 8) = h.clientId /\ ExtractShort(s, 10) = h.sessionId
  BY <1>2, <1>3, HeaderFields DEF HeaderBytes, ExtractShort
<1>7. h = [messageId |-> h.messageId, clientId |-> h.clientId, sessionId |-> h.sessionId,
           protocolVersion |-> h.protocolVersion, interfaceVersion |-> h.interfaceVersion,
           messageType |-> h.messageType, returnCode |-> h.returnCode]
  BY DEF Headers
<1>8. DeserializeHeader(s) = h
  BY <1>3, <1>5, <1>6, <1>7 DEF DeserializeHeader, HeaderBytes
<1> QED BY <1>1, <1>4, <1>8 DEF Number

-----------------------------------------------------------------------------
(* The requests of SomeIpMessages *)

\* A part of a sequence of bytes.
Part(u, s, m, n) ==
    /\ u \in Seq(Byte) /\ Len(u) = n - m
    /\ \A i \in Nat : i < n - m => ByteAt(u, i) = ByteAt(s, m + i)

\* SubSeq cuts out such a part.
LEMMA SubBytes ==
    ASSUME NEW s \in Seq(Byte), NEW m \in Nat, NEW n \in Nat, m <= n, n <= Len(s)
    PROVE  Part(SubSeq(s, m + 1, n), s, m, n)
<1>1. Len(s) \in Nat /\ n - m \in Nat
  OBVIOUS
<1>2. PICK u : u = SubSeq(s, m + 1, n)
  OBVIOUS
<1>3. u \in Seq(Byte) /\ Len(u) = n - m
  BY <1>1, <1>2
<1>4. \A i \in 1 .. (n - m) : u[i] = s[m + i]
  BY <1>1, <1>2
<1>5. ASSUME NEW i \in Nat, i < n - m PROVE ByteAt(u, i) = ByteAt(s, m + i)
  <2>1. i + 1 \in 1 .. (n - m) /\ m + (i + 1) = (m + i) + 1 /\ m + i \in Nat /\ m + i < Len(s)
    BY <1>1, <1>5
  <2>2. ByteAt(u, i) = u[i + 1]
    BY <1>3, <1>5, ByteAtIs
  <2>3. ByteAt(s, m + i) = s[(m + i) + 1]
    BY <2>1, ByteAtIs
  <2>4. u[i + 1] = s[m + (i + 1)]
    BY <1>4, <2>1
  <2> QED BY <2>1, <2>2, <2>3, <2>4
<1> QED BY <1>2, <1>3, <1>5 DEF Part

\* The bytes of a request: the header and what follows it.
Written(s, r) ==
    LET length == 8 + Len(r.rpcPayload)
    IN  /\ s \in Seq(Byte) /\ Len(s) = 16 + Len(r.rpcPayload) /\ Len(r.rpcPayload) \in Nat
        /\ HeaderOf(s, r.header, length)
        /\ \A i \in Nat : ByteAt(s, 16 + i) = ByteAt(r.rpcPayload, i)

\* The parts of a request.
LEMMA RequestFields ==
    ASSUME NEW r \in Requests
    PROVE  /\ r.header \in Headers /\ r.rpcPayload \in Seq(Byte) /\ Len(r.rpcPayload) \in Nat
           /\ 8 + Len(r.rpcPayload) \in Wide
           /\ r = [header |-> r.header, rpcPayload |-> r.rpcPayload]
<1>1. r \in [header : Headers, rpcPayload : Seq(Byte)] /\ 8 + Len(r.rpcPayload) \in Wide
  BY RequestsAssumption, Zenon
<1>2. r.header \in Headers /\ r.rpcPayload \in Seq(Byte) /\ r = [header |-> r.header, rpcPayload |-> r.rpcPayload]
  BY <1>1
<1>3. Len(r.rpcPayload) \in Nat
  BY <1>2
<1> QED BY <1>1, <1>2, <1>3, Zenon

\* Bytes that are changed in the beginning only have the same header.
LEMMA SameHeader ==
    ASSUME NEW s, NEW t, NEW h, NEW l, HeaderOf(s, h, l),
           \A i \in Nat : i < 16 => ByteAt(t, i) = ByteAt(s, i)
    PROVE  HeaderOf(t, h, l)
<1>1. /\ ByteAt(t, 0) = ByteAt(s, 0) /\ ByteAt(t, 1) = ByteAt(s, 1) /\ ByteAt(t, 2) = ByteAt(s, 2)
      /\ ByteAt(t, 3) = ByteAt(s, 3) /\ ByteAt(t, 4) = ByteAt(s, 4) /\ ByteAt(t, 5) = ByteAt(s, 5)
      /\ ByteAt(t, 6) = ByteAt(s, 6) /\ ByteAt(t, 7) = ByteAt(s, 7) /\ ByteAt(t, 8) = ByteAt(s, 8)
      /\ ByteAt(t, 9) = ByteAt(s, 9) /\ ByteAt(t, 10) = ByteAt(s, 10) /\ ByteAt(t, 11) = ByteAt(s, 11)
      /\ ByteAt(t, 12) = ByteAt(s, 12) /\ ByteAt(t, 13) = ByteAt(s, 13) /\ ByteAt(t, 14) = ByteAt(s, 14)
      /\ ByteAt(t, 15) = ByteAt(s, 15)
  OBVIOUS
<1> QED BY <1>1 DEF HeaderOf, HeaderBytes

\* SomeIpRpcMessage::Payload writes the header and then the payload.
LEMMA RpcWritten ==
    ASSUME NEW r \in Requests
    PROVE  Written(RpcPayload(r), r)
<1>1. PICK h \in Headers, payload \in Seq(Byte), length \in Wide :
          /\ h = r.header /\ payload = r.rpcPayload /\ length = 8 + Len(r.rpcPayload)
          /\ Len(payload) \in Nat
  BY RequestFields, Zenon
<1>2. PICK s \in Seq(Byte) :
          /\ s = SomeIpPayload(h, length) /\ Len(s) = 16
          /\ HeaderOf(s, h, length)
  BY <1>1, HeaderWritten, Zenon
<1>3. PICK u \in Seq(Byte) : u = s \o payload /\ Joined(u, s, payload)
  BY SomeJoined, Zenon
<1>4. RpcPayload(r) = u
  BY <1>1, <1>2, <1>3, Zenon DEF RpcPayload
<1>5. JoinedTo(u, s, payload, 16)
  <2>1. 16 \in Nat
    OBVIOUS
  <2> QED BY <1>2, <1>3, <2>1, JoinedAt, Zenon
<1>6. HeaderOf(u, h, length)
  BY <1>2, <1>5, SameHeader, Zenon DEF JoinedTo
<1>7. /\ u \in Seq(Byte) /\ Len(u) = 16 + Len(payload) /\ Len(payload) \in Nat
      /\ \A i \in Nat : ByteAt(u, 16 + i) = ByteAt(payload, i)
  BY <1>1, <1>5, Zenon DEF JoinedTo
<1> QED BY <1>1, <1>4, <1>6, <1>7, Zenon DEF Written

\* The length in a header, read from the four bytes it is written to.
LEMMA LengthRead ==
    ASSUME NEW r \in Requests, NEW s \in Seq(Byte),
           \A i \in Nat : i < 8 => ByteAt(s, i) = ByteAt(RpcPayload(r), i)
    PROVE  8 + Number(ExtractInteger(s, 4)) = Len(RpcPayload(r))
<1>1. PICK u \in Seq(Byte), length \in Wide :
          /\ u = RpcPayload(r) /\ length = 8 + Len(r.rpcPayload) /\ Len(u) = 8 + length
          /\ HeaderOf(u, r.header, length)
  <2>1. Written(RpcPayload(r), r) /\ 8 + Len(r.rpcPayload) \in Wide /\ Len(r.rpcPayload) \in Nat
    BY RpcWritten, RequestFields
  <2>2. 16 + Len(r.rpcPayload) = 8 + (8 + Len(r.rpcPayload))
    BY <2>1
  <2> QED BY <2>1, <2>2, Zenon DEF Written
<1>2. Number(ExtractInteger(u, 4)) = length
  BY <1>1, HeaderRead, RequestFields
<1>3. ExtractInteger(s, 4) = ExtractInteger(u, 4)
  <2>1. /\ ByteAt(s, 4) = ByteAt(u, 4) /\ ByteAt(s, 4 + 1) = ByteAt(u, 4 + 1)
        /\ ByteAt(s, 4 + 2) = ByteAt(u, 4 + 2) /\ ByteAt(s, (4 + 2) + 1) = ByteAt(u, (4 + 2) + 1)
    BY <1>1
  <2> QED BY <2>1, Zenon DEF ExtractInteger, ExtractShort
<1> QED BY <1>1, <1>2, <1>3

\* A request is read as it was written.
LEMMA RpcRead ==
    ASSUME NEW r \in Requests
    PROVE  RpcDeserialize(RpcPayload(r)) = r
<1>1. PICK u \in Seq(Byte), payload \in Seq(Byte), h \in Headers, length \in Wide, l \in Nat :
          /\ u = RpcPayload(r) /\ h = r.header /\ payload = r.rpcPayload /\ l = Len(payload)
          /\ length = 8 + l /\ Len(u) = 16 + l
          /\ HeaderOf(u, h, length)
          /\ \A i \in Nat : ByteAt(u, 16 + i) = ByteAt(payload, i)
  <2>1. /\ RpcPayload(r) \in Seq(Byte) /\ r.rpcPayload \in Seq(Byte) /\ r.header \in Headers
        /\ 8 + Len(r.rpcPayload) \in Wide /\ Len(r.rpcPayload) \in Nat
    BY RpcWritten, RequestFields, Zenon DEF Written
  <2>2. Written(RpcPayload(r), r)
    BY RpcWritten
  <2> QED BY <2>1, <2>2, Zenon DEF Written
<1>2. DeserializeHeader(u) = h /\ Number(ExtractInteger(u, 4)) = length
  BY <1>1, HeaderRead, Zenon
<1>3. PICK v \in Seq(Byte) : v = SubSeq(u, 16 + 1, 16 + l) /\ Part(v, u, 16, 16 + l)
  <2>1. 16 \in Nat /\ 16 + l \in Nat /\ 16 <= 16 + l /\ 16 + l <= Len(u)
    BY <1>1
  <2>2. Part(SubSeq(u, 16 + 1, 16 + l), u, 16, 16 + l)
    BY <2>1, SubBytes, Zenon
  <2> QED BY <2>2, Zenon DEF Part
<1>4. v = payload
  <2>1. Len(v) = Len(payload) /\ (16 + l) - 16 = l
    BY <1>1, <1>3 DEF Part
  <2>2. \A i \in Nat : i < Len(v) => ByteAt(v, i) = ByteAt(payload, i)
    BY <1>1, <1>3, <2>1 DEF Part
  <2> QED BY <2>1, <2>2, SameBytes
<1>5. (16 + length) - 8 = 16 + l
  BY <1>1
<1>6. RpcDeserialize(u) = [header |-> h, rpcPayload |-> v]
  BY <1>2, <1>3, <1>5, Zenon DEF RpcDeserialize, cHeaderSize
<1> QED BY <1>1, <1>4, <1>6, RequestFields

-----------------------------------------------------------------------------
(* The stream of SomeIpMessages *)

\* The bytes of the connection since it was made: the requests one after the
\* other, the first i of them in at[i] bytes.
Tape(tape, at, requests) ==
    /\ tape \in [Nat -> Byte] /\ at \in [Nat -> Nat] /\ at[0] = 0
    /\ \A i \in Nat : i < Len(requests) => at[i + 1] = at[i] + Len(RpcPayload(requests[i + 1]))
    /\ \A i, j \in Nat :
           i < Len(requests) /\ j < Len(RpcPayload(requests[i + 1]))
           => tape[at[i] + j] = ByteAt(RpcPayload(requests[i + 1]), j)

\* Bytes that are those of the connection from the p-th on.
Holds(bytes, tape, p) ==
    /\ bytes \in Seq(Byte)
    /\ \A j \in Nat : j < Len(bytes) => ByteAt(bytes, j) = tape[p + j]

\* No request is complete: the bytes read end before the next one does.
Incomplete(at, requests, k, p) == k < Len(requests) => p < at[k + 1]

\* A request takes at least the bytes of its header.
LEMMA PayloadIs ==
    ASSUME NEW r \in Requests
    PROVE  RpcPayload(r) \in Seq(Byte) /\ Len(RpcPayload(r)) \in Nat /\ Len(RpcPayload(r)) >= 16
<1>1. Written(RpcPayload(r), r)
  BY RpcWritten
<1>2. PICK l \in Nat : l = Len(r.rpcPayload) /\ Len(RpcPayload(r)) = 16 + l
  BY <1>1 DEF Written
<1>3. RpcPayload(r) \in Seq(Byte)
  BY <1>1 DEF Written
<1> QED BY <1>2, <1>3

\* The next request is one.
LEMMA RequestIn ==
    ASSUME NEW requests \in Seq(Requests), NEW k \in Nat, k < Len(requests)
    PROVE  Len(requests) \in Nat /\ k + 1 \in 1 .. Len(requests) /\ requests[k + 1] \in Requests
OBVIOUS

\* Requests end somewhere on the tape.
LEMMA TapeAt ==
    ASSUME NEW tape, NEW at, NEW requests, Tape(tape, at, requests), NEW k \in Nat
    PROVE  at[k] \in Nat /\ k + 1 \in Nat
BY DEF Tape

\* The requests lie on the tape in their order.
LEMMA TapeGrows ==
    ASSUME NEW tape, NEW at, NEW requests \in Seq(Requests), Tape(tape, at, requests),
           NEW k \in Nat, k <= Len(requests)
    PROVE  at[k] <= at[Len(requests)]
<1>1. PICK n \in Nat : n = Len(requests)
  OBVIOUS
<1>2. /\ at \in [Nat -> Nat]
      /\ \A i \in Nat : i < n => at[i] \in Nat /\ at[i + 1] \in Nat /\ at[i] <= at[i + 1]
  <2>1. at \in [Nat -> Nat] /\ \A i \in Nat : i < n => at[i + 1] = at[i] + Len(RpcPayload(requests[i + 1]))
    BY <1>1 DEF Tape
  <2>2. ASSUME NEW i \in Nat, i < n PROVE at[i] \in Nat /\ at[i + 1] \in Nat /\ at[i] <= at[i + 1]
    <3>1. requests[i + 1] \in Requests
      BY <1>1, <2>2, RequestIn
    <3>2. PICK l \in Nat : l = Len(RpcPayload(requests[i + 1]))
      BY <3>1, PayloadIs
    <3>3. at[i + 1] = at[i] + l /\ at[i] \in Nat
      BY <2>1, <2>2, <3>2
    <3> QED BY <3>3
  <2> QED BY <2>1, <2>2
<1>3. PICK f \in [Nat -> Nat] : f = at
  BY <1>2
<1> DEFINE G == {m \in Nat : k + m <= n => f[k] <= f[k + m]}
<1>4. 0 \in G
  OBVIOUS
<1>5. \A m \in Nat : m \in G => m + 1 \in G
  <2> SUFFICES ASSUME NEW m \in Nat, m \in G, k + (m + 1) <= n PROVE f[k] <= f[k + (m + 1)]
    OBVIOUS
  <2>1. k + m \in Nat /\ k + m < n /\ (k + m) + 1 = k + (m + 1) /\ f[k] <= f[k + m]
    OBVIOUS
  <2>2. f[k + m] <= f[(k + m) + 1] /\ f[k + m] \in Nat /\ f[(k + m) + 1] \in Nat /\ f[k] \in Nat
    BY <1>2, <1>3, <2>1
  <2> QED BY <2>1, <2>2
<1>6. Nat \subseteq G
  <2> HIDE DEF G
  <2> QED BY <1>4, <1>5, NatSetInduction
<1>7. n - k \in Nat /\ k + (n - k) = n /\ n <= n
  BY <1>1
<1>8. f[k] <= f[k + (n - k)]
  BY <1>6, <1>7
<1> QED BY <1>1, <1>3, <1>7, <1>8

\* What a buffer says of the next request: its length, as soon as eight bytes
\* were read, and the request itself, when all its bytes were.
LEMMA BufferedLength ==
    ASSUME NEW tape, NEW at, NEW requests \in Seq(Requests), Tape(tape, at, requests),
           NEW k \in Nat, k < Len(requests), NEW buffer, Holds(buffer, tape, at[k]), Len(buffer) >= 8
    PROVE  8 + Number(ExtractInteger(buffer, 4)) = Len(RpcPayload(requests[k + 1]))
<1>1. PICK r \in Requests : r = requests[k + 1]
  BY RequestIn
<1>2. ASSUME NEW i \in Nat, i < 8 PROVE ByteAt(buffer, i) = ByteAt(RpcPayload(r), i)
  <2>1. i < Len(buffer) /\ i < Len(RpcPayload(r))
    BY <1>1, <1>2, PayloadIs DEF Holds
  <2>2. ByteAt(buffer, i) = tape[at[k] + i]
    BY <2>1 DEF Holds
  <2>3. tape[at[k] + i] = ByteAt(RpcPayload(r), i)
    BY <1>1, <2>1 DEF Tape
  <2> QED BY <2>2, <2>3
<1> QED BY <1>1, <1>2, LengthRead DEF Holds

FirstTaken(buffer, tape, at, requests, k, n) ==
    /\ RpcDeserialize(SubSeq(buffer, 1, n)) = requests[k + 1]
    /\ Holds(SubSeq(buffer, n + 1, Len(buffer)), tape, at[k + 1])
    /\ Len(SubSeq(buffer, n + 1, Len(buffer))) = Len(buffer) - n

\* A request all of whose bytes were read is taken as it was sent.
LEMMA BufferedRequest ==
    ASSUME NEW tape, NEW at, NEW requests \in Seq(Requests), Tape(tape, at, requests),
           NEW k \in Nat, k < Len(requests), NEW buffer, Holds(buffer, tape, at[k]),
           NEW n \in Nat, n = Len(RpcPayload(requests[k + 1])), n <= Len(buffer)
    PROVE  FirstTaken(buffer, tape, at, requests, k, n)
<1>1. PICK r \in Requests, p \in Seq(Byte) :
          r = requests[k + 1] /\ p = RpcPayload(r) /\ Len(p) = n /\ p = RpcPayload(requests[k + 1])
  BY RequestIn, PayloadIs
<1>2. buffer \in Seq(Byte) /\ Len(buffer) \in Nat
  BY DEF Holds
<1>3. SubSeq(buffer, 1, n) = p
  <2>1. 0 \in Nat /\ 0 <= n /\ 0 + 1 = 1 /\ n - 0 = n
    OBVIOUS
  <2>2. Part(SubSeq(buffer, 0 + 1, n), buffer, 0, n)
    BY <1>2, <2>1, SubBytes
  <2>3. PICK u \in Seq(Byte) : u = SubSeq(buffer, 1, n) /\ Part(u, buffer, 0, n)
    BY <2>1, <2>2 DEF Part
  <2>4. Len(u) = n /\ \A i \in Nat : i < n => ByteAt(u, i) = ByteAt(buffer, 0 + i)
    BY <2>1, <2>3 DEF Part
  <2>5. ASSUME NEW i \in Nat, i < n PROVE ByteAt(u, i) = ByteAt(p, i)
    <3>1. ByteAt(u, i) = ByteAt(buffer, i) /\ i < Len(buffer)
      BY <1>2, <2>4, <2>5
    <3>2. ByteAt(buffer, i) = tape[at[k] + i]
      BY <3>1 DEF Holds
    <3>3. tape[at[k] + i] = ByteAt(p, i)
      BY <1>1, <2>5 DEF Tape
    <3> QED BY <3>1, <3>2, <3>3
  <2>6. u = p
    BY <1>1, <2>4, <2>5, SameBytes
  <2> QED BY <2>3, <2>6
<1>4. RpcDeserialize(SubSeq(buffer, 1, n)) = requests[k + 1]
  BY <1>1, <1>3, RpcRead
<1>5. at[k + 1] = at[k] + n /\ at[k] \in Nat
  BY DEF Tape
<1>6. PICK v \in Seq(Byte) : v = SubSeq(buffer, n + 1, Len(buffer)) /\ Part(v, buffer, n, Len(buffer))
  <2>1. Len(buffer) <= Len(buffer)
    BY <1>2
  <2>2. Part(SubSeq(buffer, n + 1, Len(buffer)), buffer, n, Len(buffer))
    BY <1>2, <2>1, SubBytes
  <2> QED BY <2>2 DEF Part
<1>7. Len(v) = Len(buffer) - n
  BY <1>6 DEF Part
<1>8. ASSUME NEW j \in Nat, j < Len(v) PROVE ByteAt(v, j) = tape[at[k + 1] + j]
  <2>1. ByteAt(v, j) = ByteAt(buffer, n + j)
    BY <1>6, <1>7, <1>8 DEF Part
  <2>2. n + j \in Nat /\ n + j < Len(buffer) /\ at[k] + (n + j) = at[k + 1] + j
    <3>0. at[k] \in Nat /\ k + 1 \in Nat /\ at[k + 1] \in Nat
      BY TapeAt
    <3>1. PICK a \in Nat, b \in Nat, l \in Nat :
              a = at[k] /\ b = at[k + 1] /\ l = Len(buffer) /\ b = a + n
      BY <1>2, <1>5, <3>0, Zenon
    <3>2. j < l - n
      BY <1>7, <1>8, <3>1
    <3>3. n + j \in Nat /\ n + j < l /\ a + (n + j) = b + j
      <4>1. b = a + n
        BY <3>1
      <4>2. \A x, y, z \in Nat : j < z - n /\ y = x + n => n + j \in Nat /\ n + j < z /\ x + (n + j) = y + j
        OBVIOUS
      <4> QED BY <3>2, <4>1, <4>2
    <3> QED BY <3>1, <3>3, Zenon
  <2>3. ByteAt(buffer, n + j) = tape[at[k] + (n + j)]
    BY <2>2 DEF Holds
  <2> QED BY <2>1, <2>2, <2>3
<1>9. Holds(v, tape, at[k + 1])
  BY <1>8 DEF Holds
<1> QED BY <1>4, <1>6, <1>7, <1>9, Zenon DEF FirstTaken

\* What is left of the bytes up to the p-th and what was taken out of them, when
\* k requests had been handed over before.
Stages(tape, at, requests, k, p) ==
    {s \in [buffer : Seq(Byte), taken : Seq(Requests)] :
        /\ k + Len(s.taken) <= Len(requests)
        /\ \A i \in Nat : i < Len(s.taken) => s.taken[i + 1] = requests[k + i + 1]
        /\ Holds(s.buffer, tape, at[k + Len(s.taken)])
        /\ at[k + Len(s.taken)] + Len(s.buffer) = p}

Stuck(at, requests, k, p, s) == Incomplete(at, requests, k + Len(s.taken), p)

\* A turn of the loop takes the next request, if it is complete, and else nothing.
Turn(tape, at, requests, k, p, s) ==
    /\ TakeOne(s) \in Stages(tape, at, requests, k, p)
    /\ Stuck(at, requests, k, p, s) => TakeOne(s) = s
    /\ ~Stuck(at, requests, k, p, s) => Len(TakeOne(s).buffer) < Len(s.buffer)

\* Each turn is one: it uses the length of the next request.
LEMMA TakeOneKeeps ==
    ASSUME NEW tape, NEW at, NEW requests \in Seq(Requests), Tape(tape, at, requests),
           NEW k \in Nat, NEW p \in Nat, p <= at[Len(requests)],
           NEW s \in Stages(tape, at, requests, k, p)
    PROVE  Turn(tape, at, requests, k, p, s)
<1>1. PICK buffer \in Seq(Byte), taken \in Seq(Requests), m \in Nat, n \in Nat, l \in Nat, N \in Nat :
          /\ s = [buffer |-> buffer, taken |-> taken] /\ m = Len(taken) /\ n = k + m /\ l = Len(buffer)
          /\ N = Len(requests)
  <2>1. s \in [buffer : Seq(Byte), taken : Seq(Requests)]
    BY Zenon DEF Stages
  <2>2. PICK b \in Seq(Byte), t \in Seq(Requests) : s = [buffer |-> b, taken |-> t]
    BY <2>1
  <2>3. Len(b) \in Nat /\ Len(t) \in Nat /\ k + Len(t) \in Nat /\ Len(requests) \in Nat
    OBVIOUS
  <2> QED BY <2>2, <2>3, Zenon
<1>2. s.buffer = buffer /\ s.taken = taken
  BY <1>1
<1>3. /\ n <= N /\ Holds(buffer, tape, at[n]) /\ at[n] + l = p
      /\ \A i \in Nat : i < m => taken[i + 1] = requests[k + i + 1]
  BY <1>1, <1>2, Zenon DEF Stages
<1>4. at \in [Nat -> Nat] /\ at[n] \in Nat /\ at[N] \in Nat /\ p <= at[N]
  BY <1>1 DEF Tape
<1>5. Stuck(at, requests, k, p, s) <=> (n < N => p < at[n + 1])
  BY <1>1, <1>2, Zenon DEF Stuck, Incomplete
<1> DEFINE total == 8 + Number(ExtractInteger(buffer, 4))
<1>6. TakeOne(s) = IF l < 8 \/ l < total THEN s
                   ELSE [buffer |-> SubSeq(buffer, total + 1, l),
                         taken |-> Append(taken, RpcDeserialize(SubSeq(buffer, 1, total)))]
  BY <1>1, <1>2, Zenon DEF TakeOne
<1>7. CASE n = N
  <2>1. l = 0 /\ Stuck(at, requests, k, p, s)
    <3>1. PICK e \in Nat : e = at[N] /\ e = at[n]
      BY <1>4, <1>7
    <3>2. e + l = p /\ p <= e
      BY <1>3, <1>4, <3>1, Zenon
    <3>3. l = 0
      BY <3>2
    <3>4. ~(n < N)
      BY <1>7
    <3> QED BY <1>5, <3>3, <3>4, Zenon
  <2>2. TakeOne(s) = s
    BY <1>6, <2>1
  <2> QED BY <2>1, <2>2, Zenon DEF Turn
<1>8. CASE n < N
  <2>1. PICK size \in Nat : size = Len(RpcPayload(requests[n + 1])) /\ size >= 16 /\ at[n + 1] = at[n] + size
    <3>1. requests[n + 1] \in Requests
      BY <1>1, <1>8, RequestIn
    <3>2. at[n + 1] = at[n] + Len(RpcPayload(requests[n + 1]))
      BY <1>1, <1>8 DEF Tape
    <3> QED BY <3>1, <3>2, PayloadIs
  <2>0. PICK e \in Nat, e2 \in Nat : e = at[n] /\ e2 = at[n + 1] /\ e + l = p /\ e2 = e + size
    <3>1. at[n + 1] \in Nat
      <4>1. n + 1 \in Nat
        OBVIOUS
      <4> QED BY <1>4, <4>1
    <3> QED BY <1>3, <1>4, <2>1, <3>1, Zenon
  <2>2. Stuck(at, requests, k, p, s) <=> l < size
    <3>1. p < e2 <=> l < size
      <4>1. p = e + l /\ e2 = e + size
        BY <2>0
      <4>2. e + l < e + size <=> l < size
        OBVIOUS
      <4> QED BY <4>1, <4>2
    <3> QED BY <1>5, <1>8, <2>0, <3>1
  <2>3. l >= 8 => total = size
    <3> SUFFICES ASSUME l >= 8 PROVE total = size
      OBVIOUS
    <3>1. n < Len(requests) /\ Len(buffer) >= 8 /\ Holds(buffer, tape, at[n])
      BY <1>1, <1>3, <1>8
    <3>2. 8 + Number(ExtractInteger(buffer, 4)) = Len(RpcPayload(requests[n + 1]))
      BY <3>1, BufferedLength
    <3> QED BY <2>1, <3>2, Zenon
  <2>4. CASE l < size
    <3>1. TakeOne(s) = s
      <4>1. l < 8 \/ l < total
        BY <2>3, <2>4
      <4> QED BY <1>6, <4>1
    <3> QED BY <2>2, <2>4, <3>1, Zenon DEF Turn
  <2>5. CASE ~(l < size)
    <3>1. total = size /\ ~(l < 8) /\ ~(l < total)
      BY <2>1, <2>3, <2>5
    <3>2. PICK rest \in Seq(Byte) :
              /\ rest = SubSeq(buffer, size + 1, l) /\ Holds(rest, tape, at[n + 1]) /\ Len(rest) = l - size
              /\ RpcDeserialize(SubSeq(buffer, 1, size)) = requests[n + 1]
      <4>1. /\ size <= Len(buffer) /\ n < Len(requests) /\ Holds(buffer, tape, at[n])
            /\ size = Len(RpcPayload(requests[n + 1]))
        BY <1>1, <1>3, <1>8, <2>1, <2>5
      <4>2. FirstTaken(buffer, tape, at, requests, n, size)
        BY <4>1, BufferedRequest, Zenon
      <4> QED BY <1>1, <4>2, Zenon DEF Holds, FirstTaken
    <3>3. PICK r \in Requests, more \in Seq(Requests) : r = requests[n + 1] /\ more = Append(taken, r)
      <4>1. requests[n + 1] \in Requests
        BY <1>1, <1>8, RequestIn
      <4> QED BY <4>1, OneMore
    <3>4. /\ Len(more) = m + 1 /\ more[m + 1] = r
          /\ \A i \in Nat : i < m => more[i + 1] = taken[i + 1]
      <4>1. Len(more) = m + 1 /\ more[m + 1] = r /\ \A i \in 1 .. m : more[i] = taken[i]
        BY <1>1, <3>3, OneMore
      <4>2. \A i \in Nat : i < m => i + 1 \in 1 .. m
        OBVIOUS
      <4> QED BY <4>1, <4>2
    <3>5. PICK t : t = [buffer |-> rest, taken |-> more] /\ TakeOne(s) = t
      BY <1>6, <3>1, <3>2, <3>3
    <3>6. t.buffer = rest /\ t.taken = more /\ t \in [buffer : Seq(Byte), taken : Seq(Requests)]
      BY <3>5
    <3>7. k + (m + 1) = n + 1 /\ n + 1 <= N
      BY <1>1, <1>8
    <3>8. \A i \in Nat : i < m + 1 => more[i + 1] = requests[k + i + 1]
      <4>1. ASSUME NEW i \in Nat, i < m + 1 PROVE more[i + 1] = requests[k + i + 1]
        <5>1. CASE i < m
          BY <1>3, <3>4, <5>1
        <5>2. CASE i = m
          <6>1. k + i + 1 = n + 1
            BY <1>1, <5>2
          <6> QED BY <3>3, <3>4, <5>2, <6>1
        <5> QED BY <4>1, <5>1, <5>2
      <4> QED BY <4>1
    <3>9. at[n + 1] + Len(rest) = p
      <4>1. PICK x \in Nat : x = Len(rest) /\ x = l - size
        BY <3>2
      <4>2. e2 + x = p
        <5>1. x = l - size /\ e + l = p /\ e2 = e + size
          BY <2>0, <4>1
        <5> QED BY <5>1
      <4> QED BY <2>0, <4>1, <4>2
    <3>10. t \in Stages(tape, at, requests, k, p)
      BY <1>1, <3>2, <3>4, <3>6, <3>7, <3>8, <3>9 DEF Stages
    <3>11. Len(t.buffer) < Len(s.buffer)
      <4>1. l - size < l
        BY <2>1
      <4> QED BY <1>1, <1>2, <3>2, <3>6, <4>1
    <3> QED BY <2>2, <2>5, <3>5, <3>10, <3>11, Zenon DEF Turn
  <2> QED BY <2>4, <2>5
<1> QED BY <1>1, <1>3, <1>7, <1>8

\* What the loop leaves: no request is complete any more.
LEMMA LoopTakesAll ==
    ASSUME NEW tape, NEW at, NEW requests \in Seq(Requests), Tape(tape, at, requests),
           NEW k \in Nat, NEW p \in Nat, p <= at[Len(requests)], NEW buffer,
           Holds(buffer, tape, at[k]), at[k] + Len(buffer) = p, k <= Len(requests)
    PROVE  /\ TakeMessages(buffer) \in Stages(tape, at, requests, k, p)
           /\ Stuck(at, requests, k, p, TakeMessages(buffer))
<1> DEFINE S == Stages(tape, at, requests, k, p)
           start == [buffer |-> buffer, taken |-> << >>]
<1>1. PICK l \in Nat : l = Len(buffer)
  BY DEF Holds
<1>2. start \in S
  <2>1. start \in [buffer : Seq(Byte), taken : Seq(Requests)] /\ start.buffer = buffer /\ start.taken = << >>
    BY DEF Holds
  <2>2. Len(start.taken) = 0 /\ k + 0 = k
    BY <2>1
  <2>3. \A i \in Nat : i < Len(start.taken) => FALSE
    BY <2>2
  <2> QED BY <2>1, <2>2, <2>3 DEF Stages
<1>3. \A s \in S : Turn(tape, at, requests, k, p, s)
  BY TakeOneKeeps
<1>4. \A s \in S : TakeOne(s) \in S
  BY <1>3, Zenon DEF Turn
<1> DEFINE step == [x \in (1 .. l) \X S |-> TakeOne(x[2])]
<1> HIDE DEF S, start
<1>5. step \in StepsOf(l, S)
  <2>1. \A x \in (1 .. l) \X S : x[2] \in S
    OBVIOUS
  <2> QED BY <1>4, <2>1 DEF StepsOf
<1>6. PICK f : Iterates(l, S, start, step, f)
  <2> HIDE DEF step
  <2> QED BY <1>2, <1>5, RecursiveSteps, Zenon
<1>7. /\ f \in [0 .. l -> S] /\ f[0] = start
      /\ \A i \in 1 .. l : f[i] = TakeOne(f[i - 1])
  <2>1. f \in [0 .. l -> S] /\ f[0] = start /\ \A i \in 1 .. l : f[i] = step[<<i, f[i - 1]>>]
    <3> HIDE DEF step
    <3> QED BY <1>6, Zenon DEF Iterates
  <2>2. ASSUME NEW i \in 1 .. l PROVE f[i] = TakeOne(f[i - 1])
    <3>1. i - 1 \in 0 .. l
      OBVIOUS
    <3>2. f[i - 1] \in S
      BY <2>1, <3>1
    <3>3. step[<<i, f[i - 1]>>] = TakeOne(f[i - 1])
      BY <3>2
    <3>4. f[i] = step[<<i, f[i - 1]>>]
      <4> HIDE DEF step
      <4> QED BY <2>1
    <3> HIDE DEF step
    <3> QED BY <3>3, <3>4, Zenon
  <2> QED BY <2>1, <2>2
<1> DEFINE Def(g) == [i \in 0 .. l |-> IF i = 0 THEN start ELSE TakeOne(g[i - 1])]
<1>8. f = Def(f)
  <2>1. \A i \in 0 .. l : f[i] = Def(f)[i]
    BY <1>7
  <2> QED BY <1>7, <2>1
<1>9. PICK g : g = (CHOOSE h : h = Def(h)) /\ g = Def(g)
  <2> HIDE DEF Def
  <2> QED BY <1>8, Zenon
<1>10. TakeMessages(buffer) = g[l]
  BY <1>1, <1>9 DEF TakeMessages, start
<1>11. g[0] = start /\ \A i \in 1 .. l : g[i] = TakeOne(g[i - 1])
  <2>1. \A i \in 0 .. l : g[i] = IF i = 0 THEN start ELSE TakeOne(g[i - 1])
    BY <1>9
  <2>2. 0 \in 0 .. l /\ \A i \in 1 .. l : i \in 0 .. l /\ i # 0
    OBVIOUS
  <2> QED BY <2>1, <2>2
<1>12. g[l] = f[l] /\ l \in 0 .. l
  <2>1. SameSteps(l, g, f)
    BY <1>7, <1>11 DEF SameSteps
  <2>2. SameValues(l, g, f)
    BY <2>1, RecursiveSame
  <2> QED BY <2>2 DEF SameValues
<1>13. TakeMessages(buffer) \in S
  BY <1>7, <1>10, <1>12
<1> DEFINE Done(i) == Stuck(at, requests, k, p, f[i]) \/ Len(f[i].buffer) + i <= l
           G == {i \in Nat : i <= l => Done(i)}
<1>14. \A i \in 0 .. l : f[i] \in S /\ Turn(tape, at, requests, k, p, f[i]) /\ Len(f[i].buffer) \in Nat
  <2>1. \A s \in S : Len(s.buffer) \in Nat
    <3>1. \A s \in S : s.buffer \in Seq(Byte)
      BY DEF S, Stages
    <3> QED BY <3>1
  <2> QED BY <1>3, <1>7, <2>1
<1>15. 0 \in G
  <2>1. f[0].buffer = buffer
    BY <1>7 DEF start
  <2> QED BY <1>1, <2>1
<1>16. \A i \in Nat : i \in G => i + 1 \in G
  <2> SUFFICES ASSUME NEW i \in Nat, Done(i), i + 1 <= l PROVE Done(i + 1)
    <3>1. \A i \in Nat : i + 1 \in Nat /\ (i + 1 <= l => i <= l)
      OBVIOUS
    <3> HIDE DEF Done
    <3> QED BY <3>1
  <2>1. i \in 0 .. l /\ i + 1 \in 0 .. l /\ i + 1 \in 1 .. l /\ (i + 1) - 1 = i
    OBVIOUS
  <2>2. f[i + 1] = TakeOne(f[i])
    BY <1>7, <2>1
  <2>3. Turn(tape, at, requests, k, p, f[i])
    BY <1>14, <2>1
  <2>4. CASE Stuck(at, requests, k, p, f[i])
    <3>1. f[i + 1] = f[i]
      BY <2>2, <2>3, <2>4 DEF Turn
    <3> QED BY <2>4, <3>1
  <2>5. CASE ~Stuck(at, requests, k, p, f[i])
    <3>1. Len(f[i + 1].buffer) < Len(f[i].buffer)
      BY <2>2, <2>3, <2>5, Zenon DEF Turn
    <3>2. Len(f[i + 1].buffer) \in Nat /\ Len(f[i].buffer) \in Nat
      BY <1>14, <2>1
    <3>3. Len(f[i].buffer) + i <= l
      BY <2>5
    <3>4. \A x, y \in Nat : x < y /\ y + i <= l => x + (i + 1) <= l
      OBVIOUS
    <3> QED BY <3>1, <3>2, <3>3, <3>4
  <2> QED BY <2>4, <2>5
<1>17. Nat \subseteq G
  <2> HIDE DEF G
  <2> QED BY <1>15, <1>16, NatSetInduction
<1>18. Done(l)
  BY <1>17
<1>19. Stuck(at, requests, k, p, f[l])
  <2>1. CASE Len(f[l].buffer) + l <= l
    <3>1. Len(f[l].buffer) = 0 /\ f[l] \in S
      BY <1>12, <1>14, <2>1
    <3>2. PICK n \in Nat : n = k + Len(f[l].taken)
      <4>1. f[l].taken \in Seq(Requests)
        BY <3>1 DEF S, Stages
      <4> QED BY <4>1
    <3>3. at[n] = p
      <4>1. at[n] + Len(f[l].buffer) = p
        BY <3>1, <3>2 DEF S, Stages
      <4>2. at[n] \in Nat
        BY DEF Tape
      <4> QED BY <3>1, <4>1, <4>2
    <3>4. ASSUME n < Len(requests) PROVE p < at[n + 1]
      <4>1. requests[n + 1] \in Requests
        BY <3>4, RequestIn
      <4>2. at[n + 1] = at[n] + Len(RpcPayload(requests[n + 1]))
        BY <3>4 DEF Tape
      <4>3. PICK size \in Nat : size = Len(RpcPayload(requests[n + 1])) /\ size >= 16
        BY <4>1, PayloadIs
      <4> QED BY <3>3, <4>2, <4>3
    <3> QED BY <3>2, <3>4 DEF Stuck, Incomplete
  <2> QED BY <1>18, <2>1
<1> QED BY <1>10, <1>12, <1>13, <1>19, Zenon DEF S

\* Where the reader of a stream is: what it handed over, what it keeps and what is
\* still to be read are together all that was written.
Laid(tape, at, requests, taken, buffer, bytes) ==
    LET k == Len(taken)
        p == at[k] + Len(buffer)
    IN  /\ Tape(tape, at, requests)
        /\ Holds(buffer, tape, at[k]) /\ Holds(bytes, tape, p) /\ p + Len(bytes) = at[Len(requests)]
        /\ Incomplete(at, requests, k, p)

Handed(requests, taken) ==
    /\ requests \in Seq(Requests) /\ taken \in Seq(Requests) /\ Len(taken) <= Len(requests)
    /\ \A i \in Nat : i < Len(taken) => taken[i + 1] = requests[i + 1]

StreamInv ==
    /\ Handed(requested, invoked)
    /\ \E tape, at : Laid(tape, at, requested, invoked, mReceiveBuffer, stream)

\* Nothing was written yet.
LEMMA StreamStarts == WireInit => StreamInv
<1> SUFFICES ASSUME WireInit PROVE StreamInv
  OBVIOUS
<1>1. stream = << >> /\ mReceiveBuffer = << >> /\ requested = << >> /\ invoked = << >>
  BY DEF WireInit
<1>2. << >> \in Seq(Requests) /\ << >> \in Seq(Byte) /\ Len(<< >>) = 0 /\ \A i \in Nat : ~(i < 0)
  OBVIOUS
<1>3. Handed(<< >>, << >>)
  BY <1>2 DEF Handed
<1>4. PICK zero \in [Nat -> Nat], blank \in [Nat -> Byte] : zero = [i \in Nat |-> 0]
  <2>1. 0 \in Byte
    BY DEF Byte
  <2>2. [i \in Nat |-> 0] \in [Nat -> Byte] /\ [i \in Nat |-> 0] \in [Nat -> Nat]
    BY <2>1
  <2> QED BY <2>2
<1>5. zero[0] = 0 /\ zero[0] + 0 = 0
  BY <1>4
<1>6. Tape(blank, zero, << >>)
  BY <1>2, <1>5 DEF Tape
<1>7. Holds(<< >>, blank, zero[0]) /\ Holds(<< >>, blank, 0)
  BY <1>2 DEF Holds
<1>8. Incomplete(zero, << >>, 0, 0)
  BY <1>2 DEF Incomplete
<1>9. Laid(blank, zero, << >>, << >>, << >>, << >>)
  BY <1>2, <1>5, <1>6, <1>7, <1>8 DEF Laid
<1> QED BY <1>1, <1>3, <1>9, Zenon DEF StreamInv

\* The tape with another request at its end.
Extended(tape, at, tape2, at2, n, payload) ==
    /\ \A i \in Nat : i <= n => at2[i] = at[i]
    /\ at2[n + 1] = at[n] + Len(payload)
    /\ \A i \in Nat : i < at[n] => tape2[i] = tape[i]
    /\ \A j \in Nat : tape2[at[n] + j] = ByteAt(payload, j)

\* There is one with another request at its end.
LEMMA TapeExtends ==
    ASSUME NEW tape, NEW at, NEW requests \in Seq(Requests), Tape(tape, at, requests), NEW r \in Requests
    PROVE  \E tape2, at2 :
               /\ Tape(tape2, at2, Append(requests, r))
               /\ Extended(tape, at, tape2, at2, Len(requests), RpcPayload(r))
<1>1. PICK n \in Nat : n = Len(requests)
  OBVIOUS
<1>2. PICK payload \in Seq(Byte), l \in Nat : payload = RpcPayload(r) /\ l = Len(payload)
  BY PayloadIs
<1>3. tape \in [Nat -> Byte] /\ at \in [Nat -> Nat] /\ at[0] = 0
  BY DEF Tape
<1>4. PICK e \in Nat : e = at[n]
  BY <1>3
<1>5. PICK at2 \in [Nat -> Nat] : at2 = [i \in Nat |-> IF i <= n THEN at[i] ELSE e + l]
  <2>1. \A i \in Nat : (IF i <= n THEN at[i] ELSE e + l) \in Nat
    BY <1>3
  <2> QED BY <2>1
<1>6. PICK tape2 \in [Nat -> Byte] :
          tape2 = [i \in Nat |-> IF i < e THEN tape[i] ELSE ByteAt(payload, i - e)]
  <2>1. \A i \in Nat : ~(i < e) => i - e \in Nat
    OBVIOUS
  <2>2. \A i \in Nat : ByteAt(payload, i) \in Byte
    BY ByteAtIs
  <2>3. \A i \in Nat : (IF i < e THEN tape[i] ELSE ByteAt(payload, i - e)) \in Byte
    BY <1>3, <2>1, <2>2
  <2> QED BY <2>3
<1>7. /\ \A i \in Nat : i <= n => at2[i] = at[i]
      /\ at2[n + 1] = e + l
  BY <1>5
<1>8. /\ \A i \in Nat : i < e => tape2[i] = tape[i]
      /\ \A j \in Nat : tape2[e + j] = ByteAt(payload, j)
  <2>1. \A j \in Nat : e + j \in Nat /\ ~(e + j < e) /\ (e + j) - e = j
    OBVIOUS
  <2> QED BY <1>6, <2>1
<1>9. Extended(tape, at, tape2, at2, n, payload)
  BY <1>2, <1>4, <1>7, <1>8, Zenon DEF Extended
<1>10. PICK more \in Seq(Requests) :
           /\ more = Append(requests, r) /\ Len(more) = n + 1 /\ more[n + 1] = r
           /\ \A i \in Nat : i < n => more[i + 1] = requests[i + 1]
  <2>1. \A i \in Nat : i < n => i + 1 \in 1 .. n
    OBVIOUS
  <2>2. /\ Append(requests, r) \in Seq(Requests) /\ Len(Append(requests, r)) = n + 1
        /\ Append(requests, r)[n + 1] = r
        /\ \A i \in 1 .. n : Append(requests, r)[i] = requests[i]
    BY <1>1, OneMore
  <2> QED BY <2>1, <2>2
<1>11. at2[0] = 0
  BY <1>3, <1>7
<1>12. ASSUME NEW i \in Nat, i < n + 1
       PROVE  /\ at2[i + 1] = at2[i] + Len(RpcPayload(more[i + 1]))
              /\ \A j \in Nat : j < Len(RpcPayload(more[i + 1]))
                    => tape2[at2[i] + j] = ByteAt(RpcPayload(more[i + 1]), j)
  <2>1. CASE i < n
    <3>1. PICK q \in Requests, a \in Nat, b \in Nat, size \in Nat :
              /\ q = requests[i + 1] /\ a = at[i] /\ b = at[i + 1] /\ size = Len(RpcPayload(q))
              /\ b = a + size
              /\ \A j \in Nat : j < size => tape[a + j] = ByteAt(RpcPayload(q), j)
      <4>1. requests[i + 1] \in Requests /\ i < Len(requests)
        BY <1>1, <2>1, RequestIn
      <4>2. at[i] \in Nat /\ at[i + 1] \in Nat
        BY TapeAt
      <4>3. Len(RpcPayload(requests[i + 1])) \in Nat
        BY <4>1, PayloadIs
      <4>4. /\ at[i + 1] = at[i] + Len(RpcPayload(requests[i + 1]))
            /\ \A j \in Nat : j < Len(RpcPayload(requests[i + 1]))
                  => tape[at[i] + j] = ByteAt(RpcPayload(requests[i + 1]), j)
        BY <4>1 DEF Tape
      <4> QED BY <4>1, <4>2, <4>3, <4>4, Zenon
    <3>2. more[i + 1] = q
      BY <1>10, <2>1, <3>1
    <3>3. at2[i] = a /\ at2[i + 1] = b
      <4>1. i <= n /\ i + 1 \in Nat /\ i + 1 <= n
        BY <2>1
      <4> QED BY <1>7, <3>1, <4>1
    <3>4. b <= e
      <4>1. i + 1 \in Nat /\ i + 1 <= Len(requests)
        BY <1>1, <2>1
      <4>2. at[i + 1] <= at[Len(requests)]
        BY <4>1, TapeGrows
      <4> QED BY <1>1, <1>4, <3>1, <4>2
    <3>5. ASSUME NEW j \in Nat, j < size PROVE tape2[a + j] = ByteAt(RpcPayload(q), j)
      <4>1. b = a + size
        BY <3>1
      <4>2. a + j \in Nat /\ a + j < e
        BY <3>4, <3>5, <4>1
      <4>3. tape2[a + j] = tape[a + j]
        BY <1>8, <4>2
      <4> QED BY <3>1, <3>5, <4>3
    <3> QED BY <3>1, <3>2, <3>3, <3>5, Zenon
  <2>2. CASE i = n
    <3>1. at2[i] = e /\ at2[i + 1] = e + l /\ more[i + 1] = r
      <4>1. n <= n
        OBVIOUS
      <4> QED BY <1>4, <1>7, <1>10, <2>2, <4>1
    <3> QED BY <1>2, <1>8, <3>1, Zenon
  <2> QED BY <1>12, <2>1, <2>2
<1>13. Tape(tape2, at2, more)
  BY <1>10, <1>11, <1>12 DEF Tape
<1> QED BY <1>1, <1>2, <1>9, <1>10, <1>13, Zenon

Placed(tape, at, requests, taken, buffer, bytes, k, n, p, a, e) ==
    /\ k = Len(taken) /\ n = Len(requests) /\ a = at[k] /\ e = at[n]
    /\ p = a + Len(buffer) /\ p + Len(bytes) = e /\ k <= n
    /\ Len(buffer) \in Nat /\ Len(bytes) \in Nat
    /\ Tape(tape, at, requests) /\ Holds(buffer, tape, a) /\ Holds(bytes, tape, p)
    /\ Incomplete(at, requests, k, p)

\* Those places as numbers.
LEMMA LaidParts ==
    ASSUME NEW tape, NEW at, NEW requests, NEW taken, NEW buffer, NEW bytes,
           Handed(requests, taken), Laid(tape, at, requests, taken, buffer, bytes)
    PROVE  \E k \in Nat, n \in Nat, p \in Nat, a \in Nat, e \in Nat :
               Placed(tape, at, requests, taken, buffer, bytes, k, n, p, a, e)
<1>1. Len(taken) \in Nat /\ Len(requests) \in Nat /\ Len(taken) <= Len(requests)
  BY DEF Handed
<1>2. /\ Tape(tape, at, requests) /\ Holds(buffer, tape, at[Len(taken)])
      /\ Holds(bytes, tape, at[Len(taken)] + Len(buffer))
      /\ (at[Len(taken)] + Len(buffer)) + Len(bytes) = at[Len(requests)]
      /\ Incomplete(at, requests, Len(taken), at[Len(taken)] + Len(buffer))
  BY DEF Laid
<1>3. at[Len(taken)] \in Nat /\ at[Len(requests)] \in Nat
  BY <1>1, <1>2, TapeAt, Zenon
<1>4. Len(buffer) \in Nat /\ Len(bytes) \in Nat
  BY <1>2 DEF Holds
<1>5. at[Len(taken)] + Len(buffer) \in Nat
  BY <1>3, <1>4
<1> QED BY <1>1, <1>2, <1>3, <1>4, <1>5, Zenon DEF Placed

\* A client writes another request.
LEMMA SendKeepsStream ==
    ASSUME StreamInv, NEW r \in Requests, RpcSend(r)
    PROVE  StreamInv'
<1>1. PICK tape, at : Laid(tape, at, requested, invoked, mReceiveBuffer, stream)
  BY DEF StreamInv
<1>2. Handed(requested, invoked)
  BY DEF StreamInv
<1>3. PICK k \in Nat, n \in Nat, p \in Nat, a \in Nat, e \in Nat :
          /\ k = Len(invoked) /\ n = Len(requested) /\ a = at[k] /\ e = at[n]
          /\ p = a + Len(mReceiveBuffer) /\ p + Len(stream) = e /\ k <= n
          /\ Len(mReceiveBuffer) \in Nat /\ Len(stream) \in Nat
          /\ Tape(tape, at, requested) /\ Holds(mReceiveBuffer, tape, a) /\ Holds(stream, tape, p)
          /\ Incomplete(at, requested, k, p)
  <2>1. PICK k \in Nat, n \in Nat, p \in Nat, a \in Nat, e \in Nat :
            Placed(tape, at, requested, invoked, mReceiveBuffer, stream, k, n, p, a, e)
    BY <1>1, <1>2, LaidParts, Zenon
  <2> QED BY <2>1, Zenon DEF Placed
<1>4. PICK payload \in Seq(Byte), l \in Nat : payload = RpcPayload(r) /\ l = Len(payload) /\ l >= 16
  BY PayloadIs
<1>5. requested \in Seq(Requests)
  BY <1>2 DEF Handed
<1>6. PICK more : more = requested'
  OBVIOUS
<1>7. /\ more \in Seq(Requests) /\ Len(more) = n + 1 /\ more = Append(requested, r)
      /\ \A i \in Nat : i < n => more[i + 1] = requested[i + 1]
  <2>1. more = Append(requested, r)
    BY <1>6 DEF RpcSend
  <2>2. more \in Seq(Requests) /\ Len(more) = n + 1 /\ \A i \in 1 .. n : more[i] = requested[i]
    BY <1>3, <1>5, <2>1, OneMore
  <2>3. \A i \in Nat : i < n => i + 1 \in 1 .. n
    OBVIOUS
  <2> QED BY <2>1, <2>2, <2>3
<1>8. PICK tape2, at2 : Tape(tape2, at2, more) /\ Extended(tape, at, tape2, at2, n, payload)
  BY <1>3, <1>4, <1>5, <1>7, TapeExtends, Zenon
<1>9. /\ \A i \in Nat : i <= n => at2[i] = at[i]
      /\ at2[n + 1] = e + l
      /\ \A i \in Nat : i < e => tape2[i] = tape[i]
      /\ \A j \in Nat : tape2[e + j] = ByteAt(payload, j)
  BY <1>3, <1>4, <1>8, Zenon DEF Extended
<1>10. at2[k] = a
  BY <1>3, <1>9
<1>11. Holds(mReceiveBuffer, tape2, a)
  <2>1. ASSUME NEW j \in Nat, j < Len(mReceiveBuffer) PROVE ByteAt(mReceiveBuffer, j) = tape2[a + j]
    <3>1. ByteAt(mReceiveBuffer, j) = tape[a + j]
      BY <1>3, <2>1 DEF Holds
    <3>2. PICK b \in Nat, d \in Nat : b = Len(mReceiveBuffer) /\ d = Len(stream) /\ p = a + b /\ p + d = e
      BY <1>3, Zenon
    <3>3. a + j \in Nat /\ a + j < e
      <4>1. j < b
        BY <2>1, <3>2
      <4>2. p = a + b /\ p + d = e
        BY <3>2
      <4> QED BY <4>1, <4>2
    <3> QED BY <1>9, <3>1, <3>3
  <2> QED BY <1>3, <2>1 DEF Holds
<1>12. PICK bytes \in Seq(Byte) : bytes = stream \o payload /\ Joined(bytes, stream, payload)
  <2>1. stream \in Seq(Byte)
    BY <1>3 DEF Holds
  <2> QED BY <2>1, SomeJoined, Zenon
<1>13. Holds(bytes, tape2, p)
  <2>1. PICK d \in Nat : d = Len(stream) /\ p + d = e
    BY <1>3, Zenon
  <2>2. JoinedTo(bytes, stream, payload, d)
    BY <1>12, <2>1, JoinedAt, Zenon
  <2>3. ASSUME NEW j \in Nat, j < Len(bytes) PROVE ByteAt(bytes, j) = tape2[p + j]
    <3>1. CASE j < d
      <4>1. ByteAt(bytes, j) = ByteAt(stream, j)
        BY <2>2, <3>1 DEF JoinedTo
      <4>2. ByteAt(stream, j) = tape[p + j]
        BY <1>3, <2>1, <3>1 DEF Holds
      <4>3. p + j \in Nat /\ p + j < e
        <5>1. p + d = e
          BY <2>1
        <5> QED BY <3>1, <5>1
      <4> QED BY <1>9, <4>1, <4>2, <4>3
    <3>2. CASE ~(j < d)
      <4>1. PICK i \in Nat : j = d + i
        <5>1. j - d \in Nat /\ j = d + (j - d)
          BY <3>2
        <5> QED BY <5>1
      <4>2. ByteAt(bytes, d + i) = ByteAt(payload, i)
        BY <2>2 DEF JoinedTo
      <4>3. p + j = e + i
        <5>1. p + d = e
          BY <2>1
        <5> QED BY <4>1, <5>1
      <4> QED BY <1>9, <4>1, <4>2, <4>3
    <3> QED BY <3>1, <3>2
  <2> QED BY <2>3 DEF Holds
<1>14. p + Len(bytes) = at2[n + 1]
  <2>1. PICK d \in Nat : d = Len(stream) /\ p + d = e /\ Len(bytes) = d + l
    BY <1>3, <1>4, <1>12 DEF Joined
  <2>2. p + (d + l) = e + l
    <3>1. p + d = e
      BY <2>1
    <3> QED BY <3>1
  <2> QED BY <1>9, <2>1, <2>2
<1>15. Incomplete(at2, more, k, p)
  <2>1. CASE k < n
    <3>1. p < at[k + 1]
      BY <1>3, <2>1 DEF Incomplete
    <3>2. k + 1 \in Nat /\ k + 1 <= n
      BY <2>1
    <3> QED BY <1>9, <3>1, <3>2 DEF Incomplete
  <2>2. CASE k = n
    <3>1. p <= e
      BY <1>3
    <3>2. p < at2[k + 1]
      <4>1. p < e + l
        BY <1>4, <3>1
      <4> QED BY <1>9, <2>2, <4>1
    <3> QED BY <3>2 DEF Incomplete
  <2> QED BY <1>3, <2>1, <2>2
<1>16. Laid(tape2, at2, more, invoked, mReceiveBuffer, bytes)
  BY <1>3, <1>7, <1>8, <1>10, <1>11, <1>13, <1>14, <1>15, Zenon DEF Laid
<1>17. Handed(more, invoked)
  <2>1. k <= n + 1 /\ \A i \in Nat : i < k => i < n
    <3>1. k <= n
      BY <1>3
    <3> QED BY <3>1
  <2> QED BY <1>2, <1>3, <1>7, <2>1 DEF Handed
<1>18. stream' = bytes /\ mReceiveBuffer' = mReceiveBuffer /\ invoked' = invoked
  BY <1>4, <1>12 DEF RpcSend
<1> QED BY <1>6, <1>16, <1>17, <1>18, Zenon DEF StreamInv

\* A part of such bytes.
LEMMA HoldsPart ==
    ASSUME NEW s, NEW tape, NEW p \in Nat, Holds(s, tape, p), NEW m \in Nat, NEW n \in Nat,
           m <= n, n <= Len(s), NEW u, Part(u, s, m, n)
    PROVE  Holds(u, tape, p + m)
<1>1. u \in Seq(Byte) /\ Len(u) = n - m /\ \A i \in Nat : i < n - m => ByteAt(u, i) = ByteAt(s, m + i)
  BY DEF Part
<1>2. \A i \in Nat : i < Len(s) => ByteAt(s, i) = tape[p + i]
  BY DEF Holds
<1>3. PICK l \in Nat : l = Len(s)
  BY DEF Holds
<1>4. ASSUME NEW j \in Nat, j < n - m PROVE ByteAt(u, j) = tape[(p + m) + j]
  <2>1. m + j \in Nat /\ m + j < l /\ p + (m + j) = (p + m) + j
    <3>1. n <= l
      BY <1>3
    <3> QED BY <1>4, <3>1
  <2>2. ByteAt(s, m + j) = tape[p + (m + j)]
    BY <1>2, <1>3, <2>1
  <2>3. ByteAt(u, j) = ByteAt(s, m + j)
    BY <1>1, <1>4
  <2> QED BY <2>1, <2>2, <2>3
<1> QED BY <1>1, <1>4 DEF Holds

\* Such bytes and those that follow them.
LEMMA HoldsJoined ==
    ASSUME NEW s, NEW t, NEW u, NEW tape, NEW p \in Nat, NEW l \in Nat, l = Len(s),
           Holds(s, tape, p), Holds(t, tape, p + l), Joined(u, s, t)
    PROVE  Holds(u, tape, p)
<1>1. JoinedTo(u, s, t, l)
  BY JoinedAt, Zenon
<1>2. u \in Seq(Byte)
  BY DEF Joined
<1>3. PICK d \in Nat : d = Len(t) /\ Len(u) = l + d
  BY <1>1 DEF Holds, JoinedTo
<1>4. ASSUME NEW j \in Nat, j < Len(u) PROVE ByteAt(u, j) = tape[p + j]
  <2>1. CASE j < l
    <3>1. ByteAt(u, j) = ByteAt(s, j)
      BY <1>1, <2>1 DEF JoinedTo
    <3>2. ByteAt(s, j) = tape[p + j]
      BY <2>1 DEF Holds
    <3> QED BY <3>1, <3>2
  <2>2. CASE ~(j < l)
    <3>1. PICK i \in Nat : j = l + i
      <4>1. j - l \in Nat /\ j = l + (j - l)
        BY <2>2
      <4> QED BY <4>1
    <3>2. i < d
      BY <1>3, <1>4, <3>1
    <3>3. ByteAt(u, l + i) = ByteAt(t, i)
      BY <1>1 DEF JoinedTo
    <3>4. ByteAt(t, i) = tape[(p + l) + i]
      BY <1>3, <3>2 DEF Holds
    <3>5. (p + l) + i = p + j
      BY <3>1
    <3> QED BY <3>1, <3>3, <3>4, <3>5
  <2> QED BY <2>1, <2>2
<1> QED BY <1>2, <1>4 DEF Holds

\* The server reads the next part of the stream and takes what is complete.
LEMMA ReceiveKeepsStream ==
    ASSUME StreamInv, NEW c \in 1 .. Len(stream), RpcReceive(c)
    PROVE  StreamInv'
<1>1. PICK tape, at : Laid(tape, at, requested, invoked, mReceiveBuffer, stream)
  BY DEF StreamInv
<1>2. Handed(requested, invoked)
  BY DEF StreamInv
<1>3. PICK k \in Nat, n \in Nat, p \in Nat, a \in Nat, e \in Nat :
          /\ k = Len(invoked) /\ n = Len(requested) /\ a = at[k] /\ e = at[n]
          /\ p = a + Len(mReceiveBuffer) /\ p + Len(stream) = e /\ k <= n
          /\ Len(mReceiveBuffer) \in Nat /\ Len(stream) \in Nat
          /\ Tape(tape, at, requested) /\ Holds(mReceiveBuffer, tape, a) /\ Holds(stream, tape, p)
          /\ Incomplete(at, requested, k, p)
  <2>1. PICK k \in Nat, n \in Nat, p \in Nat, a \in Nat, e \in Nat :
            Placed(tape, at, requested, invoked, mReceiveBuffer, stream, k, n, p, a, e)
    BY <1>1, <1>2, LaidParts, Zenon
  <2> QED BY <2>1, Zenon DEF Placed
<1>4. /\ requested \in Seq(Requests) /\ invoked \in Seq(Requests)
      /\ \A i \in Nat : i < k => invoked[i + 1] = requested[i + 1]
  BY <1>2, <1>3 DEF Handed
<1>5. mReceiveBuffer \in Seq(Byte) /\ stream \in Seq(Byte)
  BY <1>3 DEF Holds
<1>6. PICK b \in Nat, d \in Nat :
          b = Len(mReceiveBuffer) /\ d = Len(stream) /\ p = a + b /\ p + d = e /\ c \in Nat /\ c <= d
  <2>1. c \in Nat /\ c <= Len(stream)
    OBVIOUS
  <2> QED BY <1>3, <2>1, Zenon
<1>7. PICK part \in Seq(Byte) : part = SubSeq(stream, 1, c) /\ Part(part, stream, 0, c)
  <2>1. 0 \in Nat /\ 0 <= c /\ c <= Len(stream) /\ 0 + 1 = 1
    BY <1>6
  <2>2. Part(SubSeq(stream, 0 + 1, c), stream, 0, c)
    BY <1>5, <1>6, <2>1, SubBytes
  <2> QED BY <2>1, <2>2 DEF Part
<1>8. PICK rest \in Seq(Byte) : rest = SubSeq(stream, c + 1, d) /\ Part(rest, stream, c, d)
  <2>1. c <= d /\ d <= Len(stream)
    BY <1>6
  <2>2. Part(SubSeq(stream, c + 1, d), stream, c, d)
    BY <1>5, <1>6, <2>1, SubBytes
  <2> QED BY <2>2 DEF Part
<1>9. Len(part) = c /\ Len(rest) = d - c
  BY <1>6, <1>7, <1>8 DEF Part
<1>10. Holds(part, tape, p) /\ Holds(rest, tape, p + c)
  <2>1. 0 \in Nat /\ 0 <= c /\ c <= Len(stream) /\ p + 0 = p /\ c <= d /\ d <= Len(stream)
    BY <1>6
  <2>2. Holds(part, tape, p + 0)
    BY <1>3, <1>6, <1>7, <2>1, HoldsPart
  <2>3. Holds(rest, tape, p + c)
    BY <1>3, <1>6, <1>8, <2>1, HoldsPart
  <2> QED BY <2>1, <2>2, <2>3
<1>11. PICK buffer \in Seq(Byte) : buffer = mReceiveBuffer \o part /\ Joined(buffer, mReceiveBuffer, part)
  BY <1>5, SomeJoined, Zenon
<1>12. Holds(buffer, tape, a)
  <2>1. p = a + b /\ b = Len(mReceiveBuffer)
    BY <1>6
  <2>2. Holds(part, tape, a + b)
    BY <1>10, <2>1, Zenon
  <2> QED BY <1>3, <1>11, <2>1, <2>2, HoldsJoined, Zenon
<1>13. PICK q \in Nat : q = p + c /\ a + Len(buffer) = q
  <2>1. Len(buffer) = b + c
    BY <1>6, <1>9, <1>11 DEF Joined
  <2>2. p + c \in Nat /\ a + (b + c) = p + c
    BY <1>6
  <2> QED BY <2>1, <2>2
<1>14. PICK s : s = TakeMessages(buffer)
  OBVIOUS
<1>15. s \in Stages(tape, at, requested, k, q) /\ Stuck(at, requested, k, q, s)
  <2>1. q <= at[Len(requested)] /\ k <= Len(requested)
    <3>1. p + d = e /\ c <= d /\ q = p + c /\ c \in Nat
      BY <1>6, <1>13
    <3>2. q <= e
      BY <3>1
    <3>3. e = at[Len(requested)] /\ n = Len(requested) /\ k <= n
      BY <1>3
    <3> QED BY <3>2, <3>3
  <2>2. Holds(buffer, tape, at[k]) /\ at[k] + Len(buffer) = q
    BY <1>3, <1>12, <1>13
  <2> QED BY <1>3, <1>4, <1>14, <2>1, <2>2, LoopTakesAll, Zenon
<1>16. PICK left \in Seq(Byte), taken \in Seq(Requests), m \in Nat :
           s.buffer = left /\ s.taken = taken /\ m = Len(taken)
  <2>1. s \in [buffer : Seq(Byte), taken : Seq(Requests)]
    BY <1>15 DEF Stages
  <2>2. s.buffer \in Seq(Byte) /\ s.taken \in Seq(Requests)
    BY <2>1
  <2>3. Len(s.taken) \in Nat
    BY <2>2
  <2> QED BY <2>2, <2>3, Zenon
<1>17. /\ k + m <= n /\ \A i \in Nat : i < m => taken[i + 1] = requested[k + i + 1]
       /\ Holds(left, tape, at[k + m]) /\ at[k + m] + Len(left) = q
  BY <1>3, <1>15, <1>16, Zenon DEF Stages
<1>18. Incomplete(at, requested, k + m, q)
  BY <1>15, <1>16 DEF Stuck
<1>19. PICK handed \in Seq(Requests) :
           /\ handed = invoked \o taken /\ Len(handed) = k + m
           /\ \A i \in Nat : i < k + m => handed[i + 1] = requested[i + 1]
  <2>1. /\ invoked \o taken \in Seq(Requests) /\ Len(invoked \o taken) = Len(invoked) + Len(taken)
        /\ \A i \in 1 .. Len(invoked) : (invoked \o taken)[i] = invoked[i]
        /\ \A i \in 1 .. Len(taken) : (invoked \o taken)[Len(invoked) + i] = taken[i]
    BY <1>4, Concat
  <2>2. PICK u \in Seq(Requests) :
           /\ u = invoked \o taken /\ Len(u) = k + m
           /\ \A i \in 1 .. k : u[i] = invoked[i]
           /\ \A i \in 1 .. m : u[k + i] = taken[i]
    BY <1>3, <1>16, <2>1, Zenon
  <2>3. ASSUME NEW i \in Nat, i < k + m PROVE u[i + 1] = requested[i + 1]
    <3>1. CASE i < k
      <4>1. i + 1 \in 1 .. k
        BY <3>1
      <4> QED BY <1>4, <2>2, <3>1, <4>1
    <3>2. CASE ~(i < k)
      <4>1. PICK j \in Nat : i = k + j /\ j < m
        <5>1. i - k \in Nat /\ i = k + (i - k) /\ i - k < m
          BY <2>3, <3>2
        <5> QED BY <5>1
      <4>2. j + 1 \in 1 .. m /\ k + (j + 1) = i + 1 /\ k + j + 1 = i + 1
        BY <4>1
      <4>3. u[k + (j + 1)] = taken[j + 1]
        BY <2>2, <4>2
      <4>4. taken[j + 1] = requested[k + j + 1]
        BY <1>17, <4>1
      <4> QED BY <4>2, <4>3, <4>4
    <3> QED BY <3>1, <3>2
  <2> QED BY <2>2, <2>3
<1>20. q + Len(rest) = e
  <2>1. q + (d - c) = e
    <3>1. p + d = e /\ c <= d /\ q = p + c /\ c \in Nat
      BY <1>6, <1>13
    <3> QED BY <3>1
  <2> QED BY <1>9, <2>1
<1>21. Laid(tape, at, requested, handed, left, rest)
  BY <1>3, <1>10, <1>13, <1>17, <1>18, <1>19, <1>20, Zenon DEF Laid
<1>22. Handed(requested, handed)
  BY <1>3, <1>4, <1>17, <1>19, Zenon DEF Handed
<1>23. stream' = rest /\ mReceiveBuffer' = left /\ invoked' = handed /\ requested' = requested
  <2>1. mReceiveBuffer \o SubSeq(stream, 1, c) = buffer
    BY <1>7, <1>11, Zenon
  <2>2. stream' = SubSeq(stream, c + 1, d)
    BY <1>6 DEF RpcReceive
  <2>3. mReceiveBuffer' = TakeMessages(buffer).buffer /\ invoked' = invoked \o TakeMessages(buffer).taken
    BY <2>1, Zenon DEF RpcReceive
  <2>4. requested' = requested
    BY DEF RpcReceive
  <2> QED BY <1>8, <1>14, <1>16, <1>19, <2>2, <2>3, <2>4, Zenon
<1> QED BY <1>21, <1>22, <1>23, Zenon DEF StreamInv

\* Every step keeps the place of the reader.
LEMMA StreamSteps == StreamInv /\ [SdNext \/ StreamNext]_wireVars => StreamInv'
<1> SUFFICES ASSUME StreamInv, [SdNext \/ StreamNext]_wireVars PROVE StreamInv'
  OBVIOUS
<1>1. CASE UNCHANGED streamVars
  <2>1. /\ stream' = stream /\ mReceiveBuffer' = mReceiveBuffer /\ requested' = requested
        /\ invoked' = invoked
    BY <1>1 DEF streamVars
  <2> QED BY <2>1, Zenon DEF StreamInv
<1>2. CASE SdNext
  <2>1. UNCHANGED streamVars
    BY <1>2, Zenon DEF SdNext, CreateEntry, AddOption, AddEntry, IncrementSessionId, SdSend, SdReceive
  <2> QED BY <1>1, <2>1
<1>3. CASE StreamNext
  <2>1. CASE \E r \in Requests : RpcSend(r)
    BY <2>1, SendKeepsStream
  <2>2. CASE \E c \in 1 .. Len(stream) : RpcReceive(c)
    BY <2>2, ReceiveKeepsStream
  <2> QED BY <1>3, <2>1, <2>2 DEF StreamNext
<1>4. CASE UNCHANGED wireVars
  BY <1>1, <1>4 DEF wireVars
<1> QED BY <1>2, <1>3, <1>4

\* A sequence of no length is empty.
LEMMA NoBytes ==
    ASSUME NEW s \in Seq(Byte), Len(s) = 0
    PROVE  s = << >>
OBVIOUS

\* A reader whose place is right has cut the stream rightly.
LEMMA StreamIsCutIn == StreamInv => StreamIsCut
<1> SUFFICES ASSUME StreamInv PROVE StreamIsCut
  OBVIOUS
<1>1. PICK tape, at : Laid(tape, at, requested, invoked, mReceiveBuffer, stream)
  BY DEF StreamInv
<1>2. Handed(requested, invoked)
  BY DEF StreamInv
<1>3. PICK k \in Nat, n \in Nat, p \in Nat, a \in Nat, e \in Nat :
          /\ k = Len(invoked) /\ n = Len(requested) /\ a = at[k] /\ e = at[n]
          /\ p = a + Len(mReceiveBuffer) /\ p + Len(stream) = e /\ k <= n
          /\ Len(mReceiveBuffer) \in Nat /\ Len(stream) \in Nat
          /\ Tape(tape, at, requested) /\ Holds(mReceiveBuffer, tape, a) /\ Holds(stream, tape, p)
          /\ Incomplete(at, requested, k, p)
  <2>1. PICK k \in Nat, n \in Nat, p \in Nat, a \in Nat, e \in Nat :
            Placed(tape, at, requested, invoked, mReceiveBuffer, stream, k, n, p, a, e)
    BY <1>1, <1>2, LaidParts, Zenon
  <2> QED BY <2>1, Zenon DEF Placed
<1>4. /\ requested \in Seq(Requests) /\ invoked \in Seq(Requests)
      /\ \A i \in Nat : i < k => invoked[i + 1] = requested[i + 1]
  BY <1>2, <1>3 DEF Handed
<1>5. \A i \in 1 .. k : invoked[i] = requested[i]
  <2> SUFFICES ASSUME NEW i \in 1 .. k PROVE invoked[i] = requested[i]
    OBVIOUS
  <2>1. i - 1 \in Nat /\ i - 1 < k /\ (i - 1) + 1 = i
    OBVIOUS
  <2>2. invoked[(i - 1) + 1] = requested[(i - 1) + 1]
    BY <1>4, <2>1, Zenon
  <2> QED BY <2>1, <2>2
<1>6. IsPrefix(invoked, requested)
  <2>1. SubSeq(invoked, 1, k) = SubSeq(requested, 1, k)
    <3>1. PICK u : u = SubSeq(invoked, 1, k)
      OBVIOUS
    <3>2. PICK v : v = SubSeq(requested, 1, k)
      OBVIOUS
    <3>3. u \in Seq(Requests) /\ Len(u) = k /\ \A i \in 1 .. k : u[i] = invoked[i]
      BY <1>3, <1>4, <3>1
    <3>4. v \in Seq(Requests) /\ Len(v) = k /\ \A i \in 1 .. k : v[i] = requested[i]
      BY <1>3, <1>4, <3>2
    <3>5. u = v
      BY <1>5, <3>3, <3>4, SameSequence
    <3> QED BY <3>1, <3>2, <3>5
  <2> QED BY <1>3, <2>1 DEF IsPrefix
<1>7. ASSUME stream = << >> PROVE invoked = requested /\ mReceiveBuffer = << >>
  <2>1. p = e
    <3>1. Len(stream) = 0
      BY <1>7
    <3> QED BY <1>3, <3>1
  <2>2. ~(k < n)
    <3> SUFFICES ASSUME k < n PROVE FALSE
      OBVIOUS
    <3>1. p < at[k + 1]
      BY <1>3 DEF Incomplete
    <3>2. k + 1 \in Nat /\ k + 1 <= Len(requested)
      <4>1. k + 1 <= n
        OBVIOUS
      <4>2. n = Len(requested)
        BY <1>3
      <4> QED BY <4>1, <4>2
    <3>3. at[k + 1] <= e /\ at[k + 1] \in Nat
      BY <1>3, <1>4, <3>2, TapeGrows, TapeAt
    <3> QED BY <2>1, <3>1, <3>3
  <2>3. invoked = requested
    <3>1. k = n
      BY <1>3, <2>2
    <3>2. Len(invoked) = Len(requested) /\ \A i \in 1 .. Len(invoked) : invoked[i] = requested[i]
      BY <1>3, <1>5, <3>1, Zenon
    <3> QED BY <1>4, <3>2, SameSequence
  <2>4. mReceiveBuffer = << >>
    <3>1. a = e
      BY <1>3, <2>2
    <3>2. PICK b \in Nat : b = Len(mReceiveBuffer) /\ p = a + b
      BY <1>3
    <3>3. b = 0
      BY <2>1, <3>1, <3>2
    <3>4. mReceiveBuffer \in Seq(Byte)
      BY <1>3 DEF Holds
    <3>5. Len(mReceiveBuffer) = 0
      BY <3>2, <3>3
    <3> QED BY <3>4, <3>5, NoBytes
  <2> QED BY <2>3, <2>4
<1> QED BY <1>6, <1>7 DEF StreamIsCut

\* StreamIsCut, for every set of requests: however the stream of a connection is
\* cut by the reads of SocketRpcServer::onReceive, each request is handed over
\* once, in order, as soon as its last byte was read.
THEOREM StreamIsAlwaysCut == WireSpec => []StreamIsCut
<1>1. WireInit => StreamInv
  BY StreamStarts
<1>2. StreamInv /\ [SdNext \/ StreamNext]_wireVars => StreamInv'
  BY StreamSteps
<1>3. StreamInv => StreamIsCut
  BY StreamIsCutIn
<1> QED BY <1>1, <1>2, <1>3, PTL DEF WireSpec

-----------------------------------------------------------------------------
(* Parts that stand one behind the other *)

\* Where each of the parts begins when they are put one behind the other.
Offsets(at, parts) ==
    /\ at \in [0 .. Len(parts) -> Nat] /\ at[0] = 0
    /\ \A k \in 1 .. Len(parts) : at[k] = at[k - 1] + Len(parts[k])

Flat(s, parts, at, S) ==
    /\ Offsets(at, parts)
    /\ s \in Seq(S) /\ Len(s) = at[Len(parts)]
    /\ \A k \in 1 .. Len(parts) : \A j \in 1 .. Len(parts[k]) : s[at[k - 1] + j] = parts[k][j]

\* Every sequence of parts has its offsets.
LEMMA OffsetsExist ==
    ASSUME NEW S, NEW parts \in Seq(Seq(S))
    PROVE  \E at : Offsets(at, parts)
<1>1. PICK n \in Nat : n = Len(parts)
  OBVIOUS
<1> DEFINE step == [x \in (1 .. n) \X Nat |-> x[2] + Len(parts[x[1]])]
<1>2. \A k \in 1 .. n : parts[k] \in Seq(S) /\ Len(parts[k]) \in Nat
  BY <1>1
<1>3. step \in StepsOf(n, Nat)
  <2>1. \A x \in (1 .. n) \X Nat : x[1] \in 1 .. n /\ x[2] \in Nat
    OBVIOUS
  <2>2. \A x \in (1 .. n) \X Nat : x[2] + Len(parts[x[1]]) \in Nat
    BY <1>2, <2>1
  <2> QED BY <2>2 DEF StepsOf
<1>4. PICK at : Iterates(n, Nat, 0, step, at)
  <2> HIDE DEF step
  <2> QED BY <1>3, RecursiveSteps
<1>5. /\ at \in [0 .. n -> Nat] /\ at[0] = 0
      /\ \A k \in 1 .. n : at[k] = step[<<k, at[k - 1]>>]
  <2> HIDE DEF step
  <2> QED BY <1>4, Zenon DEF Iterates
<1>6. ASSUME NEW k \in 1 .. n PROVE at[k] = at[k - 1] + Len(parts[k])
  <2>1. k - 1 \in 0 .. n
    OBVIOUS
  <2>2. <<k, at[k - 1]>> \in (1 .. n) \X Nat
    BY <1>5, <2>1
  <2>3. step[<<k, at[k - 1]>>] = at[k - 1] + Len(parts[k])
    BY <2>2
  <2> HIDE DEF step
  <2> QED BY <1>5, <2>3
<1> QED BY <1>1, <1>5, <1>6 DEF Offsets

\* What is put together of the first k parts.
Gathered(s, parts, at, S, k) ==
    /\ s \in Seq(S) /\ Len(s) = at[k]
    /\ \A i \in 1 .. k : at[i - 1] \in Nat /\ at[i] <= at[k]
    /\ \A i \in 1 .. k : \A j \in 1 .. Len(parts[i]) : s[at[i - 1] + j] = parts[i][j]

\* What is put together of some parts goes on with the next one.
LEMMA GatherNext ==
    ASSUME NEW S, NEW parts \in Seq(Seq(S)), NEW at, Offsets(at, parts),
           NEW k \in Nat, k < Len(parts), NEW s, Gathered(s, parts, at, S, k)
    PROVE  Gathered(s \o parts[k + 1], parts, at, S, k + 1)
<1>1. PICK t \in Seq(S), m \in Nat, a \in Nat, b \in Nat :
          t = parts[k + 1] /\ m = Len(t) /\ a = at[k] /\ b = at[k + 1] /\ b = a + m
  <2>1. k + 1 \in 1 .. Len(parts) /\ k \in 0 .. Len(parts) /\ k + 1 \in 0 .. Len(parts) /\ (k + 1) - 1 = k
    OBVIOUS
  <2>2. parts[k + 1] \in Seq(S) /\ Len(parts[k + 1]) \in Nat
    BY <2>1
  <2>3. at[k] \in Nat /\ at[k + 1] \in Nat /\ at[k + 1] = at[k] + Len(parts[k + 1])
    BY <2>1 DEF Offsets
  <2> QED BY <2>2, <2>3
<1>2. /\ s \in Seq(S) /\ Len(s) = a
      /\ \A i \in 1 .. k : at[i - 1] \in Nat /\ at[i] <= a
      /\ \A i \in 1 .. k : \A j \in 1 .. Len(parts[i]) : s[at[i - 1] + j] = parts[i][j]
  BY <1>1 DEF Gathered
<1>3. PICK u \in Seq(S) :
          /\ u = s \o t /\ Len(u) = a + m
          /\ \A j \in 1 .. a : u[j] = s[j]
          /\ \A j \in 1 .. m : u[a + j] = t[j]
  <2>1. /\ s \o t \in Seq(S) /\ Len(s \o t) = Len(s) + Len(t)
        /\ \A i \in 1 .. Len(s) : (s \o t)[i] = s[i]
        /\ \A i \in 1 .. Len(t) : (s \o t)[Len(s) + i] = t[i]
    <3>1. s \in Seq(S) /\ t \in Seq(S)
      BY <1>1, <1>2
    <3> QED BY <3>1, Concat
  <2>2. PICK u : u = s \o t
    OBVIOUS
  <2>3. Len(u) = a + m /\ (\A j \in 1 .. a : u[j] = s[j]) /\ (\A j \in 1 .. m : u[a + j] = t[j])
    <3>1. Len(s) = a /\ Len(t) = m
      BY <1>1, <1>2
    <3> QED BY <2>1, <2>2, <3>1, Zenon
  <2> QED BY <2>1, <2>2, <2>3, Zenon
<1>4. ASSUME NEW i \in 1 .. k + 1
      PROVE  /\ at[i - 1] \in Nat /\ at[i] <= b
             /\ \A j \in 1 .. Len(parts[i]) : u[at[i - 1] + j] = parts[i][j]
  <2>1. CASE i = k + 1
    <3>0. at[i - 1] \in Nat /\ b <= b
      BY <1>1, <2>1
    <3>1. at[i - 1] = a /\ at[i] = b /\ parts[i] = t
      <4>1. i - 1 = k
        BY <2>1
      <4> QED BY <1>1, <2>1, <4>1
    <3>2. Len(parts[i]) = m
      BY <1>1, <3>1
    <3> QED BY <1>3, <3>0, <3>1, <3>2
  <2>2. CASE i # k + 1
    <3>0. i \in 1 .. k
      BY <2>2
    <3>1. PICK d \in Nat, e \in Nat, l \in Nat :
              d = at[i - 1] /\ e = at[i] /\ l = Len(parts[i]) /\ e = d + l /\ e <= a
      <4>1. i \in 1 .. Len(parts) /\ i - 1 \in 0 .. Len(parts) /\ i \in 0 .. Len(parts)
        BY <3>0
      <4>2. at[i - 1] \in Nat /\ at[i] \in Nat /\ at[i] = at[i - 1] + Len(parts[i])
        BY <4>1 DEF Offsets
      <4>3. parts[i] \in Seq(S)
        BY <4>1
      <4>4. Len(parts[i]) \in Nat /\ at[i] <= a
        BY <1>2, <3>0, <4>3
      <4> QED BY <4>2, <4>4, Zenon
    <3>2. ASSUME NEW j \in 1 .. l PROVE u[d + j] = parts[i][j]
      <4>1. d + j \in 1 .. a
        <5>1. e = d + l /\ e <= a
          BY <3>1
        <5> QED BY <5>1
      <4>2. s[d + j] = parts[i][j]
        BY <1>2, <3>0, <3>1
      <4> QED BY <1>3, <4>1, <4>2
    <3>3. e <= b
      <4>1. b = a + m /\ e <= a
        BY <1>1, <3>1
      <4> QED BY <4>1
    <3> QED BY <3>1, <3>2, <3>3
  <2> QED BY <2>1, <2>2
<1> QED BY <1>1, <1>3, <1>4 DEF Gathered

\* FlattenSeq puts the parts one behind the other.
LEMMA FlattenIs ==
    ASSUME NEW S, NEW parts \in Seq(Seq(S))
    PROVE  \E at : Flat(FlattenSeq(parts), parts, at, S)
<1>1. PICK n \in Nat : n = Len(parts)
  OBVIOUS
<1>2. PICK at : Offsets(at, parts)
  BY OffsetsExist
<1>3. \A k \in 1 .. n : parts[k] \in Seq(S)
  BY <1>1
<1>4. CASE n = 0
  <2>1. FlattenSeq(parts) = << >>
    <3>1. Len(parts) = 0 /\ parts = << >>
      <4>1. Len(parts) = 0
        BY <1>1, <1>4
      <4> QED BY <4>1
    <3> QED BY <3>1, Zenon DEF FlattenSeq
  <2>2. at[0] = 0 /\ << >> \in Seq(S) /\ Len(<< >>) = 0
    BY <1>2 DEF Offsets
  <2>3. \A k \in 1 .. Len(parts) : FALSE
    BY <1>1, <1>4
  <2> QED BY <1>1, <1>2, <1>4, <2>1, <2>2, <2>3 DEF Flat
<1>5. CASE n # 0
  <2> DEFINE step == [x \in (1 .. n) \X Seq(S) |-> x[2] \o parts[x[1]]]
  <2>1. step \in StepsOf(n, Seq(S))
    <3>1. \A x \in (1 .. n) \X Seq(S) : x[1] \in 1 .. n /\ x[2] \in Seq(S)
      OBVIOUS
    <3>2. \A x \in (1 .. n) \X Seq(S) : x[2] \o parts[x[1]] \in Seq(S)
      BY <1>3, <3>1
    <3> QED BY <3>2 DEF StepsOf
  <2>2. PICK f : Iterates(n, Seq(S), << >>, step, f)
    <3> HIDE DEF step
    <3>1. << >> \in Seq(S)
      OBVIOUS
    <3> QED BY <2>1, <3>1, RecursiveSteps
  <2>3. /\ f \in [0 .. n -> Seq(S)] /\ f[0] = << >>
        /\ \A k \in 1 .. n : f[k] = step[<<k, f[k - 1]>>]
    <3> HIDE DEF step
    <3> QED BY <2>2, Zenon DEF Iterates
  <2>4. ASSUME NEW k \in 1 .. n PROVE f[k] = f[k - 1] \o parts[k]
    <3>1. k - 1 \in 0 .. n
      OBVIOUS
    <3>2. <<k, f[k - 1]>> \in (1 .. n) \X Seq(S)
      BY <2>3, <3>1
    <3>3. step[<<k, f[k - 1]>>] = f[k - 1] \o parts[k]
      BY <3>2
    <3> HIDE DEF step
    <3> QED BY <2>3, <3>3
  <2> DEFINE Def(g) == [i \in 1 .. n |-> IF i = 1 THEN parts[i] ELSE g[i - 1] \o parts[i]]
             h == [i \in 1 .. n |-> f[i]]
  <2>5. h = Def(h)
    <3>1. ASSUME NEW i \in 1 .. n PROVE h[i] = Def(h)[i]
      <4>1. CASE i = 1
        <5>1. parts[1] \in Seq(S) /\ 1 \in 1 .. n
          BY <1>3, <4>1
        <5>2. << >> \o parts[1] = parts[1]
          BY <5>1
        <5>3. f[1] = << >> \o parts[1]
          <6>1. 1 - 1 = 0
            OBVIOUS
          <6>2. f[1] = f[0] \o parts[1]
            BY <2>4, <5>1, <6>1
          <6> HIDE DEF step
          <6> QED BY <2>3, <6>2, Zenon
        <5> QED BY <4>1, <5>1, <5>2, <5>3
      <4>2. CASE i # 1
        <5>1. i - 1 \in 1 .. n
          BY <4>2
        <5>2. h[i - 1] = f[i - 1] /\ h[i] = f[i]
          BY <5>1
        <5> QED BY <2>4, <4>2, <5>2
      <4> QED BY <4>1, <4>2
    <3> QED BY <3>1
  <2>6. PICK g : g = (CHOOSE x : x = Def(x)) /\ g = Def(g)
    <3> HIDE DEF Def, h
    <3> QED BY <2>5, Zenon
  <2>7. FlattenSeq(parts) = g[n]
    <3>1. Len(parts) # 0
      BY <1>1, <1>5
    <3> QED BY <1>1, <2>6, <3>1 DEF FlattenSeq
  <2> DEFINE G == {k \in Nat : k \in 1 .. n => Gathered(g[k], parts, at, S, k)}
  <2>8. g[1] = parts[1] /\ \A k \in Nat : k + 1 \in 1 .. n /\ k # 0 => g[k + 1] = g[k] \o parts[k + 1]
    <3>1. \A i \in 1 .. n : g[i] = IF i = 1 THEN parts[i] ELSE g[i - 1] \o parts[i]
      BY <2>6
    <3>2. 1 \in 1 .. n
      BY <1>5
    <3>3. \A k \in Nat : k # 0 => k + 1 # 1 /\ (k + 1) - 1 = k
      OBVIOUS
    <3> QED BY <3>1, <3>2, <3>3
  <2>9. Gathered(<< >>, parts, at, S, 0)
    <3>1. << >> \in Seq(S) /\ Len(<< >>) = 0 /\ at[0] = 0 /\ \A i \in 1 .. 0 : FALSE
      BY <1>2 DEF Offsets
    <3> QED BY <3>1 DEF Gathered
  <2> HIDE DEF step, h, Def
  <2>10. 0 \in G
    OBVIOUS
  <2>11. \A k \in Nat : k \in G => k + 1 \in G
    <3> SUFFICES ASSUME NEW k \in Nat, k \in G, k + 1 \in 1 .. n PROVE Gathered(g[k + 1], parts, at, S, k + 1)
      <4>1. \A k \in Nat : k + 1 \in Nat
        OBVIOUS
      <4> QED BY <4>1
    <3>1. k < Len(parts)
      BY <1>1
    <3>2. CASE k = 0
      <4>1. Gathered(<< >> \o parts[0 + 1], parts, at, S, 0 + 1)
        BY <1>2, <2>9, <3>1, <3>2, GatherNext
      <4>2. << >> \o parts[1] = parts[1]
        <5>1. parts[1] \in Seq(S)
          BY <1>3, <3>2
        <5> QED BY <5>1
      <4> QED BY <2>8, <3>2, <4>1, <4>2
    <3>3. CASE k # 0
      <4>1. Gathered(g[k], parts, at, S, k)
        BY <3>3
      <4>2. Gathered(g[k] \o parts[k + 1], parts, at, S, k + 1)
        BY <1>2, <3>1, <4>1, GatherNext
      <4> QED BY <2>8, <3>3, <4>2
    <3> QED BY <3>2, <3>3
  <2>12. n \in G
    <3> HIDE DEF G
    <3> QED BY <2>10, <2>11, NatSetInduction
  <2>13. Gathered(g[n], parts, at, S, n)
    BY <1>5, <2>12
  <2>14. Flat(g[n], parts, at, S)
    BY <1>1, <1>2, <2>13 DEF Flat, Gathered
  <2> QED BY <2>7, <2>14
<1> QED BY <1>4, <1>5

\* The bytes s stand in c from the i-th on.
At(c, i, s) ==
    /\ i + Len(s) <= Len(c)
    /\ \A j \in Nat : j < Len(s) => ByteAt(c, i + j) = ByteAt(s, j)

\* Where a joined sequence stands, its two parts stand.
LEMMA Split ==
    ASSUME NEW c \in Seq(Byte), NEW i \in Nat, NEW s \in Seq(Byte), NEW t \in Seq(Byte),
           NEW n \in Nat, Len(s) = n, At(c, i, s \o t)
    PROVE  At(c, i, s) /\ At(c, i + n, t)
<1>1. PICK u \in Seq(Byte) : u = s \o t /\ Joined(u, s, t)
  BY SomeJoined, Zenon
<1>2. /\ Len(u) = n + Len(t)
      /\ \A j \in Nat : j < n => ByteAt(u, j) = ByteAt(s, j)
      /\ \A j \in Nat : ByteAt(u, n + j) = ByteAt(t, j)
  <2>1. JoinedTo(u, s, t, n)
    BY <1>1, JoinedAt, Zenon
  <2> QED BY <2>1, Zenon DEF JoinedTo
<1>3. PICK l \in Nat, m \in Nat : l = Len(c) /\ m = Len(t) /\ Len(u) = n + m
  BY <1>2
<1>4. i + (n + m) <= l /\ \A j \in Nat : j < n + m => ByteAt(c, i + j) = ByteAt(u, j)
  <2>1. At(c, i, u)
    BY <1>1
  <2> QED BY <1>3, <2>1, Zenon DEF At
<1>5. At(c, i, s)
  <2>1. ASSUME NEW j \in Nat, j < n PROVE ByteAt(c, i + j) = ByteAt(s, j)
    <3>1. j < n + m
      BY <2>1
    <3> QED BY <1>2, <1>4, <2>1, <3>1, Zenon
  <2>2. i + n <= l
    BY <1>4
  <2> QED BY <1>3, <2>1, <2>2, Zenon DEF At
<1>6. At(c, i + n, t)
  <2>1. ASSUME NEW j \in Nat, j < m PROVE ByteAt(c, (i + n) + j) = ByteAt(t, j)
    <3>1. n + j \in Nat /\ n + j < n + m /\ i + (n + j) = (i + n) + j
      BY <2>1
    <3>2. ByteAt(c, i + (n + j)) = ByteAt(u, n + j)
      BY <1>4, <3>1, Zenon
    <3> QED BY <1>2, <3>1, <3>2
  <2>2. (i + n) + m <= l
    BY <1>4
  <2> QED BY <1>3, <2>1, <2>2, Zenon DEF At
<1> QED BY <1>5, <1>6

\* The length of a joined sequence of bytes.
LEMMA JoinLength ==
    ASSUME NEW s \in Seq(Byte), NEW t \in Seq(Byte), NEW m \in Nat, NEW n \in Nat, Len(s) = m, Len(t) = n
    PROVE  s \o t \in Seq(Byte) /\ Len(s \o t) = m + n
BY ByteAtConcat

\* Two bytes.
LEMMA TwoBytes ==
    ASSUME NEW a \in Byte, NEW b \in Byte
    PROVE  <<a, b>> \in Seq(Byte) /\ Len(<<a, b>>) = 2 /\ ByteAt(<<a, b>>, 0) = a /\ ByteAt(<<a, b>>, 1) = b
BY DEF ByteAt

\* The bytes of a sequence of two, where it stands.
LEMMA TwoAt ==
    ASSUME NEW c, NEW i \in Nat, NEW s, Len(s) = 2, At(c, i, s)
    PROVE  ByteAt(c, i) = ByteAt(s, 0) /\ ByteAt(c, i + 1) = ByteAt(s, 1)
<1>1. \A j \in Nat : j < 2 => ByteAt(c, i + j) = ByteAt(s, j)
  BY Zenon DEF At
<1>2. 0 < 2 /\ 1 < 2 /\ i + 0 = i
  OBVIOUS
<1> QED BY <1>1, <1>2

\* The bytes of a sequence of four, where it stands.
LEMMA FourAt ==
    ASSUME NEW c, NEW i \in Nat, NEW s, Len(s) = 4, At(c, i, s)
    PROVE  /\ ByteAt(c, i) = ByteAt(s, 0) /\ ByteAt(c, i + 1) = ByteAt(s, 1)
           /\ ByteAt(c, i + 2) = ByteAt(s, 2) /\ ByteAt(c, i + 3) = ByteAt(s, 3)
<1>1. \A j \in Nat : j < 4 => ByteAt(c, i + j) = ByteAt(s, j)
  BY Zenon DEF At
<1>2. 0 < 4 /\ 1 < 4 /\ 2 < 4 /\ 3 < 4 /\ i + 0 = i
  OBVIOUS
<1> QED BY <1>1, <1>2

\* ExtractShort reads what Inject wrote.
LEMMA ShortAt ==
    ASSUME NEW n \in Short, NEW c, NEW i \in Nat, At(c, i, Inject(n))
    PROVE  ExtractShort(c, i) = n
<1>1. Len(Inject(n)) = 2 /\ ByteAt(Inject(n), 0) = n \div 256 /\ ByteAt(Inject(n), 1) = n % 256
  BY InjectIs
<1>2. ByteAt(c, i) = n \div 256 /\ ByteAt(c, i + 1) = n % 256
  BY <1>1, TwoAt
<1>3. 256 * (n \div 256) + (n % 256) = n
  BY ShortBytes
<1> QED BY <1>2, <1>3, Zenon DEF ExtractShort

\* ExtractInteger reads what InjectInteger wrote.
LEMMA IntegerAt ==
    ASSUME NEW p \in Short, NEW q \in Short, NEW c, NEW i \in Nat, At(c, i, InjectInteger(<<p, q>>))
    PROVE  ExtractInteger(c, i) = <<p, q>>
<1>1. PICK s : /\ s = InjectInteger(<<p, q>>) /\ Len(s) = 4
               /\ ByteAt(s, 0) = p \div 256 /\ ByteAt(s, 1) = p % 256
               /\ ByteAt(s, 2) = q \div 256 /\ ByteAt(s, 3) = q % 256
  BY InjectIntegerIs
<1>2. /\ ByteAt(c, i) = p \div 256 /\ ByteAt(c, i + 1) = p % 256
      /\ ByteAt(c, i + 2) = q \div 256 /\ ByteAt(c, i + 3) = q % 256
  BY <1>1, FourAt
<1>3. 256 * (p \div 256) + (p % 256) = p /\ 256 * (q \div 256) + (q % 256) = q
  BY ShortBytes
<1>4. (i + 2) + 1 = i + 3
  OBVIOUS
<1>5. ExtractShort(c, i) = p /\ ExtractShort(c, i + 2) = q
  <2>1. ExtractShort(c, i) = p
    <3>1. ExtractShort(c, i) = 256 * ByteAt(c, i) + ByteAt(c, i + 1)
      BY Zenon DEF ExtractShort
    <3> QED BY <1>2, <1>3, <3>1
  <2>2. ExtractShort(c, i + 2) = 256 * ByteAt(c, i + 2) + ByteAt(c, (i + 2) + 1)
    BY Zenon DEF ExtractShort
  <2>3. ExtractShort(c, i + 2) = q
    BY <1>2, <1>3, <1>4, <2>2
  <2> QED BY <2>1, <2>3
<1> QED BY <1>5 DEF ExtractInteger

\* The address of an endpoint is read as it was written.
LEMMA AddressAt ==
    ASSUME NEW ip \in Byte \X Byte \X Byte \X Byte, NEW c \in Seq(Byte), NEW i \in Nat,
           At(c, i, InjectAddress(ip))
    PROVE  ExtractAddress(c, i) = ip
<1>1. PICK a1 \in Byte, a2 \in Byte, a3 \in Byte, a4 \in Byte : ip = <<a1, a2, a3, a4>>
  OBVIOUS
<1>2. PICK s \in Seq(Byte) :
          /\ s = ip /\ s = InjectAddress(ip) /\ Len(s) = 4
  <2>1. InjectAddress(ip) = ip
    BY <1>1 DEF InjectAddress
  <2>2. ip \in Seq(Byte) /\ Len(ip) = 4
    BY <1>1, FourBytes
  <2> QED BY <2>1, <2>2
<1>3. /\ ByteAt(c, i) = ByteAt(s, 0) /\ ByteAt(c, i + 1) = ByteAt(s, 1)
      /\ ByteAt(c, i + 2) = ByteAt(s, 2) /\ ByteAt(c, i + 3) = ByteAt(s, 3)
  BY <1>2, FourAt
<1>4. PICK u \in Seq(Byte) : u = SubSeq(c, i + 1, i + 4) /\ Part(u, c, i, i + 4)
  <2>1. i <= i + 4 /\ i + 4 \in Nat
    OBVIOUS
  <2>2. i + 4 <= Len(c)
    BY <1>2 DEF At
  <2>3. Part(SubSeq(c, i + 1, i + 4), c, i, i + 4)
    BY <2>1, <2>2, SubBytes
  <2> QED BY <2>3 DEF Part
<1>5. Len(u) = 4 /\ \A j \in Nat : j < 4 => ByteAt(u, j) = ByteAt(c, i + j)
  <2>1. (i + 4) - i = 4
    OBVIOUS
  <2> QED BY <1>4, <2>1 DEF Part
<1>6. ASSUME NEW j \in Nat, j < Len(u) PROVE ByteAt(u, j) = ByteAt(s, j)
  <2>1. j \in {0, 1, 2, 3} /\ i + 0 = i
    BY <1>5, <1>6
  <2>2. ByteAt(u, j) = ByteAt(c, i + j)
    BY <1>5, <1>6
  <2> QED BY <1>3, <2>1, <2>2
<1>7. u = s
  BY <1>2, <1>5, <1>6, SameBytes
<1> QED BY <1>2, <1>4, <1>7 DEF ExtractAddress

-----------------------------------------------------------------------------
(* The options of SomeIpMessages *)

FlagOf(o) == IF o.discardable THEN 1 ELSE 0
BodyOf(o) == IF o.type = "LoadBalancing" THEN LoadBalancingPayload(o) ELSE EndpointPayload(o)

\* The two kinds of options, and their fields.
LEMMA OptionKinds ==
    ASSUME NEW o \in OptionRecords
    PROVE  \/ /\ o \in LoadBalancingOptions /\ o.type = "LoadBalancing"
              /\ o.priority \in Short /\ o.weight \in Short
           \/ /\ o \in EndpointOptions /\ o.type # "LoadBalancing"
              /\ o.type \in {"IPv4Endpoint", "IPv4Multicast", "IPv4SdEndpoint"}
              /\ o.ip \in Byte \X Byte \X Byte \X Byte /\ o.protocol \in Byte /\ o.port \in Short
              /\ o.type = "IPv4Multicast" => o.ip[1] \in 224 .. 239 /\ o.protocol = 17
BY DEF OptionRecords, LoadBalancingOptions, EndpointOptions

\* The type and the flag of an option are bytes.
LEMMA OptionTypeIs ==
    ASSUME NEW o \in OptionRecords
    PROVE  /\ o.type \in DOMAIN OptionType /\ OptionType[o.type] \in Byte
           /\ o.discardable \in BOOLEAN
           /\ FlagOf(o) \in Byte /\ (FlagOf(o) # 0) = o.discardable
<1>1. o.type \in {"LoadBalancing", "IPv4Endpoint", "IPv4Multicast", "IPv4SdEndpoint"}
  BY OptionKinds
<1>2. o.discardable \in BOOLEAN
  BY DEF OptionRecords, LoadBalancingOptions, EndpointOptions
<1>3. o.type \in DOMAIN OptionType /\ OptionType[o.type] \in Byte
  BY <1>1 DEF OptionType, Byte
<1>4. CASE o.discardable = TRUE
  BY <1>2, <1>3, <1>4 DEF FlagOf, Byte
<1>5. CASE o.discardable = FALSE
  BY <1>2, <1>3, <1>5 DEF FlagOf, Byte
<1> QED BY <1>2, <1>4, <1>5

\* The byte of a type is the byte of no other one.
LEMMA TypeOfIs ==
    ASSUME NEW t \in DOMAIN OptionType
    PROVE  TypeOf(OptionType[t]) = {t}
BY DEF TypeOf, OptionType

\* The bytes of a load-balancing option.
LEMMA LoadBalancingWritten ==
    ASSUME NEW o, o.priority \in Short, o.weight \in Short
    PROVE  LET p == Inject(o.priority)
               w == Inject(o.weight)
           IN  /\ p \in Seq(Byte) /\ w \in Seq(Byte) /\ Len(p) = 2
               /\ LoadBalancingPayload(o) = p \o w
               /\ LoadBalancingPayload(o) \in Seq(Byte) /\ Len(LoadBalancingPayload(o)) = 4
<1>1. PICK p \in Seq(Byte), w \in Seq(Byte) : p = Inject(o.priority) /\ w = Inject(o.weight) /\ Len(p) = 2 /\ Len(w) = 2
  BY InjectIs
<1>2. p \o w \in Seq(Byte) /\ Len(p \o w) = 4
  <2>1. PICK a \in Nat, b \in Nat : a = 2 /\ b = 2
    OBVIOUS
  <2>2. p \in Seq(Byte) /\ w \in Seq(Byte)
    OBVIOUS
  <2>3. Len(p) = a /\ Len(w) = b
    BY <1>1, <2>1
  <2>4. p \o w \in Seq(Byte) /\ Len(p \o w) = a + b
    BY <2>2, <2>3, JoinLength
  <2> QED BY <2>1, <2>4
<1> QED BY <1>1, <1>2, Zenon DEF LoadBalancingPayload

\* The bytes of an endpoint option.
LEMMA EndpointWritten ==
    ASSUME NEW o, o.ip \in Byte \X Byte \X Byte \X Byte, o.protocol \in Byte, o.port \in Short
    PROVE  LET a == InjectAddress(o.ip)
               b == <<0, o.protocol>>
               p == Inject(o.port)
           IN  /\ a \in Seq(Byte) /\ b \in Seq(Byte) /\ p \in Seq(Byte) /\ a \o b \in Seq(Byte)
               /\ Len(a) = 4 /\ Len(a \o b) = 6 /\ Len(b) = 2
               /\ ByteAt(b, 1) = o.protocol /\ ByteAt(a, 0) = o.ip[1]
               /\ EndpointPayload(o) = (a \o b) \o p
               /\ EndpointPayload(o) \in Seq(Byte) /\ Len(EndpointPayload(o)) = 8
<1>1. PICK a \in Seq(Byte) : a = InjectAddress(o.ip) /\ Len(a) = 4 /\ ByteAt(a, 0) = o.ip[1]
  <2>1. PICK a1 \in Byte, a2 \in Byte, a3 \in Byte, a4 \in Byte : o.ip = <<a1, a2, a3, a4>>
    OBVIOUS
  <2>2. InjectAddress(o.ip) = <<a1, a2, a3, a4>> /\ o.ip[1] = a1
    BY <2>1 DEF InjectAddress
  <2>3. /\ <<a1, a2, a3, a4>> \in Seq(Byte) /\ Len(<<a1, a2, a3, a4>>) = 4
        /\ ByteAt(<<a1, a2, a3, a4>>, 0) = a1
    BY FourBytes
  <2> QED BY <2>2, <2>3
<1>2. PICK b \in Seq(Byte) : b = <<0, o.protocol>> /\ Len(b) = 2 /\ ByteAt(b, 1) = o.protocol
  <2>1. 0 \in Byte
    BY DEF Byte
  <2> QED BY <2>1, TwoBytes
<1>3. PICK p \in Seq(Byte) : p = Inject(o.port) /\ Len(p) = 2
  BY InjectIs
<1>4. PICK u \in Seq(Byte) : u = a \o b /\ Len(u) = 6
  <2>1. a \o b \in Seq(Byte) /\ Len(a \o b) = 6
    <3>1. a \in Seq(Byte) /\ b \in Seq(Byte)
      OBVIOUS
    <3>2. a \o b \in Seq(Byte) /\ Len(a \o b) = Len(a) + Len(b)
      BY <3>1, ByteAtConcat
    <3> QED BY <1>1, <1>2, <3>2
  <2> QED BY <2>1
<1>5. u \o p \in Seq(Byte) /\ Len(u \o p) = 8
  <2>1. u \in Seq(Byte) /\ p \in Seq(Byte)
    OBVIOUS
  <2>2. u \o p \in Seq(Byte) /\ Len(u \o p) = Len(u) + Len(p)
    BY <2>1, ByteAtConcat
  <2> QED BY <1>3, <1>4, <2>2
<1> QED BY <1>1, <1>2, <1>3, <1>4, <1>5, Zenon DEF EndpointPayload

\* The bytes of an option: its head and its body.
LEMMA OptionWritten ==
    ASSUME NEW o \in OptionRecords
    PROVE  \E h \in Seq(Byte), b \in Seq(Byte) :
              /\ OptionPayload(o) = h \o b /\ OptionPayload(o) \in Seq(Byte)
              /\ Len(h) = 4 /\ ByteAt(h, 2) = OptionType[o.type] /\ ByteAt(h, 3) = FlagOf(o)
              /\ b = BodyOf(o) /\ Len(b) = (IF o.type = "LoadBalancing" THEN 4 ELSE 8)
              /\ Len(OptionPayload(o)) = 3 + OptionLength(o)
              /\ Len(OptionPayload(o)) = OptionSize(OptionType[o.type])
<1>1. PICK l \in Seq(Byte) : l = Inject(OptionLength(o)) /\ Len(l) = 2
  <2>1. OptionLength(o) \in Short
    BY DEF OptionLength, Short
  <2> QED BY <2>1, InjectIs
<1>2. PICK f \in Seq(Byte) :
          /\ f = <<OptionType[o.type], FlagOf(o)>> /\ Len(f) = 2
          /\ ByteAt(f, 0) = OptionType[o.type] /\ ByteAt(f, 1) = FlagOf(o)
  <2>1. OptionType[o.type] \in Byte /\ FlagOf(o) \in Byte
    BY OptionTypeIs
  <2>2. PICK x \in Byte, y \in Byte : x = OptionType[o.type] /\ y = FlagOf(o)
    BY <2>1
  <2>3. <<x, y>> \in Seq(Byte) /\ Len(<<x, y>>) = 2 /\ ByteAt(<<x, y>>, 0) = x /\ ByteAt(<<x, y>>, 1) = y
    BY TwoBytes
  <2> QED BY <2>2, <2>3, Zenon
<1>3. PICK h \in Seq(Byte) : /\ h = l \o f /\ Len(h) = 4
                             /\ ByteAt(h, 2) = OptionType[o.type] /\ ByteAt(h, 3) = FlagOf(o)
  <2>1. PICK u \in Seq(Byte) : u = l \o f /\ Joined(u, l, f)
    BY SomeJoined, Zenon
  <2>2. JoinedTo(u, l, f, 2)
    <3>1. 2 \in Nat
      OBVIOUS
    <3> QED BY <1>1, <2>1, <3>1, JoinedAt, Zenon
  <2>3. Len(u) = 2 + Len(f) /\ \A j \in Nat : ByteAt(u, 2 + j) = ByteAt(f, j)
    BY <2>2 DEF JoinedTo
  <2>4. ByteAt(u, 2 + 0) = ByteAt(f, 0) /\ ByteAt(u, 2 + 1) = ByteAt(f, 1)
    BY <2>3
  <2>5. 2 + 0 = 2 /\ 2 + 1 = 3 /\ 2 + 2 = 4
    OBVIOUS
  <2> QED BY <1>2, <2>1, <2>3, <2>4, <2>5
<1>4. PICK b \in Seq(Byte) : b = BodyOf(o) /\ Len(b) = (IF o.type = "LoadBalancing" THEN 4 ELSE 8)
  <2>1. CASE o \in LoadBalancingOptions /\ o.type = "LoadBalancing" /\ o.priority \in Short /\ o.weight \in Short
    <3>1. LoadBalancingPayload(o) \in Seq(Byte) /\ Len(LoadBalancingPayload(o)) = 4
      BY <2>1, LoadBalancingWritten
    <3> QED BY <2>1, <3>1 DEF BodyOf
  <2>2. CASE /\ o \in EndpointOptions /\ o.type # "LoadBalancing"
             /\ o.ip \in Byte \X Byte \X Byte \X Byte /\ o.protocol \in Byte /\ o.port \in Short
    <3>1. EndpointPayload(o) \in Seq(Byte) /\ Len(EndpointPayload(o)) = 8
      BY <2>2, EndpointWritten
    <3> QED BY <2>2, <3>1 DEF BodyOf
  <2> QED BY <2>1, <2>2, OptionKinds
<1>5. OptionPayload(o) = h \o b
  BY <1>1, <1>2, <1>3, <1>4, Zenon DEF OptionPayload, BodyOf, FlagOf
<1>6. h \o b \in Seq(Byte) /\ Len(h \o b) = 4 + Len(b)
  <2>1. h \in Seq(Byte) /\ b \in Seq(Byte)
    OBVIOUS
  <2>2. h \o b \in Seq(Byte) /\ Len(h \o b) = Len(h) + Len(b)
    BY <2>1, ByteAtConcat
  <2> QED BY <1>3, <2>2
<1>7. 4 + Len(b) = 3 + OptionLength(o)
  BY <1>4 DEF OptionLength
<1>8. 4 + Len(b) = OptionSize(OptionType[o.type])
  <2>1. o.type \in {"LoadBalancing", "IPv4Endpoint", "IPv4Multicast", "IPv4SdEndpoint"}
    BY OptionKinds
  <2> QED BY <1>4, <2>1 DEF OptionSize, OptionType
<1> QED BY <1>3, <1>4, <1>5, <1>6, <1>7, <1>8, Zenon

\* What an option is read as, once the bytes of its head are known.
LEMMA LoadBalancingAt ==
    ASSUME NEW o \in LoadBalancingOptions, NEW c \in Seq(Byte), NEW i \in Nat,
           At(c, i, LoadBalancingPayload(o))
    PROVE  LoadBalancing(c, i, o.discardable) = o
<1>1. /\ o.priority \in Short /\ o.weight \in Short
      /\ o = [type |-> "LoadBalancing", discardable |-> o.discardable, priority |-> o.priority,
              weight |-> o.weight]
  BY DEF LoadBalancingOptions
<1>2. PICK p \in Seq(Byte), w \in Seq(Byte) :
          /\ p = Inject(o.priority) /\ w = Inject(o.weight) /\ Len(p) = 2
          /\ LoadBalancingPayload(o) = p \o w
  BY <1>1, LoadBalancingWritten
<1>3. At(c, i, p) /\ At(c, i + 2, w)
  <2>1. At(c, i, p \o w)
    BY <1>2, Zenon
  <2>2. 2 \in Nat /\ Len(p) = 2
    BY <1>2
  <2> QED BY <2>1, <2>2, Split
<1>4. ExtractShort(c, i) = o.priority /\ ExtractShort(c, i + 2) = o.weight
  BY <1>1, <1>2, <1>3, ShortAt
<1> QED BY <1>1, <1>4, Zenon DEF LoadBalancing

\* An endpoint option, likewise.
LEMMA EndpointAt ==
    ASSUME NEW o \in EndpointOptions, o.type = "IPv4Multicast" => o.protocol = 17,
           NEW c \in Seq(Byte), NEW i \in Nat, At(c, i, EndpointPayload(o))
    PROVE  Endpoint(c, i, o.type, o.discardable) = o /\ ByteAt(c, i) = o.ip[1]
<1>1. /\ o.ip \in Byte \X Byte \X Byte \X Byte /\ o.protocol \in Byte /\ o.port \in Short
      /\ o = [type |-> o.type, discardable |-> o.discardable, ip |-> o.ip, protocol |-> o.protocol,
              port |-> o.port]
  BY DEF EndpointOptions
<1>2. PICK a \in Seq(Byte), b \in Seq(Byte), p \in Seq(Byte), u \in Seq(Byte) :
          /\ a = InjectAddress(o.ip) /\ b = <<0, o.protocol>> /\ p = Inject(o.port) /\ u = a \o b
          /\ Len(a) = 4 /\ Len(u) = 6 /\ Len(b) = 2
          /\ ByteAt(b, 1) = o.protocol /\ ByteAt(a, 0) = o.ip[1]
          /\ EndpointPayload(o) = u \o p
  BY <1>1, EndpointWritten
<1>3. At(c, i, u) /\ At(c, i + 6, p)
  <2>1. 6 \in Nat /\ At(c, i, u \o p) /\ u \in Seq(Byte) /\ p \in Seq(Byte) /\ Len(u) = 6
    BY <1>2
  <2> QED BY <2>1, Split
<1>4. At(c, i, a) /\ At(c, i + 4, b)
  <2>1. 4 \in Nat
    OBVIOUS
  <2> QED BY <1>2, <1>3, <2>1, Split, Zenon
<1>5. ExtractAddress(c, i) = o.ip
  BY <1>1, <1>2, <1>4, AddressAt
<1>6. ExtractShort(c, i + 6) = o.port
  <2>1. i + 6 \in Nat
    OBVIOUS
  <2> QED BY <1>1, <1>2, <1>3, <2>1, ShortAt
<1>7. ByteAt(c, i + 5) = o.protocol
  <2>1. i + 4 \in Nat /\ (i + 4) + 1 = i + 5
    OBVIOUS
  <2>2. ByteAt(c, (i + 4) + 1) = ByteAt(b, 1)
    BY <1>2, <1>4, <2>1, TwoAt
  <2> QED BY <1>2, <2>1, <2>2
<1>8. ByteAt(c, i) = o.ip[1]
  BY <1>2, <1>4, FourAt
<1>9. (IF o.type = "IPv4Multicast" THEN Udp ELSE ByteAt(c, i + 5)) = o.protocol
  BY <1>7 DEF Udp
<1> QED BY <1>1, <1>5, <1>6, <1>8, <1>9, Zenon DEF Endpoint

\* The bytes s stand in c from the i-th on, as far as c goes.
Cut(c, i, s) ==
    \A j \in Nat : j < Len(s) /\ i + j < Len(c) => ByteAt(c, i + j) = ByteAt(s, j)

\* What is not cut stands there.
LEMMA CutWhole ==
    ASSUME NEW c, NEW i, NEW s, Cut(c, i, s), Len(c) \in Nat, Len(s) \in Nat, i \in Nat,
           i + Len(s) <= Len(c)
    PROVE  At(c, i, s)
<1>1. PICK l \in Nat, n \in Nat : l = Len(c) /\ n = Len(s) /\ i + n <= l
  OBVIOUS
<1>2. \A j \in Nat : j < n /\ i + j < l => ByteAt(c, i + j) = ByteAt(s, j)
  BY <1>1 DEF Cut
<1>3. \A j \in Nat : j < n => i + j < l
  BY <1>1
<1> QED BY <1>1, <1>2, <1>3, Zenon DEF At

\* What stands in a payload stands in its first bytes, as far as they go.
LEMMA CutPart ==
    ASSUME NEW b, NEW c, NEW n \in Nat, NEW i \in Nat, NEW s, Part(c, b, 0, n), At(b, i, s)
    PROVE  Cut(c, i, s)
<1>1. Len(c) = n /\ \A j \in Nat : j < n => ByteAt(c, j) = ByteAt(b, j)
  BY DEF Part
<1>2. ASSUME NEW j \in Nat, j < Len(s), i + j < Len(c) PROVE ByteAt(c, i + j) = ByteAt(s, j)
  <2>1. ByteAt(b, i + j) = ByteAt(s, j)
    BY <1>2 DEF At
  <2>2. i + j \in Nat
    OBVIOUS
  <2> QED BY <1>1, <1>2, <2>1, <2>2
<1> QED BY <1>2 DEF Cut

\* What the kind of an option says about its size.
LEMMA OptionSizes ==
    ASSUME NEW o \in OptionRecords
    PROVE  /\ OptionSize(OptionType[o.type]) \in 8 .. 12
           /\ OptionPayload(o) \in Seq(Byte)
           /\ Len(OptionPayload(o)) = OptionSize(OptionType[o.type])
           /\ Len(OptionPayload(o)) = 3 + OptionLength(o)
           /\ ByteAt(OptionPayload(o), 2) = OptionType[o.type]
<1>1. PICK h \in Seq(Byte), b \in Seq(Byte) :
              /\ OptionPayload(o) = h \o b /\ OptionPayload(o) \in Seq(Byte)
              /\ Len(h) = 4 /\ ByteAt(h, 2) = OptionType[o.type]
              /\ Len(OptionPayload(o)) = 3 + OptionLength(o)
              /\ Len(OptionPayload(o)) = OptionSize(OptionType[o.type])
  BY OptionWritten
<1>2. OptionSize(OptionType[o.type]) \in 8 .. 12
  <2>1. OptionSize(OptionType[o.type]) \in {8, 12}
    BY Zenon DEF OptionSize
  <2> QED BY <2>1
<1>3. ByteAt(h \o b, 2) = ByteAt(h, 2)
  <2>1. \A i \in Nat : i < Len(h) => ByteAt(h \o b, i) = ByteAt(h, i)
    <3>1. h \in Seq(Byte) /\ b \in Seq(Byte)
      OBVIOUS
    <3> QED BY <3>1, ByteAtConcat
  <2>2. 2 \in Nat /\ 2 < Len(h)
    BY <1>1
  <2> QED BY <2>1, <2>2
<1> QED BY <1>1, <1>2, <1>3

\* How an option is read of a payload that may be cut.
LEMMA OptionRead ==
    ASSUME NEW o \in OptionRecords, NEW c \in Seq(Byte), NEW i \in Nat, NEW n \in Nat,
           n = Len(OptionPayload(o)), Cut(c, i, OptionPayload(o))
    PROVE  /\ OptionReadable(c, i) => i + n <= Len(c)
           /\ i + n <= Len(c) => OptionReadable(c, i) /\ DeserializeOption(c, i) = o
<1>1. /\ n = OptionSize(OptionType[o.type]) /\ n \in 8 .. 12
      /\ ByteAt(OptionPayload(o), 2) = OptionType[o.type]
  BY OptionSizes
<1>2. i + 3 < Len(c) => ByteAt(c, i + 2) = OptionType[o.type]
  <2>1. 2 < Len(OptionPayload(o)) /\ (i + 3 < Len(c) => i + 2 < Len(c))
    BY <1>1
  <2>2. 2 \in Nat /\ 2 < Len(OptionPayload(o)) /\ i + 2 < Len(c) => ByteAt(c, i + 2) = ByteAt(OptionPayload(o), 2)
    BY DEF Cut
  <2> QED BY <1>1, <2>1, <2>2
<1>3. OptionReadable(c, i) => i + n <= Len(c)
  BY <1>1, <1>2 DEF OptionReadable
<1>4. ASSUME i + n <= Len(c) PROVE OptionReadable(c, i) /\ DeserializeOption(c, i) = o
  <2>1. PICK h \in Seq(Byte), b \in Seq(Byte) :
              /\ OptionPayload(o) = h \o b /\ Len(h) = 4
              /\ ByteAt(h, 2) = OptionType[o.type] /\ ByteAt(h, 3) = FlagOf(o) /\ b = BodyOf(o)
    BY OptionWritten
  <2>2. At(c, i, h \o b)
    <3>1. Len(OptionPayload(o)) \in Nat /\ Len(c) \in Nat
      BY <1>1
    <3>2. At(c, i, OptionPayload(o))
      BY <1>4, <3>1, CutWhole
    <3> QED BY <2>1, <3>2
  <2>3. At(c, i, h) /\ At(c, i + 4, b)
    <3>1. 4 \in Nat /\ Len(h) = 4
      BY <2>1
    <3> QED BY <2>2, <3>1, Split
  <2>4. ByteAt(c, i + 2) = OptionType[o.type] /\ ByteAt(c, i + 3) = FlagOf(o)
    BY <2>1, <2>3, FourAt
  <2>5. TypeOf(ByteAt(c, i + 2)) = {o.type} /\ (ByteAt(c, i + 3) # 0) = o.discardable
    BY <2>4, OptionTypeIs, TypeOfIs
  <2>6. i + 3 < Len(c) /\ i + OptionSize(ByteAt(c, i + 2)) <= Len(c)
    BY <1>1, <1>4, <2>4
  <2>7. (CHOOSE t \in TypeOf(ByteAt(c, i + 2)) : TRUE) = o.type
    BY <2>5
  <2>8. CASE o \in LoadBalancingOptions /\ o.type = "LoadBalancing"
    <3>1. LoadBalancing(c, i + 4, o.discardable) = o
      <4>1. At(c, i + 4, LoadBalancingPayload(o)) /\ i + 4 \in Nat
        BY <2>1, <2>3, <2>8 DEF BodyOf
      <4> QED BY <2>8, <4>1, LoadBalancingAt
    <3>2. DeserializeOption(c, i) = o
      BY <2>5, <2>7, <2>8, <3>1, Zenon DEF DeserializeOption
    <3>3. ByteAt(c, i + 2) # OptionType.IPv4Multicast
      BY <2>4, <2>8 DEF OptionType
    <3> QED BY <2>5, <2>6, <3>2, <3>3 DEF OptionReadable
  <2>9. CASE /\ o \in EndpointOptions /\ o.type # "LoadBalancing"
             /\ o.type \in {"IPv4Endpoint", "IPv4Multicast", "IPv4SdEndpoint"}
             /\ o.type = "IPv4Multicast" => o.ip[1] \in 224 .. 239 /\ o.protocol = 17
    <3>1. Endpoint(c, i + 4, o.type, o.discardable) = o /\ ByteAt(c, i + 4) = o.ip[1]
      <4>1. At(c, i + 4, EndpointPayload(o)) /\ i + 4 \in Nat
        BY <2>1, <2>3, <2>9 DEF BodyOf
      <4> QED BY <2>9, <4>1, EndpointAt
    <3>2. DeserializeOption(c, i) = o
      BY <2>5, <2>7, <2>9, <3>1, Zenon DEF DeserializeOption
    <3>3. ByteAt(c, i + 2) = OptionType.IPv4Multicast => ByteAt(c, i + 4) \in 224 .. 239
      <4>1. ByteAt(c, i + 2) = OptionType.IPv4Multicast => o.type = "IPv4Multicast"
        BY <2>4, <2>9 DEF OptionType
      <4> QED BY <2>9, <3>1, <4>1
    <3> QED BY <2>5, <2>6, <3>2, <3>3 DEF OptionReadable
  <2> QED BY <2>8, <2>9, OptionKinds
<1> QED BY <1>3, <1>4

-----------------------------------------------------------------------------
(* The entries of SomeIpMessages *)

EntryRecords ==
    [type : DOMAIN EntryType, serviceId : Short, instanceId : Short, majorVersion : Byte,
     ttl : TimeToLive, last : Short \X Short, first : Seq(OptionRecords), second : Seq(OptionRecords)]

\* What the factories see to.
MadeByFactory(e) ==
    /\ e.type = "Finding" => e.ttl > 0
    /\ e.type \notin ServiceTypes => e.ttl \in {0, 16777215} /\ e.last[1] <= 15

\* An entry with the options that were read so far.
With(e, first, second) ==
    [type |-> e.type, serviceId |-> e.serviceId, instanceId |-> e.instanceId,
     majorVersion |-> e.majorVersion, ttl |-> e.ttl, last |-> e.last,
     first |-> first, second |-> second]

\* The fields of an entry.
LEMMA EntryIs ==
    ASSUME NEW e \in EntryRecords
    PROVE  /\ e.type \in DOMAIN EntryType /\ e.serviceId \in Short /\ e.instanceId \in Short
           /\ e.majorVersion \in Byte /\ e.ttl \in TimeToLive
           /\ e.first \in Seq(OptionRecords) /\ e.second \in Seq(OptionRecords)
           /\ e.last[1] \in Short /\ e.last[2] \in Short /\ e.last = <<e.last[1], e.last[2]>>
           /\ e = With(e, e.first, e.second)
<1>1. /\ e \in [type : DOMAIN EntryType, serviceId : Short, instanceId : Short, majorVersion : Byte,
                ttl : TimeToLive, last : Short \X Short, first : Seq(OptionRecords), second : Seq(OptionRecords)]
  BY DEF EntryRecords
<1>2. /\ e.type \in DOMAIN EntryType /\ e.serviceId \in Short /\ e.instanceId \in Short
      /\ e.majorVersion \in Byte /\ e.ttl \in TimeToLive /\ e.last \in Short \X Short
      /\ e.first \in Seq(OptionRecords) /\ e.second \in Seq(OptionRecords)
  BY <1>1
<1>3. e = With(e, e.first, e.second)
  BY <1>1 DEF With
<1>4. e.last[1] \in Short /\ e.last[2] \in Short /\ e.last = <<e.last[1], e.last[2]>>
  BY <1>2
<1> QED BY <1>2, <1>3, <1>4

\* The byte of the type of an entry is the byte of no other one.
LEMMA EntryTypeIs ==
    ASSUME NEW t \in DOMAIN EntryType
    PROVE  /\ EntryType[t] \in Byte
           /\ (CHOOSE u \in DOMAIN EntryType : EntryType[u] = EntryType[t]) = t
           /\ \E u \in DOMAIN EntryType : EntryType[u] = EntryType[t]
<1>1. EntryType[t] \in Byte
  BY DEF EntryType, Byte
<1>2. \A u \in DOMAIN EntryType : EntryType[u] = EntryType[t] => u = t
  BY DEF EntryType
<1> QED BY <1>1, <1>2

\* The 24 bits of a time to live are a byte and a word.
LEMMA TimeToLiveBytes ==
    ASSUME NEW n \in TimeToLive
    PROVE  /\ n \div 65536 \in Byte /\ n % 65536 \in Short
           /\ 65536 * (n \div 65536) + (n % 65536) = n
<1>1. n \in Nat /\ n \div 65536 < 256 /\ n \div 65536 \in Nat
  BY DEF TimeToLive
<1>2. n \in Wide
  BY <1>1 DEF Wide
<1>3. n \div 65536 \in Byte
  BY <1>1 DEF Byte
<1> QED BY <1>2, <1>3, WordParts

\* The numbers that share bytes and words.
Counts(e) == 16 * Len(e.first) + Len(e.second)
TtlHigh(e) == e.ttl \div 65536
TtlLow(e) == e.ttl % 65536

\* The bytes of an entry, part by part.
EntryParts(e, x, h, s, i, v, t, l) ==
    /\ h = <<EntryType[e.type], x, x + Len(e.first), Counts(e)>>
    /\ s = Inject(e.serviceId) /\ i = Inject(e.instanceId)
    /\ v = <<e.majorVersion, TtlHigh(e)>> /\ t = Inject(TtlLow(e))
    /\ l = InjectInteger(e.last)
    /\ Len(h) = 4 /\ Len(s) = 2 /\ Len(i) = 2 /\ Len(v) = 2 /\ Len(t) = 2 /\ Len(l) = 4
    /\ ByteAt(h, 0) = EntryType[e.type] /\ ByteAt(h, 3) = Counts(e)
    /\ ByteAt(v, 0) = e.majorVersion /\ ByteAt(v, 1) = TtlHigh(e)

\* The time to live of an entry is what its two parts make.
LEMMA TtlIs ==
    ASSUME NEW e \in EntryRecords
    PROVE  TtlHigh(e) \in Byte /\ TtlLow(e) \in Short /\ 65536 * TtlHigh(e) + TtlLow(e) = e.ttl
BY EntryIs, TimeToLiveBytes DEF TtlHigh, TtlLow

\* The parts of an entry fit into their bytes.
LEMMA EntryPartsExist ==
    ASSUME NEW e \in EntryRecords, Len(e.first) <= 15, Len(e.second) <= 15,
           NEW x \in Nat, x + Len(e.first) <= 255
    PROVE  \E h, s, i, v, t, l \in Seq(Byte) : EntryParts(e, x, h, s, i, v, t, l)
<1>1. PICK h \in Seq(Byte) :
          /\ h = <<EntryType[e.type], x, x + Len(e.first), Counts(e)>>
          /\ Len(h) = 4 /\ ByteAt(h, 0) = EntryType[e.type] /\ ByteAt(h, 3) = Counts(e)
  <2>1. PICK a \in Byte, b \in Byte, c \in Byte, d \in Byte :
            a = EntryType[e.type] /\ b = x /\ c = x + Len(e.first) /\ d = Counts(e)
    <3>1. PICK m \in Nat, n \in Nat : m = Len(e.first) /\ n = Len(e.second)
      BY EntryIs
    <3>2. x \in Byte /\ x + m \in Byte /\ 16 * m + n \in Byte
      <4>1. m <= 15 /\ n <= 15 /\ x + m <= 255
        BY <3>1
      <4> QED BY <4>1 DEF Byte
    <3> QED BY <3>1, <3>2, EntryIs, EntryTypeIs DEF Counts
  <2>2. /\ <<a, b, c, d>> \in Seq(Byte) /\ Len(<<a, b, c, d>>) = 4
        /\ ByteAt(<<a, b, c, d>>, 0) = a /\ ByteAt(<<a, b, c, d>>, 3) = d
    BY FourBytes
  <2> QED BY <2>1, <2>2, Zenon
<1>2. PICK s \in Seq(Byte), i \in Seq(Byte), t \in Seq(Byte) :
          /\ s = Inject(e.serviceId) /\ i = Inject(e.instanceId) /\ t = Inject(TtlLow(e))
          /\ Len(s) = 2 /\ Len(i) = 2 /\ Len(t) = 2
  BY EntryIs, TtlIs, InjectIs
<1>3. PICK v \in Seq(Byte) :
          /\ v = <<e.majorVersion, TtlHigh(e)>> /\ Len(v) = 2
          /\ ByteAt(v, 0) = e.majorVersion /\ ByteAt(v, 1) = TtlHigh(e)
  <2>1. PICK a \in Byte, b \in Byte : a = e.majorVersion /\ b = TtlHigh(e)
    BY EntryIs, TtlIs
  <2>2. <<a, b>> \in Seq(Byte) /\ Len(<<a, b>>) = 2 /\ ByteAt(<<a, b>>, 0) = a /\ ByteAt(<<a, b>>, 1) = b
    BY TwoBytes
  <2> QED BY <2>1, <2>2, Zenon
<1>4. PICK l \in Seq(Byte) : l = InjectInteger(e.last) /\ Len(l) = 4
  <2>1. PICK p \in Short, q \in Short : e.last = <<p, q>>
    BY EntryIs
  <2>2. InjectInteger(<<p, q>>) \in Seq(Byte) /\ Len(InjectInteger(<<p, q>>)) = 4
    BY InjectIntegerIs
  <2> QED BY <2>1, <2>2
<1>5. EntryParts(e, x, h, s, i, v, t, l)
  BY <1>1, <1>2, <1>3, <1>4, Zenon DEF EntryParts
<1> QED BY <1>5, Zenon

\* The length of a joined sequence.
LEMMA Longer ==
    ASSUME NEW s \in Seq(Byte), NEW t \in Seq(Byte)
    PROVE  \E u \in Seq(Byte) : u = s \o t /\ Len(u) = Len(s) + Len(t)
<1>1. PICK u \in Seq(Byte) : u = s \o t /\ Joined(u, s, t)
  BY SomeJoined, Zenon
<1>2. Len(u) = Len(s) + Len(t)
  BY <1>1 DEF Joined
<1> QED BY <1>1, <1>2, Zenon

\* Where the six parts of an entry are.
SixIn(w, h, s, i, v, t, l) ==
    /\ Len(w) = 16
    /\ \A c \in Seq(Byte), k \in Nat :
          At(c, k, w) =>
              /\ At(c, k, h) /\ At(c, k + 4, s) /\ At(c, k + 6, i) /\ At(c, k + 8, v)
              /\ At(c, k + 10, t) /\ At(c, k + 12, l)

\* Where six parts of known lengths stand.
LEMMA SixParts ==
    ASSUME NEW h \in Seq(Byte), NEW s \in Seq(Byte), NEW i \in Seq(Byte), NEW v \in Seq(Byte),
           NEW t \in Seq(Byte), NEW l \in Seq(Byte),
           Len(h) = 4, Len(s) = 2, Len(i) = 2, Len(v) = 2, Len(t) = 2, Len(l) = 4
    PROVE  \E w \in Seq(Byte) :
              w = ((((h \o s) \o i) \o v) \o t) \o l /\ SixIn(w, h, s, i, v, t, l)
<1>1. PICK a \in Seq(Byte) : a = h \o s /\ Len(a) = 6
  <2>1. PICK a \in Seq(Byte) : a = h \o s /\ Len(a) = Len(h) + Len(s)
    BY Longer, Zenon
  <2>2. Len(a) = 6
    BY <2>1
  <2> QED BY <2>1, <2>2, Zenon
<1>2. PICK b \in Seq(Byte) : b = a \o i /\ Len(b) = 8
  <2>1. PICK b \in Seq(Byte) : b = a \o i /\ Len(b) = Len(a) + Len(i)
    BY Longer, Zenon
  <2>2. Len(b) = 8
    BY <1>1, <2>1
  <2> QED BY <2>1, <2>2, Zenon
<1>3. PICK d \in Seq(Byte) : d = b \o v /\ Len(d) = 10
  <2>1. PICK d \in Seq(Byte) : d = b \o v /\ Len(d) = Len(b) + Len(v)
    BY Longer, Zenon
  <2>2. Len(d) = 10
    BY <1>2, <2>1
  <2> QED BY <2>1, <2>2, Zenon
<1>4. PICK e \in Seq(Byte) : e = d \o t /\ Len(e) = 12
  <2>1. PICK e \in Seq(Byte) : e = d \o t /\ Len(e) = Len(d) + Len(t)
    BY Longer, Zenon
  <2>2. Len(e) = 12
    BY <1>3, <2>1
  <2> QED BY <2>1, <2>2, Zenon
<1>5. PICK w \in Seq(Byte) : w = e \o l /\ Len(w) = 16
  <2>1. PICK w \in Seq(Byte) : w = e \o l /\ Len(w) = Len(e) + Len(l)
    BY Longer, Zenon
  <2>2. Len(w) = 16
    BY <1>4, <2>1
  <2> QED BY <2>1, <2>2, Zenon
<1>6. ASSUME NEW c \in Seq(Byte), NEW k \in Nat, At(c, k, w)
      PROVE  /\ At(c, k, h) /\ At(c, k + 4, s) /\ At(c, k + 6, i) /\ At(c, k + 8, v)
             /\ At(c, k + 10, t) /\ At(c, k + 12, l)
  <2>1. At(c, k, e) /\ At(c, k + 12, l)
    <3>1. At(c, k, e \o l) /\ 12 \in Nat
      BY <1>5, <1>6
    <3>2. e \in Seq(Byte) /\ l \in Seq(Byte) /\ Len(e) = 12
      BY <1>4
    <3> QED BY <3>1, <3>2, Split, Zenon
  <2>2. At(c, k, d) /\ At(c, k + 10, t)
    <3>1. At(c, k, d \o t) /\ 10 \in Nat
      BY <1>4, <2>1
    <3>2. d \in Seq(Byte) /\ t \in Seq(Byte) /\ Len(d) = 10
      BY <1>3
    <3> QED BY <3>1, <3>2, Split, Zenon
  <2>3. At(c, k, b) /\ At(c, k + 8, v)
    <3>1. At(c, k, b \o v) /\ 8 \in Nat
      BY <1>3, <2>2
    <3> QED BY <1>2, <3>1, Split, Zenon
  <2>4. At(c, k, a) /\ At(c, k + 6, i)
    <3>1. At(c, k, a \o i) /\ 6 \in Nat
      BY <1>2, <2>3
    <3> QED BY <1>1, <3>1, Split, Zenon
  <2>5. At(c, k, h) /\ At(c, k + 4, s)
    <3>1. At(c, k, h \o s) /\ 4 \in Nat
      BY <1>1, <2>4
    <3> QED BY <3>1, Split, Zenon
  <2> QED BY <2>1, <2>2, <2>3, <2>4, <2>5
<1>7. SixIn(w, h, s, i, v, t, l)
  BY <1>5, <1>6 DEF SixIn
<1>8. w = ((((h \o s) \o i) \o v) \o t) \o l
  BY <1>1, <1>2, <1>3, <1>4, <1>5, Zenon
<1> QED BY <1>7, <1>8, Zenon

\* An entry is written in 16 bytes, each field in its place.
LEMMA EntryWritten ==
    ASSUME NEW e \in EntryRecords, Len(e.first) <= 15, Len(e.second) <= 15,
           NEW x \in Nat, x + Len(e.first) <= 255
    PROVE  /\ EntryPayload(e, x) \in Seq(Byte) /\ Len(EntryPayload(e, x)) = 16
           /\ \A c \in Seq(Byte), k \in Nat :
                 At(c, k, EntryPayload(e, x)) =>
                     /\ ByteAt(c, k) = EntryType[e.type] /\ ByteAt(c, k + 3) = Counts(e)
                     /\ ExtractShort(c, k + 4) = e.serviceId /\ ExtractShort(c, k + 6) = e.instanceId
                     /\ ByteAt(c, k + 8) = e.majorVersion /\ ByteAt(c, k + 9) = TtlHigh(e)
                     /\ ExtractShort(c, k + 10) = TtlLow(e)
                     /\ ExtractInteger(c, k + 12) = e.last
<1>1. PICK h, s, i, v, t, l \in Seq(Byte) : EntryParts(e, x, h, s, i, v, t, l)
  BY EntryPartsExist
<1>2. /\ h = <<EntryType[e.type], x, x + Len(e.first), Counts(e)>>
      /\ s = Inject(e.serviceId) /\ i = Inject(e.instanceId)
      /\ v = <<e.majorVersion, TtlHigh(e)>> /\ t = Inject(TtlLow(e))
      /\ l = InjectInteger(e.last)
      /\ Len(h) = 4 /\ Len(s) = 2 /\ Len(i) = 2 /\ Len(v) = 2 /\ Len(t) = 2 /\ Len(l) = 4
      /\ ByteAt(h, 0) = EntryType[e.type] /\ ByteAt(h, 3) = Counts(e)
      /\ ByteAt(v, 0) = e.majorVersion /\ ByteAt(v, 1) = TtlHigh(e)
  BY <1>1, Zenon DEF EntryParts
<1>3. PICK w \in Seq(Byte) :
              w = ((((h \o s) \o i) \o v) \o t) \o l /\ SixIn(w, h, s, i, v, t, l)
  <2>1. Len(h) = 4 /\ Len(s) = 2 /\ Len(i) = 2 /\ Len(v) = 2 /\ Len(t) = 2 /\ Len(l) = 4
    BY <1>2
  <2> QED BY <2>1, SixParts, Zenon
<1>4. EntryPayload(e, x) = w
  <2>1. BasePayload(e, x) = (((h \o s) \o i) \o v) \o t
    <3>1. /\ h = <<EntryType[e.type], x, x + Len(e.first), Counts(e)>>
          /\ s = Inject(e.serviceId) /\ i = Inject(e.instanceId)
          /\ v = <<e.majorVersion, TtlHigh(e)>> /\ t = Inject(TtlLow(e))
      BY <1>2
    <3>2. (((h \o s) \o i) \o v) \o t =
              <<EntryType[e.type], x, x + Len(e.first), Counts(e)>> \o Inject(e.serviceId)
              \o Inject(e.instanceId) \o <<e.majorVersion, TtlHigh(e)>> \o Inject(TtlLow(e))
      BY <3>1, Zenon
    <3> QED BY <3>2 DEF BasePayload, Counts, TtlHigh, TtlLow
  <2> QED BY <1>2, <1>3, <2>1, Zenon DEF EntryPayload
<1>5. ASSUME NEW c \in Seq(Byte), NEW k \in Nat, At(c, k, w)
      PROVE  /\ ByteAt(c, k) = EntryType[e.type] /\ ByteAt(c, k + 3) = Counts(e)
             /\ ExtractShort(c, k + 4) = e.serviceId /\ ExtractShort(c, k + 6) = e.instanceId
             /\ ByteAt(c, k + 8) = e.majorVersion /\ ByteAt(c, k + 9) = TtlHigh(e)
             /\ ExtractShort(c, k + 10) = TtlLow(e)
             /\ ExtractInteger(c, k + 12) = e.last
  <2>1. /\ At(c, k, h) /\ At(c, k + 4, s) /\ At(c, k + 6, i) /\ At(c, k + 8, v)
        /\ At(c, k + 10, t) /\ At(c, k + 12, l)
    BY <1>3, <1>5 DEF SixIn
  <2>2. k + 4 \in Nat /\ k + 6 \in Nat /\ k + 8 \in Nat /\ k + 10 \in Nat /\ k + 12 \in Nat /\ (k + 8) + 1 = k + 9
    OBVIOUS
  <2>3. ByteAt(c, k) = EntryType[e.type] /\ ByteAt(c, k + 3) = Counts(e)
    <3>1. ByteAt(c, k) = ByteAt(h, 0) /\ ByteAt(c, k + 3) = ByteAt(h, 3)
      <4>1. Len(h) = 4
        BY <1>2
      <4>2. At(c, k, h) /\ k \in Nat
        BY <2>1
      <4> QED BY <4>1, <4>2, FourAt, Zenon
    <3> QED BY <1>2, <3>1, Zenon
  <2>4. ByteAt(c, k + 8) = e.majorVersion /\ ByteAt(c, (k + 8) + 1) = TtlHigh(e)
    <3>1. ByteAt(c, k + 8) = ByteAt(v, 0) /\ ByteAt(c, (k + 8) + 1) = ByteAt(v, 1)
      <4>1. Len(v) = 2 /\ v \in Seq(Byte)
        BY <1>2
      <4>2. PICK j \in Nat : j = k + 8
        BY <2>2
      <4>3. At(c, j, v)
        BY <2>1, <4>2
      <4>4. ByteAt(c, j) = ByteAt(v, 0) /\ ByteAt(c, j + 1) = ByteAt(v, 1)
        BY <4>1, <4>3, TwoAt, Zenon
      <4> QED BY <4>2, <4>4
    <3> QED BY <1>2, <3>1, Zenon
  <2>5. ExtractShort(c, k + 4) = e.serviceId /\ ExtractShort(c, k + 6) = e.instanceId
    BY <1>2, <2>1, <2>2, EntryIs, ShortAt
  <2>6. ExtractShort(c, k + 10) = TtlLow(e)
    <3>1. PICK j \in Nat : j = k + 10
      BY <2>2
    <3>2. At(c, j, Inject(TtlLow(e))) /\ TtlLow(e) \in Short
      BY <1>2, <2>1, <3>1, TtlIs
    <3>3. ExtractShort(c, j) = TtlLow(e)
      BY <3>2, ShortAt, Zenon
    <3> QED BY <3>1, <3>3
  <2>7. ExtractInteger(c, k + 12) = e.last
    <3>1. PICK p \in Short, q \in Short : e.last = <<p, q>>
      BY EntryIs
    <3>2. At(c, k + 12, InjectInteger(<<p, q>>))
      BY <1>2, <2>1, <3>1
    <3> QED BY <2>2, <3>1, <3>2, IntegerAt
  <2> QED BY <2>2, <2>3, <2>4, <2>5, <2>6, <2>7
<1> QED BY <1>3, <1>4, <1>5 DEF SixIn

\* The arguments that EntryDeserializer reads before the last word.
ReadArguments(e) ==
    [serviceId |-> e.serviceId, instanceId |-> e.instanceId, majorVersion |-> e.majorVersion,
     ttl |-> e.ttl, last |-> <<0, 0>>]
Complete(e) == [ReadArguments(e) EXCEPT !.last = e.last]

\* The arguments with the last word.
LEMMA CompleteIs ==
    ASSUME NEW e
    PROVE  /\ Complete(e).serviceId = e.serviceId /\ Complete(e).instanceId = e.instanceId
           /\ Complete(e).majorVersion = e.majorVersion /\ Complete(e).ttl = e.ttl
           /\ Complete(e).last = e.last
<1>1. Complete(e) = [serviceId |-> e.serviceId, instanceId |-> e.instanceId,
                     majorVersion |-> e.majorVersion, ttl |-> e.ttl, last |-> e.last]
  BY DEF Complete, ReadArguments
<1> QED BY <1>1

\* The constructor makes an entry without options.
LEMMA NewEntryIs ==
    ASSUME NEW e, NEW type, NEW ttl, type = e.type, ttl = e.ttl
    PROVE  NewEntry(type, Complete(e), ttl) = With(e, << >>, << >>)
BY CompleteIs, Zenon DEF NewEntry, With

\* A service entry is read as it was written, without its options.
LEMMA ServiceRead ==
    ASSUME NEW e \in EntryRecords, MadeByFactory(e), e.type \in ServiceTypes,
           NEW c, NEW k, ExtractInteger(c, k) = e.last
    PROVE  DeserializeService(c, k, e.type, ReadArguments(e)) = With(e, << >>, << >>)
<1>1. PICK d : d = Complete(e) /\ d.ttl = e.ttl
  BY CompleteIs
<1>2. DeserializeService(c, k, e.type, ReadArguments(e)) =
          CASE e.type = "Finding" -> FindServiceEntry(d)
            [] e.type = "Offering" /\ d.ttl > 0 -> OfferServiceEntry(d)
            [] OTHER -> StopOfferEntry(d)
  BY <1>1, Zenon DEF DeserializeService, Complete
<1>3. CASE e.type = "Finding"
  <2>1. FindServiceEntry(d) = With(e, << >>, << >>)
    BY <1>1, <1>3, NewEntryIs, Zenon DEF FindServiceEntry
  <2>2. ~(e.type = "Offering" /\ d.ttl > 0)
    BY <1>3
  <2> QED BY <1>2, <1>3, <2>1, <2>2
<1>4. CASE e.type = "Offering" /\ d.ttl > 0
  <2>1. OfferServiceEntry(d) = With(e, << >>, << >>)
    BY <1>1, <1>4, NewEntryIs, Zenon DEF OfferServiceEntry
  <2>2. ~(e.type = "Finding")
    BY <1>4
  <2> QED BY <1>2, <1>4, <2>1, <2>2
<1>5. CASE e.type = "Offering" /\ ~(d.ttl > 0)
  <2>1. e.ttl = 0
    <3>1. e.ttl \in Nat
      BY EntryIs DEF TimeToLive
    <3> QED BY <1>1, <1>5, <3>1
  <2>2. StopOfferEntry(d) = With(e, << >>, << >>)
    BY <1>1, <1>5, <2>1, NewEntryIs, Zenon DEF StopOfferEntry
  <2>3. ~(e.type = "Finding") /\ ~(e.type = "Offering" /\ d.ttl > 0)
    BY <1>5
  <2> QED BY <1>2, <2>2, <2>3
<1>6. e.type = "Finding" \/ e.type = "Offering"
  BY DEF ServiceTypes
<1> QED BY <1>3, <1>4, <1>5, <1>6

\* An event-group entry is read as it was written, without its options.
LEMMA EventgroupRead ==
    ASSUME NEW e \in EntryRecords, MadeByFactory(e), e.type \notin ServiceTypes,
           NEW c, NEW k, <<ByteAt(c, k + 1), ExtractShort(c, k + 2)>> = e.last
    PROVE  DeserializeEventgroup(c, k, e.type, ReadArguments(e)) = With(e, << >>, << >>)
<1>1. PICK d : d = Complete(e) /\ d.ttl = e.ttl
  BY CompleteIs
<1>2. DeserializeEventgroup(c, k, e.type, ReadArguments(e)) =
          CASE e.type = "Acknowledging" -> AcknowledgeEntry(d)
            [] e.type = "Subscribing" /\ d.ttl > 0 -> SubscribeEventEntry(d)
            [] OTHER -> UnsubscribeEventEntry(d)
  BY <1>1, Zenon DEF DeserializeEventgroup, Complete
<1>3. CASE e.type = "Acknowledging"
  <2>1. AcknowledgeEntry(d) = With(e, << >>, << >>)
    BY <1>1, <1>3, NewEntryIs, Zenon DEF AcknowledgeEntry
  <2>2. ~(e.type = "Subscribing" /\ d.ttl > 0)
    BY <1>3
  <2> QED BY <1>2, <1>3, <2>1, <2>2
<1>4. CASE e.type = "Subscribing" /\ d.ttl > 0
  <2>1. e.ttl = 16777215
    BY <1>1, <1>4 DEF MadeByFactory
  <2>2. NewEntry("Subscribing", d, e.ttl) = With(e, << >>, << >>)
    BY <1>1, <1>4, NewEntryIs, Zenon
  <2>3. SubscribeEventEntry(d) = With(e, << >>, << >>)
    BY <2>1, <2>2 DEF SubscribeEventEntry
  <2>4. ~(e.type = "Acknowledging")
    BY <1>4
  <2> QED BY <1>2, <1>4, <2>3, <2>4
<1>5. CASE e.type = "Subscribing" /\ ~(d.ttl > 0)
  <2>1. e.ttl = 0
    <3>1. e.ttl \in Nat
      BY EntryIs DEF TimeToLive
    <3> QED BY <1>1, <1>5, <3>1
  <2>2. UnsubscribeEventEntry(d) = With(e, << >>, << >>)
    BY <1>1, <1>5, <2>1, NewEntryIs, Zenon DEF UnsubscribeEventEntry
  <2>3. ~(e.type = "Acknowledging") /\ ~(e.type = "Subscribing" /\ d.ttl > 0)
    BY <1>5
  <2> QED BY <1>2, <2>2, <2>3
<1>6. e.type = "Acknowledging" \/ e.type = "Subscribing"
  <2>1. e.type \in DOMAIN EntryType
    BY EntryIs
  <2> QED BY <2>1 DEF ServiceTypes, EntryType
<1> QED BY <1>3, <1>4, <1>5, <1>6

\* What is read where an entry was written.
LEMMA EntryDeserialized ==
    ASSUME NEW e \in EntryRecords, MadeByFactory(e), Len(e.first) <= 15, Len(e.second) <= 15,
           NEW x \in Nat, x + Len(e.first) <= 255,
           NEW c \in Seq(Byte), NEW k \in Nat, At(c, k, EntryPayload(e, x))
    PROVE  /\ DeserializeEntry(c, k) = With(e, << >>, << >>)
           /\ ByteAt(c, k) = EntryType[e.type] /\ ByteAt(c, k + 3) = Counts(e)
<1>1. /\ ByteAt(c, k) = EntryType[e.type] /\ ByteAt(c, k + 3) = Counts(e)
      /\ ExtractShort(c, k + 4) = e.serviceId /\ ExtractShort(c, k + 6) = e.instanceId
      /\ ByteAt(c, k + 8) = e.majorVersion /\ ByteAt(c, k + 9) = TtlHigh(e)
      /\ ExtractShort(c, k + 10) = TtlLow(e) /\ ExtractInteger(c, k + 12) = e.last
  BY EntryWritten
<1>2. ExtractTimeToLive(c, k + 9) = e.ttl
  <2>1. (k + 9) + 1 = k + 10
    OBVIOUS
  <2>2. 65536 * ByteAt(c, k + 9) + ExtractShort(c, (k + 9) + 1) = e.ttl
    BY <1>1, <2>1, TtlIs
  <2> QED BY <2>2 DEF ExtractTimeToLive
<1>3. (CHOOSE t \in DOMAIN EntryType : EntryType[t] = ByteAt(c, k)) = e.type
  <2>1. e.type \in DOMAIN EntryType
    BY EntryIs
  <2> QED BY <1>1, <2>1, EntryTypeIs
<1>4. [serviceId |-> ExtractShort(c, k + 4), instanceId |-> ExtractShort(c, k + 6),
       majorVersion |-> ByteAt(c, k + 8),
       ttl |-> ExtractTimeToLive(c, k + 9), last |-> <<0, 0>>]
      = ReadArguments(e)
  BY <1>1, <1>2, Zenon DEF ReadArguments
<1>5. DeserializeEntry(c, k) =
          IF e.type \in ServiceTypes THEN DeserializeService(c, k + 12, e.type, ReadArguments(e))
          ELSE DeserializeEventgroup(c, k + 12, e.type, ReadArguments(e))
  <2> DEFINE type == CHOOSE t \in DOMAIN EntryType : EntryType[t] = ByteAt(c, k)
             arguments ==
                 [serviceId |-> ExtractShort(c, k + 4), instanceId |-> ExtractShort(c, k + 6),
                  majorVersion |-> ByteAt(c, k + 8),
                  ttl |-> ExtractTimeToLive(c, k + 9), last |-> <<0, 0>>]
  <2>1. DeserializeEntry(c, k) =
            IF type \in ServiceTypes THEN DeserializeService(c, k + 12, type, arguments)
            ELSE DeserializeEventgroup(c, k + 12, type, arguments)
    BY Zenon DEF DeserializeEntry
  <2>2. type = e.type /\ arguments = ReadArguments(e)
    BY <1>3, <1>4
  <2> HIDE DEF type, arguments
  <2> QED BY <2>1, <2>2, Zenon
<1>6. CASE e.type \in ServiceTypes
  BY <1>1, <1>5, <1>6, ServiceRead
<1>7. CASE e.type \notin ServiceTypes
  <2>1. PICK p \in Short, q \in Short : e.last = <<p, q>> /\ p <= 15
    BY <1>7, EntryIs DEF MadeByFactory
  <2>2. ExtractShort(c, k + 12) = p /\ ExtractShort(c, (k + 12) + 2) = q
    BY <1>1, <2>1 DEF ExtractInteger
  <2>3. ByteAt(c, (k + 12) + 1) = p
    <3>1. 256 * ByteAt(c, k + 12) + ByteAt(c, (k + 12) + 1) = p
      BY <2>2 DEF ExtractShort
    <3>2. PICK y \in Byte, z \in Byte : y = ByteAt(c, k + 12) /\ z = ByteAt(c, (k + 12) + 1)
      <4>1. \A i \in Nat : ByteAt(c, i) \in Byte
        BY ByteAtIs
      <4>2. k + 12 \in Nat /\ (k + 12) + 1 \in Nat
        OBVIOUS
      <4> QED BY <4>1, <4>2
    <3>3. z = p
      <4>1. y \in Nat /\ z \in Nat /\ p \in Nat /\ p <= 15 /\ 256 * y + z = p
        <5>1. Byte \subseteq Nat /\ Short \subseteq Nat
          BY DEF Byte, Short
        <5> QED BY <2>1, <3>1, <3>2, <5>1
      <4>2. y = 0
        BY <4>1
      <4> QED BY <4>1, <4>2
    <3> QED BY <3>2, <3>3
  <2>4. <<ByteAt(c, (k + 12) + 1), ExtractShort(c, (k + 12) + 2)>> = e.last
    BY <2>1, <2>2, <2>3
  <2>5. DeserializeEventgroup(c, k + 12, e.type, ReadArguments(e)) = With(e, << >>, << >>)
    BY <1>7, <2>4, EventgroupRead
  <2> QED BY <1>1, <1>5, <1>7, <2>5
<1> QED BY <1>6, <1>7

\* What reading the entry's sixteen bytes comes to: all of them or an exception.
EntryReads(c, k, e) ==
    /\ EntryReadable(c, k) => k + 16 <= Len(c)
    /\ k + 16 <= Len(c) =>
          /\ EntryReadable(c, k) /\ DeserializeEntry(c, k) = With(e, << >>, << >>)
          /\ ByteAt(c, k + 3) = Counts(e)

\* An entry of a payload that may be cut is readable when all of it is there, and
\* is then read as it was written.
LEMMA EntryRead ==
    ASSUME NEW e \in EntryRecords, MadeByFactory(e), Len(e.first) <= 15, Len(e.second) <= 15,
           NEW x \in Nat, x + Len(e.first) <= 255,
           NEW c \in Seq(Byte), NEW k \in Nat, Cut(c, k, EntryPayload(e, x))
    PROVE  EntryReads(c, k, e)
<1>1. EntryReadable(c, k) => k + 16 <= Len(c)
  BY DEF EntryReadable, cEntrySize
<1>2. ASSUME k + 16 <= Len(c)
      PROVE  /\ EntryReadable(c, k) /\ DeserializeEntry(c, k) = With(e, << >>, << >>)
             /\ ByteAt(c, k + 3) = Counts(e)
  <2>1. Len(EntryPayload(e, x)) = 16 /\ EntryPayload(e, x) \in Seq(Byte)
    BY EntryWritten
  <2>2. At(c, k, EntryPayload(e, x))
    <3>1. Len(c) \in Nat /\ Len(EntryPayload(e, x)) \in Nat /\ k + Len(EntryPayload(e, x)) <= Len(c)
      BY <1>2, <2>1
    <3> QED BY <3>1, CutWhole
  <2>3. /\ DeserializeEntry(c, k) = With(e, << >>, << >>)
        /\ ByteAt(c, k) = EntryType[e.type] /\ ByteAt(c, k + 3) = Counts(e)
    BY <2>2, EntryDeserialized
  <2>4. \E t \in DOMAIN EntryType : EntryType[t] = ByteAt(c, k)
    BY <2>3, EntryIs, EntryTypeIs
  <2>5. /\ DeserializeEntry(c, k).type = "Finding" => DeserializeEntry(c, k).ttl > 0
        /\ DeserializeEntry(c, k).type \notin ServiceTypes => DeserializeEntry(c, k).last[1] <= 15
    BY <2>3 DEF With, MadeByFactory
  <2> QED BY <1>2, <2>3, <2>4, <2>5 DEF EntryReadable, cEntrySize
<1> QED BY <1>1, <1>2, Zenon DEF EntryReads

-----------------------------------------------------------------------------
(* The layout of a service-discovery message *)

\* A later part begins no earlier.
LEMMA OffsetsGrow ==
    ASSUME NEW parts, NEW at, Offsets(at, parts), NEW n \in Nat, n = Len(parts),
           \A k \in 1 .. n : Len(parts[k]) \in Nat,
           NEW i \in 0 .. n, NEW j \in 0 .. n, i <= j
    PROVE  at[i] \in Nat /\ at[j] \in Nat /\ at[i] <= at[j]
<1>1. /\ at \in [0 .. n -> Nat]
      /\ \A k \in 1 .. n : at[k] = at[k - 1] + Len(parts[k])
  BY DEF Offsets
<1> DEFINE G == {k \in Nat : i + k \in 0 .. n => at[i] <= at[i + k]}
<1>2. 0 \in G
  <2>0. i + 0 = i
    OBVIOUS
  <2>1. i + 0 = i /\ at[i] \in Nat
    BY <1>1, <2>0, Zenon
  <2>2. at[i] <= at[i]
    BY <2>1
  <2> QED BY <2>1, <2>2
<1>3. ASSUME NEW k \in Nat, k \in G PROVE k + 1 \in G
  <2> SUFFICES ASSUME i + (k + 1) \in 0 .. n PROVE at[i] <= at[i + (k + 1)]
    OBVIOUS
  <2>1. i + k \in 0 .. n /\ i + (k + 1) \in 1 .. n /\ (i + (k + 1)) - 1 = i + k
    OBVIOUS
  <2>2. PICK a \in Nat, b \in Nat, l \in Nat : a = at[i] /\ b = at[i + k] /\ l = Len(parts[i + (k + 1)])
    BY <1>1, <2>1
  <2>3. a <= b
    BY <1>3, <2>1, <2>2
  <2>4. at[i + (k + 1)] = b + l
    BY <1>1, <2>1, <2>2
  <2> QED BY <2>2, <2>3, <2>4
<1>4. \A k \in Nat : k \in G
  <2> HIDE DEF G
  <2>1. G \subseteq Nat
    BY DEF G
  <2> QED BY <1>2, <1>3, NatSetInduction
<1>5. j - i \in Nat /\ i + (j - i) = j
  OBVIOUS
<1>6. at[i] <= at[i + (j - i)]
  <2>1. j - i \in G
    BY <1>4, <1>5
  <2> QED BY <1>5, <2>1
<1> QED BY <1>1, <1>5, <1>6

\* The parts q are as long as the first ones of p.
SameLengths(q, p) == Len(q) <= Len(p) /\ \A k \in 1 .. Len(q) : Len(q[k]) = Len(p[k])

\* Parts of the same lengths have the same offsets.
LEMMA OffsetsAgree ==
    ASSUME NEW p, NEW at, Offsets(at, p), NEW q, NEW bt, Offsets(bt, q),
           Len(q) \in Nat, Len(p) \in Nat, SameLengths(q, p)
    PROVE  \A k \in 0 .. Len(q) : bt[k] = at[k]
<1>0. PICK m \in Nat, n \in Nat :
          m = Len(q) /\ n = Len(p) /\ m <= n /\ \A k \in 1 .. m : Len(q[k]) = Len(p[k])
  BY DEF SameLengths
<1> DEFINE G == {k \in Nat : k \in 0 .. m => bt[k] = at[k]}
<1>1. 0 \in G
  BY DEF Offsets
<1>2. ASSUME NEW k \in Nat, k \in G PROVE k + 1 \in G
  <2> SUFFICES ASSUME k + 1 \in 0 .. m PROVE bt[k + 1] = at[k + 1]
    OBVIOUS
  <2>1. k \in 0 .. m /\ k + 1 \in 1 .. m /\ k + 1 \in 1 .. n /\ (k + 1) - 1 = k
    BY <1>0
  <2>2. bt[k] = at[k]
    BY <1>2, <2>1
  <2>3. bt[k + 1] = bt[k] + Len(q[k + 1]) /\ at[k + 1] = at[k] + Len(p[k + 1])
    BY <1>0, <2>1 DEF Offsets
  <2> QED BY <1>0, <2>1, <2>2, <2>3
<1>3. \A k \in Nat : k \in G
  <2> HIDE DEF G
  <2>1. G \subseteq Nat
    BY DEF G
  <2> QED BY <1>1, <1>2, NatSetInduction
<1> QED BY <1>0, <1>3

\* Parts of the same length.
LEMMA OffsetsOfSixteen ==
    ASSUME NEW parts, NEW at, Offsets(at, parts), NEW n \in Nat, n = Len(parts),
           \A k \in 1 .. n : Len(parts[k]) = 16
    PROVE  \A k \in 0 .. n : at[k] = 16 * k
<1> DEFINE G == {k \in Nat : k \in 0 .. n => at[k] = 16 * k}
<1>1. 0 \in G
  BY DEF Offsets
<1>2. ASSUME NEW k \in Nat, k \in G PROVE k + 1 \in G
  <2> SUFFICES ASSUME k + 1 \in 0 .. n PROVE at[k + 1] = 16 * (k + 1)
    OBVIOUS
  <2>1. k \in 0 .. n /\ k + 1 \in 1 .. n /\ (k + 1) - 1 = k
    OBVIOUS
  <2>2. at[k] = 16 * k
    BY <1>2, <2>1
  <2>3. at[k + 1] = at[k] + 16
    BY <2>1 DEF Offsets
  <2> QED BY <2>2, <2>3
<1>3. \A k \in Nat : k \in G
  <2> HIDE DEF G
  <2>1. G \subseteq Nat
    BY DEF G
  <2> QED BY <1>1, <1>2, NatSetInduction
<1> QED BY <1>3

\* Where a part is found in what holds all of them.
LEMMA PartAt ==
    ASSUME NEW s, NEW parts \in Seq(Seq(Byte)), NEW at, Flat(s, parts, at, Byte),
           NEW b \in Seq(Byte), NEW i \in Nat, At(b, i, s), NEW k \in 1 .. Len(parts)
    PROVE  At(b, i + at[k - 1], parts[k])
<1>1. PICK n \in Nat : n = Len(parts)
  OBVIOUS
<1>2. Offsets(at, parts) /\ s \in Seq(Byte) /\ Len(s) = at[n]
  BY <1>1 DEF Flat
<1>3. parts[k] \in Seq(Byte) /\ \A j \in 1 .. n : Len(parts[j]) \in Nat
  BY <1>1
<1>4. PICK a \in Nat, d \in Nat, l \in Nat, z \in Nat :
          a = at[k - 1] /\ d = at[k] /\ l = Len(parts[k]) /\ z = at[n] /\ d = a + l /\ d <= z
  <2>1. k - 1 \in 0 .. n /\ k \in 0 .. n /\ n \in 0 .. n /\ k <= n /\ k \in 1 .. n /\ 0 <= k - 1 /\ k - 1 <= k
    BY <1>1
  <2>2. at[k] \in Nat /\ at[n] \in Nat /\ at[k] <= at[n]
    BY <1>1, <1>2, <1>3, <2>1, OffsetsGrow
  <2>3. at[k - 1] \in Nat /\ at[k] = at[k - 1] + Len(parts[k])
    BY <1>1, <1>2, <2>1 DEF Offsets
  <2>4. Len(parts[k]) \in Nat
    BY <1>3
  <2> QED BY <2>2, <2>3, <2>4, Zenon
<1>5. ASSUME NEW j \in Nat, j < l PROVE ByteAt(b, (i + a) + j) = ByteAt(parts[k], j)
  <2>1. j + 1 \in 1 .. l /\ a + j \in Nat /\ a + j < z /\ i + (a + j) = (i + a) + j /\ a + (j + 1) = (a + j) + 1
    <3>1. d = a + l /\ d <= z
      BY <1>4
    <3> QED BY <1>5, <3>1
  <2>2. s[a + (j + 1)] = parts[k][j + 1]
    BY <1>4, <2>1 DEF Flat
  <2>3. ByteAt(s, a + j) = s[(a + j) + 1]
    BY <1>2, <1>4, <2>1, ByteAtIs
  <2>4. ByteAt(parts[k], j) = parts[k][j + 1]
    BY <1>3, <1>4, <1>5, ByteAtIs
  <2>5. ByteAt(b, i + (a + j)) = ByteAt(s, a + j)
    BY <1>2, <1>4, <2>1 DEF At
  <2> QED BY <2>1, <2>2, <2>3, <2>4, <2>5
<1>6. (i + a) + l <= Len(b)
  <2>1. i + z <= Len(b) /\ Len(b) \in Nat
    BY <1>2, <1>4 DEF At
  <2>2. PICK m \in Nat : m = Len(b) /\ i + z <= m
    BY <2>1
  <2>3. d = a + l /\ d <= z
    BY <1>4
  <2>4. (i + a) + l <= m
    BY <2>2, <2>3
  <2> QED BY <2>2, <2>4
<1>7. At(b, i + a, parts[k])
  BY <1>4, <1>5, <1>6, Zenon DEF At
<1> QED BY <1>4, <1>7

OptionLists(entries) == [k \in DOMAIN entries |-> AllOptions(entries[k])]
OptionParts(options) == [k \in DOMAIN options |-> OptionPayload(options[k])]
EntryBytes(entries) ==
    [k \in DOMAIN entries |->
        EntryPayload(entries[k], 2 * Len(MessageOptions(SubSeq(entries, 1, k - 1))))]

\* The options of an entry are those of its first list and those of its second.
LEMMA AllOptionsIs ==
    ASSUME NEW e \in EntryRecords
    PROVE  /\ AllOptions(e) \in Seq(OptionRecords)
           /\ Len(e.first) \in Nat /\ Len(e.second) \in Nat
           /\ Len(AllOptions(e)) = Len(e.first) + Len(e.second)
           /\ \A i \in 1 .. Len(e.first) : AllOptions(e)[i] = e.first[i]
           /\ \A i \in 1 .. Len(e.second) : AllOptions(e)[Len(e.first) + i] = e.second[i]
<1>1. PICK s \in Seq(OptionRecords), t \in Seq(OptionRecords) : s = e.first /\ t = e.second
  BY EntryIs
<1>2. /\ s \o t \in Seq(OptionRecords) /\ Len(s) \in Nat /\ Len(t) \in Nat /\ Len(s \o t) = Len(s) + Len(t)
      /\ \A i \in 1 .. Len(s) : (s \o t)[i] = s[i]
      /\ \A i \in 1 .. Len(t) : (s \o t)[Len(s) + i] = t[i]
  <2>1. s \in Seq(OptionRecords) /\ t \in Seq(OptionRecords)
    OBVIOUS
  <2> QED BY <2>1, Concat
<1> QED BY <1>1, <1>2, Zenon DEF AllOptions

\* The options of each entry, for all of them.
LEMMA ListsAre ==
    ASSUME NEW entries \in Seq(EntryRecords)
    PROVE  /\ OptionLists(entries) \in Seq(Seq(OptionRecords))
           /\ Len(OptionLists(entries)) = Len(entries) /\ DOMAIN entries = 1 .. Len(entries)
           /\ \A k \in 1 .. Len(entries) : OptionLists(entries)[k] = AllOptions(entries[k])
<1>1. \A k \in 1 .. Len(entries) : AllOptions(entries[k]) \in Seq(OptionRecords)
  <2>1. \A k \in 1 .. Len(entries) : entries[k] \in EntryRecords
    OBVIOUS
  <2> QED BY <2>1, AllOptionsIs
<1>2. PICK n \in Nat : n = Len(entries) /\ DOMAIN entries = 1 .. n
  OBVIOUS
<1>3. OptionLists(entries) = [k \in 1 .. n |-> AllOptions(entries[k])]
  BY <1>2, Zenon DEF OptionLists
<1>4. [k \in 1 .. n |-> AllOptions(entries[k])] \in Seq(Seq(OptionRecords))
  BY <1>1, <1>2
<1>5. Len([k \in 1 .. n |-> AllOptions(entries[k])]) = n
  OBVIOUS
<1> QED BY <1>2, <1>3, <1>4, <1>5

\* The options of a message are those of its entries, one behind the other.
LEMMA OptionsFlat ==
    ASSUME NEW entries \in Seq(EntryRecords)
    PROVE  \E at : Flat(MessageOptions(entries), OptionLists(entries), at, OptionRecords)
<1>1. OptionLists(entries) \in Seq(Seq(OptionRecords))
  BY ListsAre
<1>2. MessageOptions(entries) = FlattenSeq(OptionLists(entries))
  BY Zenon DEF MessageOptions, OptionLists
<1> QED BY <1>1, <1>2, FlattenIs

\* The options of a message are options.
LEMMA MessageOptionsIn ==
    ASSUME NEW entries \in Seq(EntryRecords)
    PROVE  MessageOptions(entries) \in Seq(OptionRecords) /\ Len(MessageOptions(entries)) \in Nat
<1>1. PICK at : Flat(MessageOptions(entries), OptionLists(entries), at, OptionRecords)
  BY OptionsFlat
<1>2. MessageOptions(entries) \in Seq(OptionRecords)
  BY <1>1 DEF Flat
<1> QED BY <1>2

\* The m entries some are the first ones of entries.
StartsWith(entries, some, m) ==
    m = Len(some) /\ m <= Len(entries) /\ \A k \in 1 .. m : some[k] = entries[k]

\* The options of the first entries of a message.
LEMMA OptionsOfSome ==
    ASSUME NEW entries \in Seq(EntryRecords), NEW at,
           Flat(MessageOptions(entries), OptionLists(entries), at, OptionRecords),
           NEW some \in Seq(EntryRecords), NEW m \in Nat, StartsWith(entries, some, m)
    PROVE  Len(MessageOptions(some)) = at[m]
<1>0. m = Len(some) /\ m <= Len(entries) /\ \A k \in 1 .. m : some[k] = entries[k]
  BY Zenon DEF StartsWith
<1>1. PICK bt : Flat(MessageOptions(some), OptionLists(some), bt, OptionRecords)
  BY OptionsFlat
<1>2. PICK n \in Nat : n = Len(entries)
  OBVIOUS
<1>2p. PICK p : p = OptionLists(entries)
  OBVIOUS
<1>2q. PICK q : q = OptionLists(some)
  OBVIOUS
<1>3. Offsets(at, p) /\ Offsets(bt, q) /\ Len(MessageOptions(some)) = bt[Len(q)]
  BY <1>1, <1>2p, <1>2q DEF Flat
<1>4. m = Len(q) /\ n = Len(p) /\ m <= n
  BY <1>0, <1>2, <1>2p, <1>2q, ListsAre
<1>5. \A k \in 1 .. m : Len(q[k]) = Len(p[k])
  <2>1. \A k \in 1 .. m : k \in 1 .. n
    BY <1>4
  <2>2. \A k \in 1 .. m : q[k] = AllOptions(some[k])
    BY <1>0, <1>2, <1>2p, <1>2q, ListsAre
  <2>3. \A k \in 1 .. n : p[k] = AllOptions(entries[k])
    BY <1>2, <1>2p, <1>2q, ListsAre
  <2> QED BY <1>0, <2>1, <2>2, <2>3
<1>6. \A k \in 0 .. m : bt[k] = at[k]
  <2>1. Offsets(at, p) /\ Offsets(bt, q) /\ Len(q) \in Nat /\ Len(p) \in Nat
    BY <1>3, <1>4
  <2>2. SameLengths(q, p)
    BY <1>4, <1>5 DEF SameLengths
  <2>3. \A k \in 0 .. Len(q) : bt[k] = at[k]
    BY <2>1, <2>2, OffsetsAgree
  <2> QED BY <1>4, <2>3
<1> QED BY <1>3, <1>4, <1>6

\* One more entry adds its options to those of the message.
LEMMA OptionsAppended ==
    ASSUME NEW entries \in Seq(EntryRecords), NEW e \in EntryRecords
    PROVE  Len(MessageOptions(Append(entries, e))) = Len(MessageOptions(entries)) + Len(AllOptions(e))
<1>1. PICK n \in Nat, more \in Seq(EntryRecords) :
          /\ n = Len(entries) /\ more = Append(entries, e) /\ Len(more) = n + 1
          /\ more[n + 1] = e /\ \A k \in 1 .. n : more[k] = entries[k]
  <2>1. Append(entries, e) \in Seq(EntryRecords) /\ Len(Append(entries, e)) = Len(entries) + 1
    OBVIOUS
  <2>2. Append(entries, e)[Len(entries) + 1] = e /\ \A k \in 1 .. Len(entries) : Append(entries, e)[k] = entries[k]
    OBVIOUS
  <2>3. Len(entries) \in Nat
    OBVIOUS
  <2> QED BY <2>1, <2>2, <2>3, Zenon
<1>2. PICK at : Flat(MessageOptions(more), OptionLists(more), at, OptionRecords)
  BY OptionsFlat
<1>3. Len(MessageOptions(entries)) = at[n]
  <2>1. n <= Len(more) /\ \A k \in 1 .. n : entries[k] = more[k]
    BY <1>1
  <2>2. more \in Seq(EntryRecords) /\ n \in Nat /\ n = Len(entries)
    BY <1>1
  <2>3. StartsWith(more, entries, n)
    BY <2>1, <2>2, Zenon DEF StartsWith
  <2> QED BY <1>2, <2>2, <2>3, OptionsOfSome, Zenon
<1>4. Len(OptionLists(more)) = n + 1 /\ OptionLists(more)[n + 1] = AllOptions(e)
  <2>1. n + 1 \in 1 .. Len(more)
    BY <1>1
  <2> QED BY <1>1, <2>1, ListsAre
<1>5. at[n + 1] = at[n] + Len(AllOptions(e)) /\ Len(MessageOptions(more)) = at[n + 1]
  <2>1. n + 1 \in 1 .. (n + 1) /\ (n + 1) - 1 = n
    OBVIOUS
  <2> QED BY <1>2, <1>4, <2>1 DEF Flat, Offsets
<1> QED BY <1>1, <1>3, <1>5

\* The bytes of each option, for all of them.
LEMMA OptionPartsAre ==
    ASSUME NEW options \in Seq(OptionRecords)
    PROVE  /\ OptionParts(options) \in Seq(Seq(Byte)) /\ Len(options) \in Nat
           /\ Len(OptionParts(options)) = Len(options)
           /\ \A k \in 1 .. Len(options) :
                 /\ OptionParts(options)[k] = OptionPayload(options[k])
                 /\ Len(OptionParts(options)[k]) = 3 + OptionLength(options[k])
                 /\ Len(OptionParts(options)[k]) \in 8 .. 12
<1>1. PICK n \in Nat : n = Len(options) /\ DOMAIN options = 1 .. n
  OBVIOUS
<1>2. \A k \in 1 .. n : options[k] \in OptionRecords
  BY <1>1
<1>3. \A k \in 1 .. n : /\ OptionPayload(options[k]) \in Seq(Byte)
                        /\ Len(OptionPayload(options[k])) = 3 + OptionLength(options[k])
                        /\ Len(OptionPayload(options[k])) \in 8 .. 12
  <2>1. \A o \in OptionRecords : /\ OptionPayload(o) \in Seq(Byte)
                                 /\ Len(OptionPayload(o)) = 3 + OptionLength(o)
                                 /\ Len(OptionPayload(o)) \in 8 .. 12
    BY OptionSizes
  <2> QED BY <1>2, <2>1
<1>4. OptionParts(options) = [k \in 1 .. n |-> OptionPayload(options[k])]
  BY <1>1, Zenon DEF OptionParts
<1>5. [k \in 1 .. n |-> OptionPayload(options[k])] \in Seq(Seq(Byte))
  BY <1>3
<1>6. Len([k \in 1 .. n |-> OptionPayload(options[k])]) = n
  OBVIOUS
<1> QED BY <1>1, <1>3, <1>4, <1>5, <1>6

\* The bytes of the options stand one behind the other.
LEMMA OptionsPayloadFlat ==
    ASSUME NEW options \in Seq(OptionRecords)
    PROVE  \E at : Flat(OptionsPayload(options), OptionParts(options), at, Byte)
<1>1. OptionParts(options) \in Seq(Seq(Byte))
  BY OptionPartsAre
<1>2. OptionsPayload(options) = FlattenSeq(OptionParts(options))
  BY Zenon DEF OptionsPayload, OptionParts
<1> QED BY <1>1, <1>2, FlattenIs

\* getOptionsLength is the number of bytes that are written for the options.
LEMMA OptionsLengthIs ==
    ASSUME NEW entries \in Seq(EntryRecords)
    PROVE  getOptionsLength(entries) = Len(OptionsPayload(MessageOptions(entries)))
<1>1. PICK options \in Seq(OptionRecords) : options = MessageOptions(entries)
  BY MessageOptionsIn
<1>2. PICK n \in Nat : n = Len(options)
  OBVIOUS
<1>3. PICK at : Flat(OptionsPayload(options), OptionParts(options), at, Byte)
  BY OptionsPayloadFlat
<1>4. Offsets(at, OptionParts(options)) /\ Len(OptionsPayload(options)) = at[n] /\ Len(OptionParts(options)) = n
  BY <1>2, <1>3, OptionPartsAre DEF Flat
<1>5. /\ at \in [0 .. n -> Nat] /\ at[0] = 0
      /\ \A k \in 1 .. n : at[k] = at[k - 1] + (3 + OptionLength(options[k]))
  BY <1>2, <1>4, OptionPartsAre DEF Offsets
<1> DEFINE Def(f) == [k \in 0 .. n |-> IF k = 0 THEN 0 ELSE f[k - 1] + 3 + OptionLength(options[k])]
<1>6. at = Def(at)
  <2>1. ASSUME NEW k \in 0 .. n PROVE at[k] = Def(at)[k]
    <3>1. CASE k = 0
      BY <1>5, <3>1
    <3>2. CASE k # 0
      <4>1. k \in 1 .. n /\ k - 1 \in 0 .. n
        BY <3>2
      <4>2. at[k - 1] \in Nat /\ OptionLength(options[k]) \in Nat
        <5>1. OptionLength(options[k]) \in Nat
          BY DEF OptionLength
        <5> QED BY <1>5, <4>1, <5>1
      <4>3. at[k] = at[k - 1] + (3 + OptionLength(options[k]))
        BY <1>5, <4>1
      <4>4. at[k] = at[k - 1] + 3 + OptionLength(options[k])
        <5>1. PICK a \in Nat, l \in Nat : a = at[k - 1] /\ l = OptionLength(options[k])
          BY <4>2
        <5>2. a + (3 + l) = a + 3 + l
          OBVIOUS
        <5> QED BY <4>3, <5>1, <5>2
      <4> QED BY <3>2, <4>4
    <3> QED BY <3>1, <3>2
  <2>2. Def(at) = [k \in 0 .. n |-> Def(at)[k]]
    OBVIOUS
  <2>3. at = [k \in 0 .. n |-> at[k]]
    BY <1>5
  <2> HIDE DEF Def
  <2> QED BY <2>1, <2>2, <2>3
<1>7. PICK g : g = (CHOOSE f : f = Def(f)) /\ g = Def(g)
  <2> HIDE DEF Def
  <2> QED BY <1>6, Zenon
<1>8. getOptionsLength(entries) = g[n]
  BY <1>1, <1>2, <1>7 DEF getOptionsLength
<1>9. g[0] = 0 /\ \A k \in 1 .. n : g[k] = g[k - 1] + 3 + OptionLength(options[k])
  <2>1. \A k \in 0 .. n : g[k] = IF k = 0 THEN 0 ELSE g[k - 1] + 3 + OptionLength(options[k])
    BY <1>7
  <2> QED BY <2>1
<1> HIDE DEF Def
<1> DEFINE G == {k \in Nat : k \in 0 .. n => g[k] = at[k]}
<1>10. 0 \in G
  BY <1>5, <1>9
<1>11. ASSUME NEW k \in Nat, k \in G PROVE k + 1 \in G
  <2> SUFFICES ASSUME k + 1 \in 0 .. n PROVE g[k + 1] = at[k + 1]
    OBVIOUS
  <2>1. k \in 0 .. n /\ k + 1 \in 1 .. n /\ (k + 1) - 1 = k
    OBVIOUS
  <2>2. g[k] = at[k] /\ at[k] \in Nat
    BY <1>5, <1>11, <2>1
  <2>3. g[k + 1] = g[k] + 3 + OptionLength(options[k + 1])
    BY <1>9, <2>1
  <2>4. at[k + 1] = at[k] + (3 + OptionLength(options[k + 1]))
    BY <1>5, <2>1
  <2>5. OptionLength(options[k + 1]) \in Nat
    BY DEF OptionLength
  <2> QED BY <2>2, <2>3, <2>4, <2>5
<1>12. n \in G
  <2> HIDE DEF G
  <2> QED BY <1>10, <1>11, NatSetInduction
<1> QED BY <1>1, <1>4, <1>8, <1>12

\* What an agent may have put together: entries of the factories, with few enough
\* options for their counts.
GoodEntries(entries) ==
    /\ entries \in Seq(EntryRecords) /\ Len(entries) <= 4095
    /\ Len(MessageOptions(entries)) <= 15
    /\ \A k \in 1 .. Len(entries) : MadeByFactory(entries[k])

\* The options of an entry are those of the message from the at[k - 1]-th on.
EntryPlaced(entries, at, k) ==
    /\ entries[k] \in EntryRecords /\ MadeByFactory(entries[k])
    /\ at[k - 1] \in Nat /\ at[k] = at[k - 1] + Len(AllOptions(entries[k]))
    /\ at[k] <= Len(MessageOptions(entries)) /\ at[k - 1] <= 15
    /\ Len(AllOptions(entries[k])) <= 15
    /\ Len(entries[k].first) <= 15 /\ Len(entries[k].second) <= 15
    /\ \A j \in 1 .. Len(AllOptions(entries[k])) :
          AllOptions(entries[k])[j] = MessageOptions(entries)[at[k - 1] + j]

\* That is so for each of them.
LEMMA OptionsOfEntry ==
    ASSUME NEW entries, GoodEntries(entries), NEW at,
           Flat(MessageOptions(entries), OptionLists(entries), at, OptionRecords),
           NEW k \in 1 .. Len(entries)
    PROVE  EntryPlaced(entries, at, k)
<1>1. PICK n \in Nat : n = Len(entries) /\ entries \in Seq(EntryRecords) /\ k \in 1 .. n
  BY DEF GoodEntries
<1>2. PICK e \in EntryRecords : e = entries[k] /\ MadeByFactory(e)
  BY <1>1 DEF GoodEntries
<1>3. PICK lists \in Seq(Seq(OptionRecords)) :
          /\ lists = OptionLists(entries) /\ Len(lists) = n /\ lists[k] = AllOptions(e)
  BY <1>1, <1>2, ListsAre
<1>4. Offsets(at, lists) /\ Len(MessageOptions(entries)) = at[n]
  BY <1>3 DEF Flat
<1>5. \A j \in 1 .. n : Len(lists[j]) \in Nat
  BY <1>3
<1>6. PICK a \in Nat, d \in Nat, l \in Nat, z \in Nat :
          /\ a = at[k - 1] /\ d = at[k] /\ l = Len(AllOptions(e)) /\ z = at[n]
          /\ d = a + l /\ d <= z
  <2>1. k - 1 \in 0 .. n /\ k \in 0 .. n /\ n \in 0 .. n /\ k <= n /\ k \in 1 .. n
    BY <1>1
  <2>2. at[k] \in Nat /\ at[n] \in Nat /\ at[k] <= at[n]
    BY <1>3, <1>4, <1>5, <2>1, OffsetsGrow
  <2>3. at[k - 1] \in Nat /\ at[k] = at[k - 1] + Len(lists[k])
    BY <1>3, <1>4, <2>1 DEF Offsets
  <2> QED BY <1>3, <1>5, <1>1, <2>2, <2>3
<1>7. z <= 15
  BY <1>4, <1>6 DEF GoodEntries
<1>8. a <= 15 /\ l <= 15
  <2>1. d = a + l /\ d <= z /\ z <= 15
    BY <1>6, <1>7
  <2> QED BY <2>1
<1>9. Len(e.first) <= 15 /\ Len(e.second) <= 15
  <2>1. PICK m1 \in Nat, m2 \in Nat : m1 = Len(e.first) /\ m2 = Len(e.second) /\ l = m1 + m2
    BY <1>6, AllOptionsIs
  <2>2. m1 <= 15 /\ m2 <= 15
    <3>1. l <= 15 /\ l = m1 + m2
      BY <1>8, <2>1
    <3> QED BY <3>1
  <2> QED BY <2>1, <2>2
<1>10. ASSUME NEW j \in 1 .. l PROVE AllOptions(e)[j] = MessageOptions(entries)[a + j]
  <2>1. k \in 1 .. Len(lists) /\ j \in 1 .. Len(lists[k])
    BY <1>1, <1>3, <1>6
  <2>2. MessageOptions(entries)[at[k - 1] + j] = lists[k][j]
    BY <1>3, <2>1 DEF Flat
  <2> QED BY <1>3, <1>6, <2>2, Zenon
<1>11. entries[k] \in EntryRecords /\ MadeByFactory(entries[k])
  BY <1>2
<1> QED BY <1>2, <1>4, <1>6, <1>8, <1>9, <1>10, <1>11 DEF EntryPlaced

\* What counts as the index of the first option of an entry.
IndexOf(entries, k) == 2 * Len(MessageOptions(SubSeq(entries, 1, k - 1)))

\* The index of the first option of an entry fits into its byte.
LEMMA IndexIs ==
    ASSUME NEW entries, GoodEntries(entries), NEW k \in 1 .. Len(entries)
    PROVE  /\ IndexOf(entries, k) \in Nat
           /\ IndexOf(entries, k) + Len(entries[k].first) <= 255
<1>1. entries \in Seq(EntryRecords)
  BY DEF GoodEntries
<1>2. PICK at : Flat(MessageOptions(entries), OptionLists(entries), at, OptionRecords)
  BY <1>1, OptionsFlat
<1>3. PICK some \in Seq(EntryRecords), m \in Nat :
          /\ some = SubSeq(entries, 1, k - 1) /\ m = k - 1 /\ m = Len(some) /\ m <= Len(entries)
          /\ \A i \in 1 .. m : some[i] = entries[i]
  <2>1. SubSeq(entries, 1, k - 1) \in Seq(EntryRecords)
    BY <1>1
  <2>2. Len(SubSeq(entries, 1, k - 1)) = k - 1 /\ k - 1 \in Nat /\ k - 1 <= Len(entries)
    BY <1>1
  <2>3. \A i \in 1 .. (k - 1) : SubSeq(entries, 1, k - 1)[i] = entries[i]
    BY <1>1
  <2> QED BY <2>1, <2>2, <2>3, Zenon
<1>4. Len(MessageOptions(some)) = at[m]
  <2>1. StartsWith(entries, some, m)
    BY <1>3, Zenon DEF StartsWith
  <2> QED BY <1>1, <1>2, <2>1, OptionsOfSome
<1>5. PICK a \in Nat, f \in Nat : a = at[m] /\ f = Len(entries[k].first) /\ a <= 15 /\ f <= 15
  <2>1. entries[k] \in EntryRecords /\ at[k - 1] \in Nat /\ at[k - 1] <= 15 /\ Len(entries[k].first) <= 15
    <3>1. EntryPlaced(entries, at, k)
      BY <1>2, OptionsOfEntry, Zenon
    <3> QED BY <3>1, Zenon DEF EntryPlaced
  <2>2. Len(entries[k].first) \in Nat
    BY <2>1, AllOptionsIs
  <2> QED BY <1>3, <2>1, <2>2
<1>6. 2 * a \in Nat /\ 2 * a + f <= 255
  <2>1. a <= 15 /\ f <= 15
    BY <1>5
  <2> QED BY <2>1
<1> QED BY <1>3, <1>4, <1>5, <1>6 DEF IndexOf

\* The bytes of each entry, for all of them.
LEMMA EntryBytesAre ==
    ASSUME NEW entries, GoodEntries(entries)
    PROVE  /\ EntryBytes(entries) \in Seq(Seq(Byte)) /\ Len(EntryBytes(entries)) = Len(entries)
           /\ \A k \in 1 .. Len(entries) :
                 /\ EntryBytes(entries)[k] = EntryPayload(entries[k], IndexOf(entries, k))
                 /\ Len(EntryBytes(entries)[k]) = 16
<1>1. PICK n \in Nat : n = Len(entries) /\ DOMAIN entries = 1 .. n /\ entries \in Seq(EntryRecords)
  BY DEF GoodEntries
<1>2. ASSUME NEW k \in 1 .. n
      PROVE  /\ EntryPayload(entries[k], IndexOf(entries, k)) \in Seq(Byte)
             /\ Len(EntryPayload(entries[k], IndexOf(entries, k))) = 16
  <2>1. PICK at : Flat(MessageOptions(entries), OptionLists(entries), at, OptionRecords)
    BY <1>1, OptionsFlat
  <2>2. k \in 1 .. Len(entries)
    BY <1>1
  <2>3. entries[k] \in EntryRecords /\ Len(entries[k].first) <= 15 /\ Len(entries[k].second) <= 15
    <3>1. EntryPlaced(entries, at, k)
      BY <2>1, <2>2, OptionsOfEntry, Zenon
    <3> QED BY <3>1, Zenon DEF EntryPlaced
  <2>4. IndexOf(entries, k) \in Nat /\ IndexOf(entries, k) + Len(entries[k].first) <= 255
    BY <2>2, IndexIs
  <2> QED BY <2>3, <2>4, EntryWritten
<1>3. EntryBytes(entries) = [k \in 1 .. n |-> EntryPayload(entries[k], IndexOf(entries, k))]
  BY <1>1, Zenon DEF EntryBytes, IndexOf
<1>4. [k \in 1 .. n |-> EntryPayload(entries[k], IndexOf(entries, k))] \in Seq(Seq(Byte))
  BY <1>2
<1>5. Len([k \in 1 .. n |-> EntryPayload(entries[k], IndexOf(entries, k))]) = n
  OBVIOUS
<1> QED BY <1>1, <1>2, <1>3, <1>4, <1>5

\* The bytes of the entries stand one behind the other, 16 for each.
LEMMA EntriesPayloadFlat ==
    ASSUME NEW entries, GoodEntries(entries)
    PROVE  \E at : /\ Flat(EntriesPayload(entries), EntryBytes(entries), at, Byte)
                   /\ \A k \in 0 .. Len(entries) : at[k] = 16 * k
<1>1. EntryBytes(entries) \in Seq(Seq(Byte))
  BY EntryBytesAre
<1>2. EntriesPayload(entries) = FlattenSeq(EntryBytes(entries))
  BY Zenon DEF EntriesPayload, EntryBytes
<1>3. PICK at : Flat(EntriesPayload(entries), EntryBytes(entries), at, Byte)
  BY <1>1, <1>2, FlattenIs
<1>4. PICK n \in Nat, bytes \in Seq(Seq(Byte)) : n = Len(entries) /\ bytes = EntryBytes(entries)
  <2>1. entries \in Seq(EntryRecords)
    BY DEF GoodEntries
  <2>2. Len(entries) \in Nat
    BY <2>1
  <2> QED BY <1>1, <2>2
<1>5. Offsets(at, bytes) /\ n = Len(bytes) /\ \A k \in 1 .. n : Len(bytes[k]) = 16
  BY <1>3, <1>4, EntryBytesAre DEF Flat
<1>6. \A k \in 0 .. n : at[k] = 16 * k
  BY <1>5, OffsetsOfSixteen
<1> QED BY <1>3, <1>4, <1>6

\* Options take at most 12 bytes each.
LEMMA OffsetsAtMost ==
    ASSUME NEW parts, NEW at, Offsets(at, parts), NEW n \in Nat, n = Len(parts),
           \A k \in 1 .. n : Len(parts[k]) \in 8 .. 12
    PROVE  at[n] \in Nat /\ at[n] <= 12 * n
<1> DEFINE G == {k \in Nat : k \in 0 .. n => at[k] \in Nat /\ at[k] <= 12 * k}
<1>1. 0 \in G
  BY DEF Offsets
<1>2. ASSUME NEW k \in Nat, k \in G PROVE k + 1 \in G
  <2> SUFFICES ASSUME k + 1 \in 0 .. n PROVE at[k + 1] \in Nat /\ at[k + 1] <= 12 * (k + 1)
    OBVIOUS
  <2>1. k \in 0 .. n /\ k + 1 \in 1 .. n /\ (k + 1) - 1 = k
    OBVIOUS
  <2>2. PICK a \in Nat, l \in Nat : a = at[k] /\ a <= 12 * k /\ l = Len(parts[k + 1]) /\ l <= 12
    <3>1. at[k] \in Nat /\ at[k] <= 12 * k
      BY <1>2, <2>1
    <3>2. Len(parts[k + 1]) \in 8 .. 12
      BY <2>1
    <3>3. Len(parts[k + 1]) \in Nat /\ Len(parts[k + 1]) <= 12
      <4>1. \A x \in 8 .. 12 : x \in Nat /\ x <= 12
        OBVIOUS
      <4> QED BY <3>2, <4>1
    <3> QED BY <3>1, <3>3
  <2>3. at[k + 1] = a + l
    BY <2>1, <2>2 DEF Offsets
  <2>4. a <= 12 * k /\ l <= 12
    BY <2>2
  <2> QED BY <2>3, <2>4
<1>3. n \in G
  <2> HIDE DEF G
  <2> QED BY <1>1, <1>2, NatSetInduction
<1> QED BY <1>3

\* The header of a service-discovery message is one.
LEMMA SdHeaderIn ==
    ASSUME NEW n \in Short
    PROVE  SdHeader(n) \in Headers /\ SdHeader(n).sessionId = n
<1>1. 65535 \in Short /\ 33024 \in Short /\ 0 \in Short /\ 1 \in Byte /\ 2 \in Byte /\ 0 \in Byte
  BY DEF Short, Byte
<1> QED BY <1>1 DEF SdHeader, Headers

\* The number of a word is read as it was written.
LEMMA WideWord ==
    ASSUME NEW n \in Wide, NEW c, NEW i \in Nat, At(c, i, InjectInteger(Word(n)))
    PROVE  Number(ExtractInteger(c, i)) = n
<1>1. PICK p \in Short, q \in Short : p = n \div 65536 /\ q = n % 65536 /\ 65536 * p + q = n
  BY WordParts
<1>2. Word(n) = <<p, q>>
  BY <1>1 DEF Word
<1>3. ExtractInteger(c, i) = <<p, q>>
  BY <1>2, IntegerAt
<1> QED BY <1>1, <1>3 DEF Number

\* A number is written in four bytes.
LEMMA WordWritten ==
    ASSUME NEW n \in Wide
    PROVE  InjectInteger(Word(n)) \in Seq(Byte) /\ Len(InjectInteger(Word(n))) = 4
<1>1. PICK p \in Short, q \in Short : p = n \div 65536 /\ q = n % 65536
  BY WordParts
<1>2. Word(n) = <<p, q>>
  BY <1>1 DEF Word
<1> QED BY <1>2, InjectIntegerIs

\* The lengths of the parts of a message.
LEMMA LengthsAre ==
    ASSUME NEW entries, GoodEntries(entries)
    PROVE  \E k \in Nat, l \in Nat :
              /\ k = Len(entries) /\ k <= 4095 /\ l = getOptionsLength(entries)
              /\ l = Len(OptionsPayload(MessageOptions(entries)))
              /\ OptionsPayload(MessageOptions(entries)) \in Seq(Byte)
              /\ EntriesPayload(entries) \in Seq(Byte) /\ Len(EntriesPayload(entries)) = 16 * k
              /\ getEntriesLength(entries) = 16 * k /\ 16 * k \in Wide /\ l \in Wide
              /\ SdLength(entries) = 20 + 16 * k + l /\ SdLength(entries) \in Wide
<1>1. PICK k \in Nat : k = Len(entries) /\ k <= 4095 /\ entries \in Seq(EntryRecords)
  BY DEF GoodEntries
<1>2. PICK options \in Seq(OptionRecords), n \in Nat : options = MessageOptions(entries) /\ n = Len(options) /\ n <= 15
  <2>1. MessageOptions(entries) \in Seq(OptionRecords) /\ Len(MessageOptions(entries)) \in Nat
    BY <1>1, MessageOptionsIn
  <2> QED BY <2>1 DEF GoodEntries
<1>3. PICK at : Flat(OptionsPayload(options), OptionParts(options), at, Byte)
  BY OptionsPayloadFlat
<1>4. PICK l \in Nat : l = Len(OptionsPayload(options)) /\ l <= 12 * n
  <2>1. PICK parts : parts = OptionParts(options)
    OBVIOUS
  <2>2. Offsets(at, parts) /\ n = Len(parts) /\ Len(OptionsPayload(options)) = at[n]
        /\ \A j \in 1 .. n : Len(parts[j]) \in 8 .. 12
    BY <1>2, <1>3, <2>1, OptionPartsAre DEF Flat
  <2>3. at[n] \in Nat /\ at[n] <= 12 * n
    BY <2>2, OffsetsAtMost
  <2> QED BY <2>2, <2>3
<1>5. OptionsPayload(options) \in Seq(Byte)
  BY <1>3 DEF Flat
<1>6. l = getOptionsLength(entries)
  BY <1>1, <1>2, <1>4, OptionsLengthIs
<1>7. EntriesPayload(entries) \in Seq(Byte) /\ Len(EntriesPayload(entries)) = 16 * k
  <2>1. PICK bt : /\ Flat(EntriesPayload(entries), EntryBytes(entries), bt, Byte)
                  /\ \A j \in 0 .. Len(entries) : bt[j] = 16 * j
    BY EntriesPayloadFlat
  <2>2. Len(EntryBytes(entries)) = k /\ k \in 0 .. Len(entries)
    BY <1>1, EntryBytesAre
  <2> QED BY <2>1, <2>2 DEF Flat
<1>8. getEntriesLength(entries) = 16 * k
  BY <1>1 DEF getEntriesLength, cEntrySize
<1>9. l <= 180
  <2>1. l <= 12 * n /\ n <= 15
    BY <1>2, <1>4
  <2> QED BY <2>1
<1>10. k <= 4095
  BY <1>1
<1>11. 16 * k \in Wide /\ l \in Wide /\ 20 + 16 * k + l \in Wide
  <2>1. \A x \in Nat : x < 65536 + 65536 => x \div 65536 < 65536
    OBVIOUS
  <2>2. 16 * k \in Nat /\ 20 + 16 * k + l \in Nat /\ 16 * k < 65536 + 65536 /\ l < 65536 + 65536
        /\ 20 + 16 * k + l < 65536 + 65536
    BY <1>9, <1>10
  <2> QED BY <2>1, <2>2 DEF Wide
<1>12. SdLength(entries) = 20 + 16 * k + l
  <2>1. SdLength(entries) = 8 + 4 + 4 + 16 * k + 4 + l
    BY <1>6, <1>8, Zenon DEF SdLength
  <2> QED BY <2>1
<1> QED BY <1>1, <1>2, <1>4, <1>5, <1>6, <1>7, <1>8, <1>11, <1>12

\* A message, as SdSend makes it.
GoodMessage(m) ==
    /\ GoodEntries(m.entries) /\ m.sessionId \in Short /\ m.rebooted \in BOOLEAN
    /\ m = [is |-> "message", sessionId |-> m.sessionId, rebooted |-> m.rebooted, entries |-> m.entries]

FlagWord(m) == IF m.rebooted THEN cRebootedFlag ELSE cNotRebootedFlag

\* The bytes of a message, part by part.
SdLaid(b, m, k, l) ==
    /\ b \in Seq(Byte) /\ k \in Nat /\ l \in Nat /\ k = Len(m.entries) /\ k <= 4095
    /\ Len(b) = 28 + 16 * k + l /\ SdLength(m.entries) = 20 + 16 * k + l
    /\ l = Len(OptionsPayload(MessageOptions(m.entries)))
    /\ At(b, 0, SomeIpPayload(SdHeader(m.sessionId), SdLength(m.entries)))
    /\ At(b, 16, InjectInteger(FlagWord(m)))
    /\ At(b, 20, InjectInteger(Word(getEntriesLength(m.entries))))
    /\ At(b, 24, EntriesPayload(m.entries))
    /\ At(b, 28 + 16 * k, OptionsPayload(MessageOptions(m.entries)))

\* The flags are written in four bytes.
LEMMA FlagWritten ==
    ASSUME NEW m
    PROVE  InjectInteger(FlagWord(m)) \in Seq(Byte) /\ Len(InjectInteger(FlagWord(m))) = 4
<1>1. 49152 \in Short /\ 16384 \in Short /\ 0 \in Short
  BY DEF Short
<1>2. PICK p \in Short : FlagWord(m) = <<p, 0>>
  BY <1>1 DEF FlagWord, cRebootedFlag, cNotRebootedFlag
<1> QED BY <1>1, <1>2, InjectIntegerIs

\* Six parts, of which the fourth and the last are as long as they happen to be.
PartsIn(w, s, f, n, e, o, k, l) ==
    /\ Len(w) = 28 + k + l
    /\ At(w, 0, s) /\ At(w, 16, f) /\ At(w, 20, n) /\ At(w, 24, e) /\ At(w, 28 + k, o)

\* Where six parts stand.
LEMMA MessageParts ==
    ASSUME NEW s \in Seq(Byte), NEW f \in Seq(Byte), NEW n \in Seq(Byte), NEW e \in Seq(Byte),
           NEW q \in Seq(Byte), NEW o \in Seq(Byte), NEW k \in Nat, NEW l \in Nat,
           Len(s) = 16, Len(f) = 4, Len(n) = 4, Len(e) = k, Len(q) = 4, Len(o) = l
    PROVE  \E w \in Seq(Byte) :
              w = ((((s \o f) \o n) \o e) \o q) \o o /\ PartsIn(w, s, f, n, e, o, k, l)
<1>1. PICK a \in Seq(Byte) : a = s \o f /\ Len(a) = 20
  <2>1. PICK a \in Seq(Byte) : a = s \o f /\ Len(a) = Len(s) + Len(f)
    BY Longer, Zenon
  <2>2. Len(a) = 20
    BY <2>1
  <2> QED BY <2>1, <2>2, Zenon
<1>2. PICK b \in Seq(Byte) : b = a \o n /\ Len(b) = 24
  <2>1. PICK b \in Seq(Byte) : b = a \o n /\ Len(b) = Len(a) + Len(n)
    BY Longer, Zenon
  <2>2. Len(b) = 24
    BY <1>1, <2>1
  <2> QED BY <2>1, <2>2, Zenon
<1>3. PICK c \in Seq(Byte) : c = b \o e /\ Len(c) = 24 + k
  <2>1. PICK c \in Seq(Byte) : c = b \o e /\ Len(c) = Len(b) + Len(e)
    BY Longer, Zenon
  <2>2. Len(c) = 24 + k
    BY <1>2, <2>1
  <2> QED BY <2>1, <2>2, Zenon
<1>4. PICK d \in Seq(Byte) : d = c \o q /\ Len(d) = 28 + k
  <2>1. PICK d \in Seq(Byte) : d = c \o q /\ Len(d) = Len(c) + Len(q)
    BY Longer, Zenon
  <2>2. Len(d) = 28 + k
    BY <1>3, <2>1
  <2> QED BY <2>1, <2>2, Zenon
<1>5. PICK w \in Seq(Byte) : w = d \o o /\ Len(w) = 28 + k + l
  <2>1. PICK w \in Seq(Byte) : w = d \o o /\ Len(w) = Len(d) + Len(o)
    BY Longer, Zenon
  <2>2. Len(w) = 28 + k + l
    BY <1>4, <2>1
  <2> QED BY <2>1, <2>2, Zenon
<1>6. At(w, 0, d) /\ At(w, 28 + k, o)
  <2>1. At(w, 0, w)
    BY DEF At
  <2>2. At(w, 0, d \o o) /\ 28 + k \in Nat /\ 0 \in Nat
    BY <1>5, <2>1
  <2>3. At(w, 0, d) /\ At(w, 0 + (28 + k), o)
    <3>1. d \in Seq(Byte) /\ o \in Seq(Byte) /\ Len(d) = 28 + k
      BY <1>4
    <3> QED BY <2>2, <3>1, Split
  <2>4. 0 + (28 + k) = 28 + k
    OBVIOUS
  <2> QED BY <2>3, <2>4
<1>7. At(w, 0, c)
  <2>1. At(w, 0, c \o q) /\ 24 + k \in Nat /\ 0 \in Nat
    BY <1>4, <1>6
  <2>2. PICK y \in Nat : c \in Seq(Byte) /\ q \in Seq(Byte) /\ Len(c) = y
    BY <1>3
  <2> QED BY <2>1, <2>2, Split
<1>8. At(w, 0, b) /\ At(w, 24, e)
  <2>1. At(w, 0, b \o e) /\ 24 \in Nat /\ 0 \in Nat
    BY <1>3, <1>7
  <2>2. At(w, 0, b) /\ At(w, 0 + 24, e)
    <3>1. b \in Seq(Byte) /\ e \in Seq(Byte) /\ Len(b) = 24
      BY <1>2
    <3> QED BY <2>1, <3>1, Split
  <2> QED BY <2>2
<1>9. At(w, 0, a) /\ At(w, 20, n)
  <2>1. At(w, 0, a \o n) /\ 20 \in Nat /\ 0 \in Nat
    BY <1>2, <1>8
  <2>2. At(w, 0, a) /\ At(w, 0 + 20, n)
    <3>1. a \in Seq(Byte) /\ n \in Seq(Byte) /\ Len(a) = 20
      BY <1>1
    <3> QED BY <2>1, <3>1, Split
  <2> QED BY <2>2
<1>10. At(w, 0, s) /\ At(w, 16, f)
  <2>1. At(w, 0, s \o f) /\ 16 \in Nat /\ 0 \in Nat
    BY <1>1, <1>9
  <2>2. At(w, 0, s) /\ At(w, 0 + 16, f)
    BY <2>1, Split
  <2> QED BY <2>2
<1>11. w = ((((s \o f) \o n) \o e) \o q) \o o
  BY <1>1, <1>2, <1>3, <1>4, <1>5, Zenon
<1>12. PartsIn(w, s, f, n, e, o, k, l)
  BY <1>5, <1>6, <1>8, <1>9, <1>10 DEF PartsIn
<1> QED BY <1>11, <1>12, Zenon

\* SdPayload puts header, flags, entries and options where SdLaid says.
LEMMA SdWritten ==
    ASSUME NEW m, GoodMessage(m)
    PROVE  \E k, l \in Nat : SdLaid(SdPayload(m), m, k, l)
<1>1. GoodEntries(m.entries) /\ m.sessionId \in Short
  BY DEF GoodMessage
<1>2. PICK k \in Nat, l \in Nat :
              /\ k = Len(m.entries) /\ k <= 4095 /\ l = getOptionsLength(m.entries)
              /\ l = Len(OptionsPayload(MessageOptions(m.entries)))
              /\ OptionsPayload(MessageOptions(m.entries)) \in Seq(Byte)
              /\ EntriesPayload(m.entries) \in Seq(Byte) /\ Len(EntriesPayload(m.entries)) = 16 * k
              /\ getEntriesLength(m.entries) = 16 * k /\ 16 * k \in Wide /\ l \in Wide
              /\ SdLength(m.entries) = 20 + 16 * k + l /\ SdLength(m.entries) \in Wide
  BY <1>1, LengthsAre
<1>3. PICK s \in Seq(Byte) : s = SomeIpPayload(SdHeader(m.sessionId), SdLength(m.entries)) /\ Len(s) = 16
  <2>1. PICK h \in Headers, n \in Wide : h = SdHeader(m.sessionId) /\ n = SdLength(m.entries)
    <3>1. SdHeader(m.sessionId) \in Headers
      BY <1>1, SdHeaderIn
    <3>2. SdLength(m.entries) \in Wide
      BY <1>2
    <3> QED BY <3>1, <3>2, Zenon
  <2>2. SomeIpPayload(h, n) \in Seq(Byte) /\ Len(SomeIpPayload(h, n)) = 16
    BY HeaderWritten
  <2> QED BY <2>1, <2>2
<1>4. PICK f \in Seq(Byte) : f = InjectInteger(FlagWord(m)) /\ Len(f) = 4
  BY FlagWritten
<1>5. PICK n \in Seq(Byte) : n = InjectInteger(Word(getEntriesLength(m.entries))) /\ Len(n) = 4
  BY <1>2, WordWritten
<1>6. PICK q \in Seq(Byte) : q = InjectInteger(Word(getOptionsLength(m.entries))) /\ Len(q) = 4
  BY <1>2, WordWritten
<1>7. PICK e \in Seq(Byte), o \in Seq(Byte), x \in Nat :
          /\ e = EntriesPayload(m.entries) /\ o = OptionsPayload(MessageOptions(m.entries))
          /\ x = 16 * k /\ Len(e) = x /\ Len(o) = l
  BY <1>2
<1>8. PICK w \in Seq(Byte) :
              w = ((((s \o f) \o n) \o e) \o q) \o o /\ PartsIn(w, s, f, n, e, o, x, l)
  BY <1>3, <1>4, <1>5, <1>6, <1>7, MessageParts, Zenon
<1>9. SdPayload(m) = w
  BY <1>3, <1>4, <1>5, <1>6, <1>7, <1>8, Zenon DEF SdPayload, FlagWord
<1>10. /\ Len(w) = 28 + 16 * k + l /\ At(w, 28 + 16 * k, o)
       /\ At(w, 0, s) /\ At(w, 16, f) /\ At(w, 20, n) /\ At(w, 24, e)
  BY <1>7, <1>8 DEF PartsIn
<1>11. SdLaid(w, m, k, l)
  <2>1. /\ At(w, 0, SomeIpPayload(SdHeader(m.sessionId), SdLength(m.entries)))
        /\ At(w, 16, InjectInteger(FlagWord(m)))
        /\ At(w, 20, InjectInteger(Word(getEntriesLength(m.entries))))
        /\ At(w, 24, EntriesPayload(m.entries))
        /\ At(w, 28 + 16 * k, OptionsPayload(MessageOptions(m.entries)))
    BY <1>3, <1>4, <1>5, <1>7, <1>10
  <2> QED BY <1>2, <1>10, <2>1 DEF SdLaid
<1> QED BY <1>9, <1>11

-----------------------------------------------------------------------------
(* The reader of service-discovery messages *)

\* A run h through the states ok, each of which has a next one: it leaves them when
\* the next one is another, and stays there.
RunsAlong(h, n, ok, next) ==
    /\ h = [k \in 0 .. n |-> h[k]] /\ h[0] = ok[0]
    /\ h[n] = ok[n] \/ \E i \in 1 .. n : h[n] = next[i] /\ next[i] # ok[i]
    /\ \A k \in 1 .. n :
          \/ h[k - 1] = ok[k - 1] /\ h[k] = next[k]
          \/ \E i \in 1 .. n : next[i] # ok[i] /\ h[k - 1] = next[i] /\ h[k] = next[i]

\* There is such a run.
LEMMA RunExists ==
    ASSUME NEW n \in Nat, NEW ok, NEW next
    PROVE  \E h : RunsAlong(h, n, ok, next)
<1> DEFINE T == {k \in 0 .. n : k = n \/ next[k + 1] # ok[k + 1]}
<1>1. PICK q \in T : \A y \in T : q <= y
  <2>1. n \in T /\ T \subseteq Nat
    OBVIOUS
  <2> HIDE DEF T
  <2>2. T # {}
    BY <2>1
  <2> QED BY <2>1, <2>2, Least
<1>2. q \in 0 .. n /\ (q = n \/ next[q + 1] # ok[q + 1])
  OBVIOUS
<1>3. \A k \in 1 .. n : k <= q => next[k] = ok[k]
  <2> SUFFICES ASSUME NEW k \in 1 .. n, k <= q, next[k] # ok[k] PROVE FALSE
    OBVIOUS
  <2>1. k - 1 \in 0 .. n /\ (k - 1) + 1 = k
    OBVIOUS
  <2>2. k - 1 \in T
    BY <2>1
  <2>3. q <= k - 1
    BY <1>1, <2>2
  <2> QED BY <1>2, <2>3
<1> DEFINE h == [k \in 0 .. n |-> IF k <= q THEN ok[k] ELSE next[q + 1]]
<1> HIDE DEF T
<1>4. h = [k \in 0 .. n |-> h[k]] /\ h[0] = ok[0]
  <2>1. 0 \in 0 .. n /\ 0 <= q
    BY <1>2
  <2> QED BY <2>1
<1>5. h[n] = ok[n] \/ \E i \in 1 .. n : h[n] = next[i] /\ next[i] # ok[i]
  <2>1. CASE q = n
    <3>1. n \in 0 .. n /\ n <= q
      BY <2>1
    <3> QED BY <3>1
  <2>2. CASE q # n
    <3>1. q + 1 \in 1 .. n /\ n \in 0 .. n /\ ~(n <= q)
      BY <1>2, <2>2
    <3> QED BY <1>2, <2>2, <3>1
  <2> QED BY <2>1, <2>2
<1>6. ASSUME NEW k \in 1 .. n
      PROVE  \/ h[k - 1] = ok[k - 1] /\ h[k] = next[k]
             \/ \E i \in 1 .. n : next[i] # ok[i] /\ h[k - 1] = next[i] /\ h[k] = next[i]
  <2>0. k \in 0 .. n /\ k - 1 \in 0 .. n
    OBVIOUS
  <2>1. CASE k <= q
    <3>1. k - 1 <= q
      BY <1>2, <2>1
    <3> QED BY <1>3, <2>0, <2>1, <3>1
  <2>2. CASE k = q + 1
    <3>1. k - 1 <= q /\ ~(k <= q)
      BY <1>2, <2>2
    <3> QED BY <2>0, <2>2, <3>1
  <2>3. CASE ~(k <= q) /\ k # q + 1
    <3>1. ~(k - 1 <= q) /\ ~(k <= q) /\ q # n /\ q + 1 \in 1 .. n
      BY <1>2, <2>3
    <3> QED BY <1>2, <2>0, <3>1
  <2> QED BY <2>1, <2>2, <2>3
<1> HIDE DEF h
<1>7. RunsAlong(h, n, ok, next)
  BY <1>4, <1>5, <1>6 DEF RunsAlong
<1> QED BY <1>7

\* The fields of a reader.
LEMMA ReadingIs ==
    ASSUME NEW a, NEW i, NEW e, NEW es
    PROVE  LET s == Reading(a, i, e, es)
           IN  s.ok /\ s.at = a /\ s.option = i /\ s.entry = e /\ s.entries = es
BY Zenon DEF Reading

\* A reader that threw reads nothing any more.
LEMMA ThrownStays ==
    ASSUME NEW c, NEW field, NEW o
    PROVE  ~Thrown.ok /\ ReadOption(c, Thrown, field) = Thrown /\ ReadEntry(c, Thrown, o) = Thrown
<1>1. ~Thrown.ok
  BY Zenon DEF Thrown
<1> QED BY <1>1, Zenon DEF ReadOption, ReadEntry

\* What becomes of the reader by an option of n bytes.
AfterOption(r, c, o, n, a, i, e, es, field) ==
    IF i + n <= Len(c) THEN r = Reading(a, i + n, [e EXCEPT ![field] = Append(@, o)], es)
    ELSE r = Thrown

\* ReadOption reads the option that stands there when all of it is there, and
\* throws when it is cut.
LEMMA ReadOptionIs ==
    ASSUME NEW o \in OptionRecords, NEW c \in Seq(Byte), NEW i \in Nat, Cut(c, i, OptionPayload(o)),
           NEW n \in Nat, n = Len(OptionPayload(o)),
           NEW a, NEW e, NEW es, NEW field, ValidateOption(e, o)
    PROVE  AfterOption(ReadOption(c, Reading(a, i, e, es), field), c, o, n, a, i, e, es, field)
<1>1. /\ OptionReadable(c, i) => i + n <= Len(c)
      /\ i + n <= Len(c) => OptionReadable(c, i) /\ DeserializeOption(c, i) = o
  BY OptionRead
<1>2. OptionSize(OptionType[o.type]) = n
  BY OptionSizes
<1>3. PICK s : s = Reading(a, i, e, es)
  OBVIOUS
<1>4. s.ok /\ s.at = a /\ s.option = i /\ s.entry = e /\ s.entries = es
  BY <1>3, ReadingIs
<1>5. CASE i + n <= Len(c)
  <2>1. ReadOption(c, s, field) = Reading(a, i + OptionSize(OptionType[o.type]), [e EXCEPT ![field] = Append(@, o)], es)
    BY <1>1, <1>4, <1>5, Zenon DEF ReadOption
  <2> QED BY <1>2, <1>3, <1>5, <2>1, Zenon DEF AfterOption
<1>6. CASE ~(i + n <= Len(c))
  <2>1. ReadOption(c, s, field) = Thrown
    BY <1>1, <1>4, <1>6, Zenon DEF ReadOption
  <2> QED BY <1>3, <1>6, <2>1, Zenon DEF AfterOption
<1> QED BY <1>5, <1>6

\* Options that follow each other in c, and the entries they make.
OptionsFollow(c, field, n, options, off, part) ==
    /\ off \in [0 .. n -> Nat]
    /\ \A k \in 1 .. n :
          /\ options[k] \in OptionRecords /\ off[k] = off[k - 1] + Len(OptionPayload(options[k]))
          /\ Cut(c, off[k - 1], OptionPayload(options[k]))
          /\ ValidateOption(part[k - 1], options[k])
          /\ part[k] = [part[k - 1] EXCEPT ![field] = Append(@, options[k])]

\* What becomes of the reader by them.
AfterOptions(r, c, n, off, part, a, es) ==
    \/ r = Reading(a, off[n], part[n], es)
    \/ r = Thrown /\ \E k \in 1 .. n : ~(off[k] <= Len(c))

\* ReadOptions reads the options one after the other, until one is cut.
LEMMA ReadOptionsIs ==
    ASSUME NEW c \in Seq(Byte), NEW field, NEW n \in Nat, NEW options, NEW off, NEW part,
           OptionsFollow(c, field, n, options, off, part), NEW a, NEW es
    PROVE  AfterOptions(ReadOptions(c, Reading(a, off[0], part[0], es), field, n), c, n, off, part, a, es)
<1>1. PICK ok : ok = [k \in 0 .. n |-> Reading(a, off[k], part[k], es)]
  OBVIOUS
<1>2. PICK next : next = [k \in 1 .. n |-> ReadOption(c, ok[k - 1], field)]
  OBVIOUS
<1>3. \A k \in 0 .. n : ok[k] = Reading(a, off[k], part[k], es)
  BY <1>1
<1>4. ASSUME NEW k \in 1 .. n
      PROVE  /\ next[k] = ReadOption(c, ok[k - 1], field)
             /\ next[k] # ok[k] => next[k] = Thrown /\ ~(off[k] <= Len(c))
  <2>1. k - 1 \in 0 .. n /\ k \in 0 .. n
    OBVIOUS
  <2>2. PICK o \in OptionRecords, i \in Nat, m \in Nat :
            /\ o = options[k] /\ i = off[k - 1] /\ m = Len(OptionPayload(o)) /\ off[k] = i + m
            /\ Cut(c, i, OptionPayload(o)) /\ ValidateOption(part[k - 1], o)
            /\ part[k] = [part[k - 1] EXCEPT ![field] = Append(@, o)]
    <3>1. /\ options[k] \in OptionRecords /\ off[k] = off[k - 1] + Len(OptionPayload(options[k]))
          /\ Cut(c, off[k - 1], OptionPayload(options[k]))
          /\ ValidateOption(part[k - 1], options[k])
          /\ part[k] = [part[k - 1] EXCEPT ![field] = Append(@, options[k])]
      BY Zenon DEF OptionsFollow
    <3>2. off[k - 1] \in Nat
      BY <2>1 DEF OptionsFollow
    <3>3. Len(OptionPayload(options[k])) \in Nat
      BY <3>1, OptionSizes
    <3> QED BY <3>1, <3>2, <3>3, Zenon
  <2>3. PICK r : r = ReadOption(c, Reading(a, i, part[k - 1], es), field)
    OBVIOUS
  <2>4. IF i + m <= Len(c) THEN r = Reading(a, i + m, [part[k - 1] EXCEPT ![field] = Append(@, o)], es)
        ELSE r = Thrown
    <3>1. Cut(c, i, OptionPayload(o)) /\ m = Len(OptionPayload(o)) /\ ValidateOption(part[k - 1], o)
      BY <2>2
    <3>2. AfterOption(r, c, o, m, a, i, part[k - 1], es, field)
      BY <2>3, <3>1, ReadOptionIs, Zenon
    <3> QED BY <3>2, Zenon DEF AfterOption
  <2>5. next[k] = r
    BY <1>2, <1>3, <2>1, <2>2, <2>3
  <2>6. ok[k] = Reading(a, i + m, [part[k - 1] EXCEPT ![field] = Append(@, o)], es)
    BY <1>3, <2>1, <2>2, Zenon
  <2>7. next[k] = ReadOption(c, ok[k - 1], field)
    BY <1>2
  <2> QED BY <2>2, <2>4, <2>5, <2>6, <2>7, Zenon
<1>5. PICK h : RunsAlong(h, n, ok, next)
  BY RunExists
<1> DEFINE Def(f) == [k \in 0 .. n |-> IF k = 0 THEN ok[0] ELSE ReadOption(c, f[k - 1], field)]
<1>6. h = Def(h)
  <2>1. ASSUME NEW k \in 0 .. n PROVE h[k] = Def(h)[k]
    <3>1. CASE k = 0
      BY <1>5, <3>1 DEF RunsAlong
    <3>2. CASE k # 0
      <4>1. k \in 1 .. n
        BY <3>2
      <4>2. \/ h[k - 1] = ok[k - 1] /\ h[k] = next[k]
            \/ \E i \in 1 .. n : next[i] # ok[i] /\ h[k - 1] = next[i] /\ h[k] = next[i]
        BY <1>5, <4>1, Zenon DEF RunsAlong
      <4>3. h[k] = ReadOption(c, h[k - 1], field)
        BY <1>4, <4>1, <4>2, ThrownStays, Zenon
      <4> QED BY <3>2, <4>3
    <3> QED BY <3>1, <3>2
  <2>2. Def(h) = [k \in 0 .. n |-> Def(h)[k]]
    OBVIOUS
  <2>3. h = [k \in 0 .. n |-> h[k]]
    BY <1>5 DEF RunsAlong
  <2> HIDE DEF Def
  <2>4. [k \in 0 .. n |-> h[k]] = [k \in 0 .. n |-> Def(h)[k]]
    BY <2>1
  <2> QED BY <2>2, <2>3, <2>4, Zenon
<1>7. PICK g : g = (CHOOSE f : f = Def(f)) /\ g = Def(g)
  <2> HIDE DEF Def
  <2> QED BY <1>6, Zenon
<1>8. g[n] = h[n]
  <2>1. SameSteps(n, h, g)
    <3>1. \A k \in 0 .. n : g[k] = IF k = 0 THEN ok[0] ELSE ReadOption(c, g[k - 1], field)
      BY <1>7
    <3>2. \A k \in 0 .. n : h[k] = IF k = 0 THEN ok[0] ELSE ReadOption(c, h[k - 1], field)
      BY <1>6
    <3>3. \A k \in 1 .. n : k # 0 /\ k \in 0 .. n
      OBVIOUS
    <3> HIDE DEF Def
    <3> QED BY <3>1, <3>2, <3>3 DEF SameSteps
  <2>2. SameValues(n, h, g) /\ n \in 0 .. n
    BY <2>1, RecursiveSame
  <2> QED BY <2>2 DEF SameValues
<1>9. ReadOptions(c, Reading(a, off[0], part[0], es), field, n) = g[n]
  <2>1. ok[0] = Reading(a, off[0], part[0], es)
    BY <1>3
  <2>2. ReadOptions(c, ok[0], field, n) = (CHOOSE f : f = Def(f))[n]
    BY Zenon DEF ReadOptions
  <2> HIDE DEF Def
  <2>3. (CHOOSE f : f = Def(f))[n] = g[n]
    BY <1>7, Zenon
  <2> QED BY <2>1, <2>2, <2>3, Zenon
<1> HIDE DEF Def
<1>10. h[n] = ok[n] \/ \E i \in 1 .. n : h[n] = next[i] /\ next[i] # ok[i]
  BY <1>5 DEF RunsAlong
<1>11. ok[n] = Reading(a, off[n], part[n], es)
  BY <1>3
<1> QED BY <1>4, <1>8, <1>9, <1>10, <1>11, Zenon DEF AfterOptions

\* Nothing is read after that.
LEMMA ReadNoOptions ==
    ASSUME NEW c, NEW field, NEW n \in Nat
    PROVE  ReadOptions(c, Thrown, field, n) = Thrown
<1> DEFINE Def(f) == [k \in 0 .. n |-> IF k = 0 THEN Thrown ELSE ReadOption(c, f[k - 1], field)]
           h == [k \in 0 .. n |-> Thrown]
<1>1. h = Def(h)
  <2>1. ASSUME NEW k \in 0 .. n PROVE h[k] = Def(h)[k]
    <3>1. CASE k = 0
      BY <3>1
    <3>2. CASE k # 0
      <4>1. k - 1 \in 0 .. n
        BY <3>2
      <4>2. h[k - 1] = Thrown
        BY <4>1
      <4> QED BY <3>2, <4>2, ThrownStays
    <3> QED BY <3>1, <3>2
  <2> QED BY <2>1
<1>2. PICK g : g = (CHOOSE f : f = Def(f)) /\ g = Def(g)
  <2> HIDE DEF Def, h
  <2> QED BY <1>1, Zenon
<1>3. ReadOptions(c, Thrown, field, n) = g[n]
  BY <1>2, Zenon DEF ReadOptions
<1>4. SameSteps(n, h, g)
  <2>1. \A k \in 0 .. n : g[k] = IF k = 0 THEN Thrown ELSE ReadOption(c, g[k - 1], field)
    BY <1>2
  <2>2. \A k \in 0 .. n : h[k] = Thrown
    OBVIOUS
  <2>3. \A k \in 1 .. n : k # 0 /\ k \in 0 .. n /\ k - 1 \in 0 .. n
    OBVIOUS
  <2> HIDE DEF Def, h
  <2> QED BY <2>1, <2>2, <2>3, ThrownStays DEF SameSteps
<1>5. SameValues(n, h, g) /\ n \in 0 .. n /\ h[n] = Thrown
  <2>1. n \in 0 .. n /\ h[n] = Thrown
    OBVIOUS
  <2> HIDE DEF Def, h
  <2> QED BY <1>4, <2>1, RecursiveSame
<1> HIDE DEF h, Def
<1> QED BY <1>3, <1>5 DEF SameValues

\* The options that an entry may have: of some kinds once.
Single == {"LoadBalancing", "IPv4Multicast"}
KindAllowed(e, o) ==
    /\ o.type # "IPv4SdEndpoint"
    /\ IF e.type \in ServiceTypes THEN o.type # "IPv4Multicast"
       ELSE \/ o.type = "IPv4Endpoint" /\ e.type = "Subscribing"
            \/ o.type = "IPv4Multicast" /\ isAcknowledge(e)
OptionsAllowed(e) ==
    /\ \A i \in 1 .. Len(AllOptions(e)) : KindAllowed(e, AllOptions(e)[i])
    /\ \A i, j \in 1 .. Len(AllOptions(e)) :
          i # j /\ AllOptions(e)[i].type = AllOptions(e)[j].type => AllOptions(e)[i].type \notin Single

\* ValidateOption by the kinds.
LEMMA ValidateIs ==
    ASSUME NEW e, NEW o
    PROVE  ValidateOption(e, o) <=>
               KindAllowed(e, o) /\ (o.type \in Single => ~ContainsOption(e, o.type))
<1>1. PICK b, m : b = ContainsOption(e, "LoadBalancing") /\ m = ContainsOption(e, "IPv4Multicast")
  OBVIOUS
<1>2. CASE o.type = "LoadBalancing"
  <2>1. ContainsOption(e, o.type) = ContainsOption(e, "LoadBalancing")
    BY <1>2
  <2> QED BY <1>2, <2>1 DEF ValidateOption, ValidateBaseOption, ValidateServiceOption, ValidateEventgroupOption,
          KindAllowed, Single
<1>3. CASE o.type = "IPv4Multicast"
  <2>1. ContainsOption(e, o.type) = ContainsOption(e, "IPv4Multicast")
    BY <1>3
  <2> QED BY <1>3, <2>1 DEF ValidateOption, ValidateBaseOption, ValidateServiceOption, ValidateEventgroupOption,
          KindAllowed, Single
<1>4. CASE o.type # "LoadBalancing" /\ o.type # "IPv4Multicast"
  BY <1>4 DEF ValidateOption, ValidateBaseOption, ValidateServiceOption, ValidateEventgroupOption,
          KindAllowed, Single
<1> QED BY <1>2, <1>3, <1>4

\* The fields of an entry with some of its options.
LEMMA WithIs ==
    ASSUME NEW e, NEW f, NEW g
    PROVE  /\ With(e, f, g).type = e.type /\ With(e, f, g).ttl = e.ttl
           /\ With(e, f, g).first = f /\ With(e, f, g).second = g
<1>1. /\ With(e, f, g).type = e.type /\ With(e, f, g).ttl = e.ttl
      /\ With(e, f, g).first = f /\ With(e, f, g).second = g
  BY Zenon DEF With
<1> QED BY <1>1

\* Which kinds an entry takes has nothing to do with its options.
LEMMA KindWith ==
    ASSUME NEW e, NEW f, NEW g, NEW o
    PROVE  KindAllowed(With(e, f, g), o) = KindAllowed(e, o)
<1>1. /\ With(e, f, g).type = e.type /\ With(e, f, g).ttl = e.ttl
      /\ With(e, f, g).first = f /\ With(e, f, g).second = g
  BY WithIs
<1> QED BY <1>1, Zenon DEF KindAllowed, isAcknowledge

\* The options of an entry with some of them.
LEMMA OptionsWith ==
    ASSUME NEW e, NEW f, NEW g
    PROVE  AllOptions(With(e, f, g)) = f \o g
<1>1. /\ With(e, f, g).type = e.type /\ With(e, f, g).ttl = e.ttl
      /\ With(e, f, g).first = f /\ With(e, f, g).second = g
  BY WithIs
<1> QED BY <1>1, Zenon DEF AllOptions

\* One more option in the one list or in the other.
LEMMA WithAppended ==
    ASSUME NEW e, NEW f, NEW g, NEW o
    PROVE  /\ [With(e, f, g) EXCEPT !["first"] = Append(@, o)] = With(e, Append(f, o), g)
           /\ [With(e, f, g) EXCEPT !["second"] = Append(@, o)] = With(e, f, Append(g, o))
<1>1. PICK d : d = With(e, f, g)
  OBVIOUS
<1>2. d = [type |-> e.type, serviceId |-> e.serviceId, instanceId |-> e.instanceId,
           majorVersion |-> e.majorVersion, ttl |-> e.ttl, last |-> e.last, first |-> f, second |-> g]
  BY <1>1 DEF With
<1>3. [d EXCEPT !["first"] = Append(@, o)] = With(e, Append(f, o), g)
  <2>1. PICK y : y = Append(f, o)
    OBVIOUS
  <2>2. d["first"] = f
    BY <1>2
  <2>3. [d EXCEPT !["first"] = Append(@, o)] = [d EXCEPT !["first"] = y]
    BY <2>1, <2>2
  <2>4. [d EXCEPT !["first"] = y] = With(e, y, g)
    BY <1>2 DEF With
  <2> QED BY <2>1, <2>3, <2>4
<1>4. [d EXCEPT !["second"] = Append(@, o)] = With(e, f, Append(g, o))
  <2>1. PICK y : y = Append(g, o)
    OBVIOUS
  <2>2. d["second"] = g
    BY <1>2
  <2>3. [d EXCEPT !["second"] = Append(@, o)] = [d EXCEPT !["second"] = y]
    BY <2>1, <2>2
  <2>4. [d EXCEPT !["second"] = y] = With(e, f, y)
    BY <1>2 DEF With
  <2> QED BY <2>1, <2>3, <2>4
<1> QED BY <1>1, <1>3, <1>4

\* An entry with its first options takes the next one.
LEMMA NextAllowed ==
    ASSUME NEW e \in EntryRecords, OptionsAllowed(e), NEW f, NEW g, NEW s \in Seq(OptionRecords),
           s = f \o g, NEW j \in Nat, Len(s) = j, j < Len(AllOptions(e)),
           \A i \in 1 .. j : s[i] = AllOptions(e)[i]
    PROVE  ValidateOption(With(e, f, g), AllOptions(e)[j + 1])
<1>1. PICK all \in Seq(OptionRecords), n \in Nat : all = AllOptions(e) /\ n = Len(all) /\ j < n
  <2>1. AllOptions(e) \in Seq(OptionRecords) /\ Len(AllOptions(e)) \in Nat
    <3>1. AllOptions(e) \in Seq(OptionRecords)
      BY AllOptionsIs
    <3> QED BY <3>1
  <2> QED BY <2>1
<1>2. j + 1 \in 1 .. n /\ \A i \in 1 .. j : i \in 1 .. n /\ i # j + 1
  BY <1>1
<1>3. KindAllowed(With(e, f, g), all[j + 1])
  <2>1. KindAllowed(e, all[j + 1])
    BY <1>1, <1>2 DEF OptionsAllowed
  <2>2. PICK o : o = all[j + 1]
    OBVIOUS
  <2>3. KindAllowed(With(e, f, g), o) = KindAllowed(e, o)
    BY KindWith
  <2> QED BY <2>1, <2>2, <2>3
<1>4. ASSUME all[j + 1].type \in Single, ContainsOption(With(e, f, g), all[j + 1].type) PROVE FALSE
  <2>1. PICK i \in DOMAIN s : s[i].type = all[j + 1].type
    <3>1. AllOptions(With(e, f, g)) = s
      BY OptionsWith, Zenon
    <3> QED BY <1>4, <3>1 DEF ContainsOption
  <2>2. i \in 1 .. j
    OBVIOUS
  <2>3. all[i].type = all[j + 1].type /\ i \in 1 .. n /\ i # j + 1
    BY <1>1, <1>2, <2>1, <2>2
  <2> QED BY <1>1, <1>2, <1>4, <2>3 DEF OptionsAllowed
<1> QED BY <1>1, <1>3, <1>4, ValidateIs

\* The first k + 1 elements are the first k and the next one.
LEMMA OneLonger ==
    ASSUME NEW S, NEW s \in Seq(S), NEW k \in Nat, k < Len(s)
    PROVE  /\ SubSeq(s, 1, k + 1) = Append(SubSeq(s, 1, k), s[k + 1])
           /\ SubSeq(s, 1, k) \in Seq(S) /\ Len(SubSeq(s, 1, k)) = k
           /\ \A i \in 1 .. k : SubSeq(s, 1, k)[i] = s[i]
<1>1. /\ SubSeq(s, 1, k) \in Seq(S) /\ Len(SubSeq(s, 1, k)) = k
      /\ \A i \in 1 .. k : SubSeq(s, 1, k)[i] = s[i]
  OBVIOUS
<1>2. /\ SubSeq(s, 1, k + 1) \in Seq(S) /\ Len(SubSeq(s, 1, k + 1)) = k + 1
      /\ \A i \in 1 .. (k + 1) : SubSeq(s, 1, k + 1)[i] = s[i]
  OBVIOUS
<1>3. PICK t \in Seq(S), u \in Seq(S), x \in S :
          /\ t = SubSeq(s, 1, k) /\ u = SubSeq(s, 1, k + 1) /\ x = s[k + 1]
          /\ Len(t) = k /\ Len(u) = k + 1
          /\ \A i \in 1 .. k : u[i] = t[i]
          /\ u[k + 1] = x
  <2>1. s[k + 1] \in S
    OBVIOUS
  <2>2. \A i \in 1 .. k : SubSeq(s, 1, k + 1)[i] = SubSeq(s, 1, k)[i]
    <3>1. TAKE i \in 1 .. k
    <3>2. i \in 1 .. (k + 1)
      OBVIOUS
    <3> QED BY <1>1, <1>2, <3>2, Zenon
  <2>3. SubSeq(s, 1, k + 1)[k + 1] = s[k + 1]
    <3>1. k + 1 \in 1 .. (k + 1)
      OBVIOUS
    <3> QED BY <1>2, <3>1, Zenon
  <2> QED BY <1>1, <1>2, <2>1, <2>2, <2>3, Zenon
<1>4. Append(t, x) \in Seq(S) /\ Len(Append(t, x)) = k + 1 /\ \A i \in 1 .. (k + 1) : Append(t, x)[i] = u[i]
  BY <1>3
<1>5. u = Append(t, x)
  <2>1. u = [i \in 1 .. (k + 1) |-> u[i]] /\ Append(t, x) = [i \in 1 .. (k + 1) |-> Append(t, x)[i]]
    BY <1>3, <1>4
  <2>2. PICK v : v = Append(t, x)
    OBVIOUS
  <2>3. [i \in 1 .. (k + 1) |-> u[i]] = [i \in 1 .. (k + 1) |-> v[i]]
    BY <1>4, <2>2
  <2> QED BY <2>1, <2>2, <2>3
<1> QED BY <1>1, <1>3, <1>5

\* The entry as it is when some of its options were read.
FirstRead(e, k) == With(e, SubSeq(e.first, 1, k), << >>)
SecondRead(e, k) == With(e, e.first, SubSeq(e.second, 1, k))

\* The next option of the first list is valid, and is added to what was read.
LEMMA FirstGrows ==
    ASSUME NEW e \in EntryRecords, OptionsAllowed(e), NEW k \in Nat, k < Len(e.first)
    PROVE  LET o == AllOptions(e)[k + 1]
           IN  /\ ValidateOption(FirstRead(e, k), o)
               /\ FirstRead(e, k + 1) = [FirstRead(e, k) EXCEPT !["first"] = Append(@, o)]
<1>1. PICK f \in Seq(OptionRecords), t \in Seq(OptionRecords), o \in OptionRecords :
          /\ f = e.first /\ t = SubSeq(f, 1, k) /\ Len(t) = k /\ o = f[k + 1] /\ SubSeq(f, 1, k + 1) = Append(t, o)
          /\ \A i \in 1 .. k : t[i] = f[i]
  <2>1. PICK f \in Seq(OptionRecords) : f = e.first /\ k < Len(f)
    BY EntryIs
  <2>2. /\ SubSeq(f, 1, k + 1) = Append(SubSeq(f, 1, k), f[k + 1])
        /\ SubSeq(f, 1, k) \in Seq(OptionRecords) /\ Len(SubSeq(f, 1, k)) = k
        /\ \A i \in 1 .. k : SubSeq(f, 1, k)[i] = f[i]
    BY <2>1, OneLonger
  <2>3. f \in Seq(OptionRecords) /\ f = e.first /\ f[k + 1] \in OptionRecords
    BY <2>1
  <2> QED BY <2>2, <2>3, Zenon
<1>2. /\ k < Len(AllOptions(e)) /\ AllOptions(e)[k + 1] = o
      /\ \A i \in 1 .. k : AllOptions(e)[i] = t[i]
  <2>1. PICK n \in Nat, m \in Nat :
            /\ n = Len(f) /\ k < n /\ Len(AllOptions(e)) = n + m
            /\ \A i \in 1 .. n : AllOptions(e)[i] = f[i]
    BY <1>1, AllOptionsIs
  <2>2. k < n + m /\ k + 1 \in 1 .. n /\ \A i \in 1 .. k : i \in 1 .. n
    BY <2>1
  <2> QED BY <1>1, <2>1, <2>2
<1>3. t = t \o << >>
  BY <1>1
<1>4. ValidateOption(With(e, t, << >>), AllOptions(e)[k + 1])
  <2>1. Len(t) = k /\ \A i \in 1 .. k : t[i] = AllOptions(e)[i]
    BY <1>1, <1>2
  <2> QED BY <1>2, <1>3, <2>1, NextAllowed
<1>5. [With(e, t, << >>) EXCEPT !["first"] = Append(@, o)] = With(e, Append(t, o), << >>)
  BY WithAppended
<1>6. FirstRead(e, k) = With(e, t, << >>) /\ FirstRead(e, k + 1) = With(e, Append(t, o), << >>)
  BY <1>1, Zenon DEF FirstRead
<1> QED BY <1>2, <1>4, <1>5, <1>6

\* The next option of the second list is valid, and is added to what was read.
LEMMA SecondGrows ==
    ASSUME NEW e \in EntryRecords, OptionsAllowed(e), NEW k \in Nat, k < Len(e.second)
    PROVE  LET o == AllOptions(e)[Len(e.first) + (k + 1)]
           IN  /\ ValidateOption(SecondRead(e, k), o)
               /\ SecondRead(e, k + 1) = [SecondRead(e, k) EXCEPT !["second"] = Append(@, o)]
<1>1. PICK g \in Seq(OptionRecords), t \in Seq(OptionRecords), o \in OptionRecords :
          /\ g = e.second /\ t = SubSeq(g, 1, k) /\ Len(t) = k /\ o = g[k + 1] /\ SubSeq(g, 1, k + 1) = Append(t, o)
          /\ \A i \in 1 .. k : t[i] = g[i]
  <2>1. PICK g \in Seq(OptionRecords) : g = e.second /\ k < Len(g)
    BY EntryIs
  <2>2. /\ SubSeq(g, 1, k + 1) = Append(SubSeq(g, 1, k), g[k + 1])
        /\ SubSeq(g, 1, k) \in Seq(OptionRecords) /\ Len(SubSeq(g, 1, k)) = k
        /\ \A i \in 1 .. k : SubSeq(g, 1, k)[i] = g[i]
    BY <2>1, OneLonger
  <2>3. g \in Seq(OptionRecords) /\ g = e.second /\ g[k + 1] \in OptionRecords
    BY <2>1
  <2> QED BY <2>2, <2>3, Zenon
<1>2. PICK n \in Nat, m \in Nat, f \in Seq(OptionRecords) :
          /\ n = Len(f) /\ f = e.first /\ m = Len(g) /\ k < m /\ Len(AllOptions(e)) = n + m
          /\ \A i \in 1 .. n : AllOptions(e)[i] = f[i]
          /\ \A i \in 1 .. m : AllOptions(e)[n + i] = g[i]
  <2>1. e.first \in Seq(OptionRecords) /\ k < Len(g)
    BY <1>1, EntryIs
  <2> QED BY <1>1, <2>1, AllOptionsIs
<1>3. PICK s \in Seq(OptionRecords) :
          /\ s = f \o t /\ Len(s) = n + k
          /\ \A i \in 1 .. n : s[i] = f[i]
          /\ \A i \in 1 .. k : s[n + i] = t[i]
  <2>1. /\ f \o t \in Seq(OptionRecords) /\ Len(f \o t) = Len(f) + Len(t)
        /\ \A i \in 1 .. Len(f) : (f \o t)[i] = f[i]
        /\ \A i \in 1 .. Len(t) : (f \o t)[Len(f) + i] = t[i]
    <3>1. f \in Seq(OptionRecords) /\ t \in Seq(OptionRecords)
      OBVIOUS
    <3> QED BY <3>1, Concat
  <2>2. Len(f) = n /\ Len(t) = k
    BY <1>1, <1>2
  <2>3. PICK s : s = f \o t
    OBVIOUS
  <2>4. s \in Seq(OptionRecords) /\ Len(s) = n + k
        /\ (\A i \in 1 .. n : s[i] = f[i]) /\ \A i \in 1 .. k : s[n + i] = t[i]
    BY <2>1, <2>2, <2>3
  <2> QED BY <2>3, <2>4, Zenon
<1>4. AllOptions(e)[n + (k + 1)] = o /\ n + k < Len(AllOptions(e)) /\ n + (k + 1) = (n + k) + 1
  <2>1. k + 1 \in 1 .. m /\ n + k < n + m
    BY <1>2
  <2>2. AllOptions(e)[n + (k + 1)] = g[k + 1]
    BY <1>2, <2>1
  <2>3. n + (k + 1) = (n + k) + 1
    OBVIOUS
  <2> QED BY <1>1, <1>2, <2>1, <2>2, <2>3
<1>5. ASSUME NEW i \in 1 .. (n + k) PROVE s[i] = AllOptions(e)[i]
  <2>1. CASE i <= n
    <3>1. i \in 1 .. n
      BY <2>1
    <3> QED BY <1>2, <1>3, <3>1
  <2>2. CASE ~(i <= n)
    <3>1. PICK j \in 1 .. k : i = n + j
      <4>1. i - n \in 1 .. k /\ i = n + (i - n)
        BY <2>2
      <4> QED BY <4>1
    <3>2. j \in 1 .. m
      BY <1>2
    <3>3. s[n + j] = t[j] /\ t[j] = g[j] /\ AllOptions(e)[n + j] = g[j]
      BY <1>1, <1>2, <1>3, <3>2
    <3> QED BY <3>1, <3>3
  <2> QED BY <2>1, <2>2
<1>6. ValidateOption(With(e, f, t), AllOptions(e)[(n + k) + 1])
  <2>1. n + k \in Nat /\ Len(s) = n + k /\ s = f \o t
    BY <1>3
  <2> QED BY <1>4, <1>5, <2>1, NextAllowed
<1>7. [With(e, f, t) EXCEPT !["second"] = Append(@, o)] = With(e, f, Append(t, o))
  BY WithAppended
<1>8. SecondRead(e, k) = With(e, f, t) /\ SecondRead(e, k + 1) = With(e, f, Append(t, o))
  BY <1>1, <1>2, Zenon DEF SecondRead
<1> QED BY <1>2, <1>4, <1>6, <1>7, <1>8

\* The options all stand in c one behind the other from the o-th byte on, as far as c goes.
OptionsLie(c, o, all, ot) ==
    /\ o \in Nat /\ all \in Seq(OptionRecords) /\ ot \in [0 .. Len(all) -> Nat]
    /\ \A i \in 1 .. Len(all) :
          /\ ot[i] = ot[i - 1] + Len(OptionPayload(all[i]))
          /\ Cut(c, o + ot[i - 1], OptionPayload(all[i]))
Missing(c, o, all, ot) == \E i \in 1 .. Len(all) : ~(o + ot[i] <= Len(c))

\* What becomes of the reader by options, the last of which is the i-th of all.
OptionsWereRead(r, c, o, all, ot, a, i, e, es) ==
    \/ r = Reading(a, o + ot[i], e, es)
    \/ r = Thrown /\ Missing(c, o, all, ot)

\* The options of one list are read one after the other, until one is cut.
LEMMA FieldRead ==
    ASSUME NEW c \in Seq(Byte), NEW o, NEW all, NEW ot, OptionsLie(c, o, all, ot),
           NEW d \in Nat, NEW n \in Nat, d + n <= Len(all), NEW field, NEW part,
           \A k \in 1 .. n : /\ ValidateOption(part[k - 1], all[d + k])
                             /\ part[k] = [part[k - 1] EXCEPT ![field] = Append(@, all[d + k])],
           NEW a, NEW es
    PROVE  OptionsWereRead(ReadOptions(c, Reading(a, o + ot[d], part[0], es), field, n),
                           c, o, all, ot, a, d + n, part[n], es)
<1>1. PICK l \in Nat : l = Len(all) /\ d + n <= l /\ o \in Nat /\ all \in Seq(OptionRecords)
                       /\ ot \in [0 .. l -> Nat]
  <2>1. o \in Nat /\ all \in Seq(OptionRecords) /\ ot \in [0 .. Len(all) -> Nat]
    BY Zenon DEF OptionsLie
  <2>2. Len(all) \in Nat
    BY <2>1
  <2> QED BY <2>1, <2>2, Zenon
<1>2. PICK off : off = [k \in 0 .. n |-> o + ot[d + k]]
  OBVIOUS
<1>3. PICK options : options = [k \in 1 .. n |-> all[d + k]]
  OBVIOUS
<1>4. \A k \in 0 .. n : d + k \in 0 .. l /\ off[k] = o + ot[d + k] /\ ot[d + k] \in Nat
  BY <1>1, <1>2
<1>5. off \in [0 .. n -> Nat]
  <2>1. \A k \in 0 .. n : o + ot[d + k] \in Nat
    BY <1>1, <1>4
  <2> QED BY <1>2, <2>1
<1>6. ASSUME NEW k \in 1 .. n
      PROVE  /\ options[k] \in OptionRecords /\ off[k] = off[k - 1] + Len(OptionPayload(options[k]))
             /\ Cut(c, off[k - 1], OptionPayload(options[k]))
             /\ ValidateOption(part[k - 1], options[k])
             /\ part[k] = [part[k - 1] EXCEPT ![field] = Append(@, options[k])]
  <2>1. d + k \in 1 .. l /\ k - 1 \in 0 .. n /\ k \in 0 .. n /\ (d + k) - 1 = d + (k - 1)
    BY <1>1
  <2>2. options[k] = all[d + k] /\ all[d + k] \in OptionRecords
    BY <1>1, <1>3, <2>1
  <2>3. /\ ot[d + k] = ot[d + (k - 1)] + Len(OptionPayload(all[d + k]))
        /\ Cut(c, o + ot[d + (k - 1)], OptionPayload(all[d + k]))
    <3>1. /\ ot[d + k] = ot[(d + k) - 1] + Len(OptionPayload(all[d + k]))
          /\ Cut(c, o + ot[(d + k) - 1], OptionPayload(all[d + k]))
      BY <1>1, <2>1 DEF OptionsLie
    <3> QED BY <2>1, <3>1
  <2>4. PICK x \in Nat, y \in Nat, z \in Nat :
            x = ot[d + (k - 1)] /\ y = Len(OptionPayload(all[d + k])) /\ z = ot[d + k] /\ z = x + y
    <3>1. Len(OptionPayload(all[d + k])) \in Nat
      BY <2>2, OptionSizes
    <3>2. ot[d + (k - 1)] \in Nat /\ ot[d + k] \in Nat
      BY <1>4, <2>1
    <3> QED BY <2>3, <3>1, <3>2
  <2>5. off[k - 1] = o + x /\ off[k] = o + z
    BY <1>4, <2>1, <2>4
  <2>6. o + z = (o + x) + y
    BY <1>1, <2>4
  <2> QED BY <2>2, <2>3, <2>4, <2>5, <2>6
<1>7. OptionsFollow(c, field, n, options, off, part)
  BY <1>5, <1>6, Zenon DEF OptionsFollow
<1>8. PICK r : r = ReadOptions(c, Reading(a, off[0], part[0], es), field, n)
  OBVIOUS
<1>9. \/ r = Reading(a, off[n], part[n], es)
      \/ r = Thrown /\ \E k \in 1 .. n : ~(off[k] <= Len(c))
  <2>1. AfterOptions(ReadOptions(c, Reading(a, off[0], part[0], es), field, n), c, n, off, part, a, es)
    BY <1>7, ReadOptionsIs, Zenon
  <2> QED BY <1>8, <2>1, Zenon DEF AfterOptions
<1>10. off[0] = o + ot[d] /\ off[n] = o + ot[d + n]
  <2>1. 0 \in 0 .. n /\ n \in 0 .. n /\ d + 0 = d
    OBVIOUS
  <2> QED BY <1>4, <2>1
<1>11. (\E k \in 1 .. n : ~(off[k] <= Len(c))) => Missing(c, o, all, ot)
  <2> SUFFICES ASSUME NEW k \in 1 .. n, ~(off[k] <= Len(c)) PROVE Missing(c, o, all, ot)
    OBVIOUS
  <2>1. d + k \in 1 .. l /\ off[k] = o + ot[d + k]
    BY <1>1, <1>4
  <2> QED BY <1>1, <2>1 DEF Missing
<1>12. OptionsWereRead(r, c, o, all, ot, a, d + n, part[n], es)
  BY <1>9, <1>10, <1>11, Zenon DEF OptionsWereRead
<1> QED BY <1>8, <1>10, <1>12

\* The options of the first list are read.
LEMMA FirstFieldRead ==
    ASSUME NEW c \in Seq(Byte), NEW o, NEW all, NEW ot, OptionsLie(c, o, all, ot),
           NEW e \in EntryRecords, OptionsAllowed(e),
           NEW d \in Nat, NEW n \in Nat, n = Len(e.first), d + n <= Len(all),
           \A k \in 1 .. n : AllOptions(e)[k] = all[d + k],
           NEW a, NEW es
    PROVE  OptionsWereRead(ReadOptions(c, Reading(a, o + ot[d], With(e, << >>, << >>), es), "first", n),
                           c, o, all, ot, a, d + n, With(e, e.first, << >>), es)
<1>1. PICK part : part = [k \in 0 .. n |-> FirstRead(e, k)]
  OBVIOUS
<1>2. \A k \in 0 .. n : part[k] = FirstRead(e, k)
  BY <1>1
<1>3. ASSUME NEW k \in 1 .. n
      PROVE  /\ ValidateOption(part[k - 1], all[d + k])
             /\ part[k] = [part[k - 1] EXCEPT !["first"] = Append(@, all[d + k])]
  <2>1. k \in 0 .. n /\ k - 1 \in 0 .. n /\ k - 1 \in Nat /\ k - 1 < Len(e.first) /\ (k - 1) + 1 = k
    OBVIOUS
  <2>2. /\ ValidateOption(FirstRead(e, k - 1), AllOptions(e)[(k - 1) + 1])
        /\ FirstRead(e, (k - 1) + 1) = [FirstRead(e, k - 1) EXCEPT !["first"] = Append(@, AllOptions(e)[(k - 1) + 1])]
    BY <2>1, FirstGrows
  <2>3. part[k] = FirstRead(e, k) /\ part[k - 1] = FirstRead(e, k - 1) /\ AllOptions(e)[k] = all[d + k]
    BY <1>2, <2>1
  <2> QED BY <2>1, <2>2, <2>3
<1>4. part[0] = With(e, << >>, << >>) /\ part[n] = With(e, e.first, << >>)
  <2>1. PICK f \in Seq(OptionRecords) : f = e.first /\ Len(f) = n
    BY EntryIs
  <2>2. SubSeq(f, 1, 0) = << >> /\ SubSeq(f, 1, n) = f
    BY <2>1
  <2>3. 0 \in 0 .. n /\ n \in 0 .. n
    OBVIOUS
  <2> QED BY <1>2, <2>1, <2>2, <2>3 DEF FirstRead
<1>5. OptionsWereRead(ReadOptions(c, Reading(a, o + ot[d], part[0], es), "first", n),
                      c, o, all, ot, a, d + n, part[n], es)
  BY <1>3, FieldRead
<1> QED BY <1>4, <1>5

\* The options of the second list are read after them.
LEMMA SecondFieldRead ==
    ASSUME NEW c \in Seq(Byte), NEW o, NEW all, NEW ot, OptionsLie(c, o, all, ot),
           NEW e \in EntryRecords, OptionsAllowed(e),
           NEW d \in Nat, NEW n \in Nat, n = Len(e.second), d + n <= Len(all),
           \A k \in 1 .. n : AllOptions(e)[Len(e.first) + k] = all[d + k],
           NEW a, NEW es
    PROVE  OptionsWereRead(ReadOptions(c, Reading(a, o + ot[d], With(e, e.first, << >>), es), "second", n),
                           c, o, all, ot, a, d + n, e, es)
<1>1. PICK part : part = [k \in 0 .. n |-> SecondRead(e, k)]
  OBVIOUS
<1>2. \A k \in 0 .. n : part[k] = SecondRead(e, k)
  BY <1>1
<1>3. ASSUME NEW k \in 1 .. n
      PROVE  /\ ValidateOption(part[k - 1], all[d + k])
             /\ part[k] = [part[k - 1] EXCEPT !["second"] = Append(@, all[d + k])]
  <2>1. k \in 0 .. n /\ k - 1 \in 0 .. n /\ k - 1 \in Nat /\ k - 1 < Len(e.second) /\ (k - 1) + 1 = k
    OBVIOUS
  <2>2. PICK x : x = AllOptions(e)[Len(e.first) + ((k - 1) + 1)]
    OBVIOUS
  <2>3. /\ ValidateOption(SecondRead(e, k - 1), x)
        /\ SecondRead(e, (k - 1) + 1) = [SecondRead(e, k - 1) EXCEPT !["second"] = Append(@, x)]
    BY <2>1, <2>2, SecondGrows
  <2>4. part[k] = SecondRead(e, k) /\ part[k - 1] = SecondRead(e, k - 1) /\ x = all[d + k]
    BY <1>2, <2>1, <2>2
  <2> QED BY <2>1, <2>3, <2>4
<1>4. part[0] = With(e, e.first, << >>) /\ part[n] = e
  <2>1. PICK f \in Seq(OptionRecords) : f = e.second /\ Len(f) = n
    BY EntryIs
  <2>2. SubSeq(f, 1, 0) = << >> /\ SubSeq(f, 1, n) = f
    BY <2>1
  <2>3. 0 \in 0 .. n /\ n \in 0 .. n
    OBVIOUS
  <2>4. e = With(e, e.first, e.second)
    BY EntryIs
  <2>5. SecondRead(e, 0) = With(e, e.first, << >>) /\ SecondRead(e, n) = With(e, e.first, e.second)
    BY <2>1, <2>2 DEF SecondRead
  <2> QED BY <1>2, <2>3, <2>4, <2>5
<1>5. OptionsWereRead(ReadOptions(c, Reading(a, o + ot[d], part[0], es), "second", n),
                      c, o, all, ot, a, d + n, part[n], es)
  BY <1>3, FieldRead
<1> QED BY <1>4, <1>5

\* What an entry says of the number of its options.
CountsHave(counts, n, m) == counts \div 16 = n /\ counts % 16 = m

\* Two counts of four bits are read from their byte.
LEMMA CountsAre ==
    ASSUME NEW e, NEW n \in Nat, NEW m \in Nat, n = Len(e.first), m = Len(e.second), m <= 15
    PROVE  CountsHave(Counts(e), n, m)
<1>1. \A x, y \in Nat : y <= 15 => (16 * x + y) \div 16 = x /\ (16 * x + y) % 16 = y
  OBVIOUS
<1>2. Counts(e) = 16 * n + m
  BY DEF Counts
<1>3. (16 * n + m) \div 16 = n /\ (16 * n + m) % 16 = m
  BY <1>1
<1>4. CountsHave(16 * n + m, n, m)
  BY <1>3, Zenon DEF CountsHave
<1> QED BY <1>2, <1>4, Zenon

IsReading(s, a, i, e, es) == s.ok /\ s.at = a /\ s.option = i /\ s.entry = e /\ s.entries = es

\* The fields of a reader, by their names.
LEMMA ReadingHas ==
    ASSUME NEW s, NEW a, NEW i, NEW e, NEW es, s = Reading(a, i, e, es)
    PROVE  IsReading(s, a, i, e, es)
BY ReadingIs DEF IsReading

NextPlace(d, n, m, j) == n + j \in 1 .. (n + m) /\ d + (n + j) = (d + n) + j

\* The place of an option of the second list.
LEMMA NextPlaceIs ==
    ASSUME NEW d \in Nat, NEW n \in Nat, NEW m \in Nat, NEW j \in 1 .. m
    PROVE  NextPlace(d, n, m, j)
BY DEF NextPlace

Places(d, n, m) ==
    /\ \A j \in 1 .. n : j \in 1 .. (n + m)
    /\ d + n \in Nat
    /\ \A l \in Nat : (d + n) + m <= l => d + n <= l

\* The places of the options of both lists.
LEMMA PlacesIn ==
    ASSUME NEW d \in Nat, NEW n \in Nat, NEW m \in Nat
    PROVE  Places(d, n, m)
BY DEF Places

\* What becomes of the reader by an entry.
AfterEntry(r, c, o, all, ot, a, d, e, es) ==
    \/ r = Reading(a + 16, o + ot[d], e, Append(es, e))
    \/ r = Thrown /\ (~(a + 16 <= Len(c)) \/ Missing(c, o, all, ot))

\* A reader throws at an entry that is cut.
LEMMA ReadEntryThrows ==
    ASSUME NEW c, NEW a, NEW p, NEW x, NEW es, NEW oo, ~EntryReadable(c, a)
    PROVE  ReadEntry(c, Reading(a, p, x, es), oo) = Thrown
<1>1. PICK s : s = Reading(a, p, x, es)
  OBVIOUS
<1>2. s.ok /\ s.at = a
  BY <1>1, ReadingIs
<1>3. ReadEntry(c, s, oo) = Thrown
  BY <1>2, Zenon DEF ReadEntry
<1> QED BY <1>1, <1>3

\* ReadEntry reads the entry that stands there with its options, and goes on
\* behind them; it throws when one of them is cut.
LEMMA EntryStep ==
    ASSUME NEW c \in Seq(Byte), NEW e \in EntryRecords, MadeByFactory(e), OptionsAllowed(e),
           NEW n1 \in Nat, NEW n2 \in Nat, n1 = Len(e.first), n2 = Len(e.second), n1 <= 15, n2 <= 15,
           NEW i \in Nat, i + n1 <= 255,
           NEW a \in Nat, Cut(c, a, EntryPayload(e, i)),
           NEW o, NEW all, NEW ot, OptionsLie(c, o, all, ot),
           NEW d \in Nat, (d + n1) + n2 <= Len(all),
           \A j \in 1 .. (n1 + n2) : AllOptions(e)[j] = all[d + j],
           NEW x, NEW es, NEW oo
    PROVE  AfterEntry(ReadEntry(c, Reading(a, o + ot[d], x, es), oo), c, o, all, ot, a, (d + n1) + n2, e, es)
<1>1. PICK r : r = ReadEntry(c, Reading(a, o + ot[d], x, es), oo)
  OBVIOUS
<1>2. /\ EntryReadable(c, a) => a + 16 <= Len(c)
      /\ a + 16 <= Len(c) =>
            /\ EntryReadable(c, a) /\ DeserializeEntry(c, a) = With(e, << >>, << >>)
            /\ ByteAt(c, a + 3) = Counts(e)
  <2>1. Len(e.first) <= 15 /\ Len(e.second) <= 15 /\ i + Len(e.first) <= 255
    OBVIOUS
  <2>2. EntryReads(c, a, e)
    BY <2>1, EntryRead, Zenon
  <2> QED BY <2>2, Zenon DEF EntryReads
<1>3. CASE ~(a + 16 <= Len(c))
  <2>1. r = Thrown
    <3>1. ~EntryReadable(c, a)
      BY <1>2, <1>3
    <3> QED BY <1>1, <3>1, ReadEntryThrows
  <2> QED BY <1>1, <1>3, <2>1, Zenon DEF AfterEntry
<1>4. CASE a + 16 <= Len(c)
  <2>1. PICK s1 : s1 = ReadOptions(c, Reading(a, o + ot[d], With(e, << >>, << >>), es), "first", n1)
    OBVIOUS
  <2>2. PICK s2 : s2 = ReadOptions(c, s1, "second", n2)
    OBVIOUS
  <2>3. r = IF ~s2.ok THEN Thrown
            ELSE Reading(s2.at + cEntrySize, s2.option, s2.entry, Append(s2.entries, s2.entry))
    <3>1. EntryReadable(c, a) /\ DeserializeEntry(c, a) = With(e, << >>, << >>)
      BY <1>2, <1>4
    <3>2. ByteAt(c, a + 3) \div 16 = n1 /\ ByteAt(c, a + 3) % 16 = n2
      <4>1. CountsHave(Counts(e), n1, n2)
        BY CountsAre, Zenon
      <4>2. ByteAt(c, a + 3) = Counts(e)
        BY <1>2, <1>4
      <4> QED BY <4>1, <4>2, Zenon DEF CountsHave
    <3>3. s1 = ReadOptions(c, Reading(a, o + ot[d], DeserializeEntry(c, a), es), "first", n1)
      BY <2>1, <3>1, Zenon
    <3>4. PICK p : p = o + ot[d]
      OBVIOUS
    <3>5. PICK s : s = Reading(a, p, x, es)
      OBVIOUS
    <3>6. s.ok /\ s.at = a /\ s.option = p /\ s.entries = es
      BY <3>5, ReadingIs
    <3>7. r = ReadEntry(c, s, oo)
      BY <1>1, <3>4, <3>5
    <3>8. s1 = ReadOptions(c, Reading(a, p, DeserializeEntry(c, a), es), "first", n1)
      BY <3>3, <3>4
    <3> QED BY <2>2, <3>1, <3>2, <3>6, <3>7, <3>8, Zenon DEF ReadEntry
  <2>31. Places(d, n1, n2)
    BY PlacesIn, Zenon
  <2>4. PICK l \in Nat : l = Len(all) /\ (d + n1) + n2 <= l /\ d + n1 <= l
    <3>1. Len(all) \in Nat
      BY DEF OptionsLie
    <3>2. \A l \in Nat : (d + n1) + n2 <= l => d + n1 <= l
      BY <2>31, Zenon DEF Places
    <3> QED BY <3>1, <3>2, Zenon
  <2>5. OptionsWereRead(s1, c, o, all, ot, a, d + n1, With(e, e.first, << >>), es)
    <3>1. \A j \in 1 .. n1 : AllOptions(e)[j] = all[d + j]
      <4>1. \A j \in 1 .. n1 : j \in 1 .. (n1 + n2)
        BY <2>31, Zenon DEF Places
      <4> QED BY <4>1
    <3>2. n1 = Len(e.first) /\ d + n1 <= Len(all)
      BY <2>4
    <3> QED BY <2>1, <3>1, <3>2, FirstFieldRead
  <2>6. CASE s1 = Thrown /\ Missing(c, o, all, ot)
    <3>1. s2 = Thrown /\ ~s2.ok
      BY <2>2, <2>6, ReadNoOptions, ThrownStays
    <3>2. r = Thrown
      BY <2>3, <3>1, Zenon
    <3> QED BY <1>1, <2>6, <3>2, Zenon DEF AfterEntry
  <2>7. CASE s1 = Reading(a, o + ot[d + n1], With(e, e.first, << >>), es)
    <3>1. OptionsWereRead(s2, c, o, all, ot, a, (d + n1) + n2, e, es)
      <4>1. \A j \in 1 .. n2 : AllOptions(e)[Len(e.first) + j] = all[(d + n1) + j]
        <5> SUFFICES ASSUME NEW j \in 1 .. n2 PROVE AllOptions(e)[Len(e.first) + j] = all[(d + n1) + j]
          OBVIOUS
        <5>1. NextPlace(d, n1, n2, j)
          BY NextPlaceIs, Zenon
        <5>2. n1 + j \in 1 .. (n1 + n2) /\ d + (n1 + j) = (d + n1) + j
          BY <5>1, Zenon DEF NextPlace
        <5> QED BY <5>2
      <4>2. n2 = Len(e.second) /\ (d + n1) + n2 <= Len(all) /\ d + n1 \in Nat
        <5>1. d + n1 \in Nat
          BY <2>31, Zenon DEF Places
        <5> QED BY <5>1
      <4>3. PICK d1 \in Nat : d1 = d + n1
        BY <4>2
      <4>4. OptionsWereRead(ReadOptions(c, Reading(a, o + ot[d1], With(e, e.first, << >>), es), "second", n2),
                            c, o, all, ot, a, d1 + n2, e, es)
        BY <4>1, <4>2, <4>3, SecondFieldRead
      <4> QED BY <2>2, <2>7, <4>3, <4>4
    <3>2. CASE s2 = Thrown /\ Missing(c, o, all, ot)
      <4>1. r = Thrown
        BY <2>3, <3>2, ThrownStays
      <4> QED BY <1>1, <3>2, <4>1, Zenon DEF AfterEntry
    <3>3. CASE s2 = Reading(a, o + ot[(d + n1) + n2], e, es)
      <4>0. PICK p : p = o + ot[(d + n1) + n2]
        OBVIOUS
      <4>1. s2.ok /\ s2.at = a /\ s2.option = p /\ s2.entry = e /\ s2.entries = es
        <5>1. IsReading(s2, a, p, e, es)
          BY <3>3, <4>0, ReadingHas, Zenon
        <5> QED BY <5>1, Zenon DEF IsReading
      <4>2. r = Reading(a + 16, o + ot[(d + n1) + n2], e, Append(es, e))
        BY <2>3, <4>0, <4>1, Zenon DEF cEntrySize
      <4> QED BY <1>1, <4>2, Zenon DEF AfterEntry
    <3> QED BY <3>1, <3>2, <3>3, Zenon DEF OptionsWereRead
  <2> QED BY <2>5, <2>6, <2>7, Zenon DEF OptionsWereRead
<1> QED BY <1>3, <1>4

\* Entries that an agent may have put together, and that have the options they may have.
SoundEntries(entries) ==
    GoodEntries(entries) /\ \A k \in 1 .. Len(entries) : OptionsAllowed(entries[k])

\* The entries stand in c from the a-th byte on, as far as c goes.
EntriesLie(c, a, entries) ==
    \A k \in 1 .. Len(entries) : Cut(c, a + 16 * (k - 1), EntryBytes(entries)[k])

\* The reader, when it has read k entries.
LastRead(entries, k) == IF k = 0 THEN NoEntry ELSE entries[k]
HasRead(a, o, ot, at, entries, k) ==
    Reading(a + 16 * k, o + ot[at[k]], LastRead(entries, k), SubSeq(entries, 1, k))

\* The reader of the first k - 1 entries of a message reads the next one, or
\* throws because something is cut.
LEMMA NextEntryRead ==
    ASSUME NEW c \in Seq(Byte), NEW entries, SoundEntries(entries), NEW a \in Nat, EntriesLie(c, a, entries),
           NEW o, NEW ot, OptionsLie(c, o, MessageOptions(entries), ot),
           NEW at, Flat(MessageOptions(entries), OptionLists(entries), at, OptionRecords),
           NEW n \in Nat, n = Len(entries), NEW k \in 1 .. n, NEW oo
    PROVE  LET r == ReadEntry(c, HasRead(a, o, ot, at, entries, k - 1), oo)
           IN  \/ r = HasRead(a, o, ot, at, entries, k)
               \/ r = Thrown /\ (~(a + 16 * k <= Len(c)) \/ Missing(c, o, MessageOptions(entries), ot))
<1>1. GoodEntries(entries) /\ entries \in Seq(EntryRecords) /\ k \in 1 .. Len(entries)
  BY DEF SoundEntries, GoodEntries
<1>2. PICK e \in EntryRecords : e = entries[k] /\ MadeByFactory(e) /\ OptionsAllowed(e)
  <2>1. entries[k] \in EntryRecords
    BY <1>1
  <2>2. MadeByFactory(entries[k]) /\ OptionsAllowed(entries[k])
    BY <1>1 DEF SoundEntries, GoodEntries
  <2> QED BY <2>1, <2>2, Zenon
<1>3. PICK all : all = MessageOptions(entries)
  OBVIOUS
<1>41. /\ at[k - 1] \in Nat /\ at[k] = at[k - 1] + Len(AllOptions(e))
      /\ at[k] <= Len(all)
      /\ Len(e.first) <= 15 /\ Len(e.second) <= 15
      /\ \A j \in 1 .. Len(AllOptions(e)) : AllOptions(e)[j] = all[at[k - 1] + j]
  <2>1. /\ at[k - 1] \in Nat /\ at[k] = at[k - 1] + Len(AllOptions(entries[k]))
        /\ at[k] <= Len(MessageOptions(entries))
        /\ Len(entries[k].first) <= 15 /\ Len(entries[k].second) <= 15
        /\ \A j \in 1 .. Len(AllOptions(entries[k])) :
              AllOptions(entries[k])[j] = MessageOptions(entries)[at[k - 1] + j]
    <3>1. EntryPlaced(entries, at, k)
      BY <1>1, OptionsOfEntry, Zenon
    <3> QED BY <3>1, Zenon DEF EntryPlaced
  <2> QED BY <1>2, <1>3, <2>1, Zenon
<1>42. Len(e.first) \in Nat /\ Len(e.second) \in Nat /\ Len(AllOptions(e)) = Len(e.first) + Len(e.second)
  BY AllOptionsIs
<1>43. PICK n1 \in Nat, n2 \in Nat, d \in Nat : n1 = Len(e.first) /\ n2 = Len(e.second) /\ d = at[k - 1]
  BY <1>41, <1>42
<1>4. /\ n1 <= 15 /\ n2 <= 15
      /\ (d + n1) + n2 = at[k] /\ at[k] <= Len(all)
      /\ \A j \in 1 .. (n1 + n2) : AllOptions(e)[j] = all[d + j]
  <2>5. Len(AllOptions(e)) = n1 + n2
    BY <1>42, <1>43
  <2>6. at[k] = d + (n1 + n2)
    BY <1>41, <1>43, <2>5
  <2>7. d + (n1 + n2) = (d + n1) + n2
    OBVIOUS
  <2>8. (d + n1) + n2 = at[k]
    BY <2>6, <2>7
  <2>9. n1 <= 15 /\ n2 <= 15 /\ at[k] <= Len(all)
    BY <1>41, <1>43
  <2>10. \A j \in 1 .. (n1 + n2) : AllOptions(e)[j] = all[d + j]
    BY <1>41, <1>43, <2>5
  <2> QED BY <2>8, <2>9, <2>10
<1>5. PICK i \in Nat : i = IndexOf(entries, k) /\ i + n1 <= 255
  <2>1. IndexOf(entries, k) \in Nat /\ IndexOf(entries, k) + Len(entries[k].first) <= 255
    BY <1>1, IndexIs
  <2> QED BY <1>2, <1>43, <1>4, <2>1
<1>6. PICK b \in Nat : b = a + 16 * (k - 1) /\ b + 16 = a + 16 * k
  <2>1. a + 16 * (k - 1) \in Nat /\ (a + 16 * (k - 1)) + 16 = a + 16 * k
    OBVIOUS
  <2> QED BY <2>1
<1>7. Cut(c, b, EntryPayload(e, i))
  <2>1. Cut(c, a + 16 * (k - 1), EntryBytes(entries)[k])
    BY <1>1, Zenon DEF EntriesLie
  <2>2. EntryBytes(entries)[k] = EntryPayload(entries[k], IndexOf(entries, k))
    BY <1>1, EntryBytesAre
  <2> QED BY <1>2, <1>5, <1>6, <2>1, <2>2
<1>8. PICK x, es : x = LastRead(entries, k - 1) /\ es = SubSeq(entries, 1, k - 1)
  OBVIOUS
<1>9. HasRead(a, o, ot, at, entries, k - 1) = Reading(b, o + ot[d], x, es)
  BY <1>43, <1>4, <1>6, <1>8 DEF HasRead
<1>10. HasRead(a, o, ot, at, entries, k) = Reading(b + 16, o + ot[(d + n1) + n2], e, Append(es, e))
  <2>1. SubSeq(entries, 1, (k - 1) + 1) = Append(SubSeq(entries, 1, k - 1), entries[(k - 1) + 1])
    <3>1. k - 1 \in Nat /\ k - 1 < Len(entries)
      BY <1>1
    <3> QED BY <1>1, <3>1, OneLonger
  <2>2. (k - 1) + 1 = k /\ k # 0
    OBVIOUS
  <2>3. SubSeq(entries, 1, k) = Append(es, e)
    BY <1>2, <1>8, <2>1, <2>2
  <2>4. LastRead(entries, k) = e
    BY <1>2, <2>2 DEF LastRead
  <2> QED BY <1>43, <1>4, <1>6, <2>3, <2>4 DEF HasRead
<1>11. AfterEntry(ReadEntry(c, Reading(b, o + ot[d], x, es), oo), c, o, all, ot, b, (d + n1) + n2, e, es)
  <2>1. (d + n1) + n2 <= Len(all) /\ OptionsLie(c, o, all, ot)
    BY <1>3, <1>43, <1>4
  <2>2. MadeByFactory(e) /\ OptionsAllowed(e) /\ i + n1 <= 255
    BY <1>2, <1>5
  <2>3. n1 = Len(e.first) /\ n2 = Len(e.second) /\ n1 <= 15 /\ n2 <= 15
    BY <1>43, <1>4
  <2>4. \A j \in 1 .. (n1 + n2) : AllOptions(e)[j] = all[d + j]
    BY <1>43, <1>4
  <2> QED BY <1>7, <2>1, <2>2, <2>3, <2>4, EntryStep, Zenon
<1> QED BY <1>3, <1>6, <1>9, <1>10, <1>11, Zenon DEF AfterEntry

\* What becomes of the reader by all entries.
EntriesWereRead(r, c, a, o, all, ot, entries, n) ==
    \/ r.ok /\ r.entries = entries
    \/ r = Thrown /\ (~(a + 16 * n <= Len(c)) \/ Missing(c, o, all, ot))

\* ReadEntries reads all entries of a message with their options, or throws
\* because something is cut.
LEMMA EntriesRead ==
    ASSUME NEW c \in Seq(Byte), NEW entries, SoundEntries(entries), NEW a \in Nat, EntriesLie(c, a, entries),
           NEW o, NEW ot, OptionsLie(c, o, MessageOptions(entries), ot), ot[0] = 0,
           NEW n \in Nat, n = Len(entries)
    PROVE  EntriesWereRead(ReadEntries(c, a, o, n), c, a, o, MessageOptions(entries), ot, entries, n)
<1>0. PICK at : Flat(MessageOptions(entries), OptionLists(entries), at, OptionRecords)
  <2>1. entries \in Seq(EntryRecords)
    BY DEF SoundEntries, GoodEntries
  <2> QED BY <2>1, OptionsFlat
<1>1. PICK ok : ok = [k \in 0 .. n |-> HasRead(a, o, ot, at, entries, k)]
  OBVIOUS
<1>2. PICK next : next = [k \in 1 .. n |-> ReadEntry(c, ok[k - 1], o)]
  OBVIOUS
<1>3. \A k \in 0 .. n : ok[k] = HasRead(a, o, ot, at, entries, k)
  BY <1>1
<1>31. ok[0] = Reading(a, o, NoEntry, << >>)
  <2>1. HasRead(a, o, ot, at, entries, 0) = Reading(a + 16 * 0, o + ot[at[0]], NoEntry, SubSeq(entries, 1, 0))
    BY DEF HasRead, LastRead
  <2>2. at[0] = 0 /\ o \in Nat /\ a + 16 * 0 = a /\ o + 0 = o
    BY <1>0 DEF Flat, Offsets, OptionsLie
  <2>3. SubSeq(entries, 1, 0) = << >>
    BY DEF SoundEntries, GoodEntries
  <2>4. ok[0] = HasRead(a, o, ot, at, entries, 0)
    BY <1>3
  <2> QED BY <2>1, <2>2, <2>3, <2>4
<1> DEFINE Lacks == ~(a + 16 * n <= Len(c)) \/ Missing(c, o, MessageOptions(entries), ot)
<1>4. ASSUME NEW k \in 1 .. n
      PROVE  /\ next[k] = ReadEntry(c, ok[k - 1], o)
             /\ next[k] # ok[k] => next[k] = Thrown /\ Lacks
  <2>1. k - 1 \in 0 .. n /\ k \in 0 .. n
    OBVIOUS
  <2>2. next[k] = ReadEntry(c, ok[k - 1], o)
    BY <1>2
  <2>3. next[k] = ReadEntry(c, HasRead(a, o, ot, at, entries, k - 1), o)
    BY <1>3, <2>1, <2>2
  <2>4. \/ next[k] = HasRead(a, o, ot, at, entries, k)
        \/ next[k] = Thrown /\ (~(a + 16 * k <= Len(c)) \/ Missing(c, o, MessageOptions(entries), ot))
    BY <1>0, <2>3, NextEntryRead
  <2>5. ~(a + 16 * k <= Len(c)) => ~(a + 16 * n <= Len(c))
    <3>1. Len(c) \in Nat
      OBVIOUS
    <3>2. PICK x \in Nat : x = Len(c)
      BY <3>1
    <3>3. a + 16 * n <= x => a + 16 * k <= x
      OBVIOUS
    <3> QED BY <3>2, <3>3
  <2>6. ok[k] = HasRead(a, o, ot, at, entries, k)
    BY <1>3, <2>1
  <2> QED BY <2>2, <2>4, <2>5, <2>6, Zenon
<1> HIDE DEF Lacks
<1>5. PICK h : RunsAlong(h, n, ok, next)
  BY RunExists
<1> DEFINE Def(f) == [k \in 0 .. n |-> IF k = 0 THEN Reading(a, o, NoEntry, << >>) ELSE ReadEntry(c, f[k - 1], o)]
<1>6. h = Def(h)
  <2>1. ASSUME NEW k \in 0 .. n PROVE h[k] = Def(h)[k]
    <3>1. CASE k = 0
      BY <1>31, <1>5, <3>1 DEF RunsAlong
    <3>2. CASE k # 0
      <4>1. k \in 1 .. n
        BY <3>2
      <4>2. \/ h[k - 1] = ok[k - 1] /\ h[k] = next[k]
            \/ \E i \in 1 .. n : next[i] # ok[i] /\ h[k - 1] = next[i] /\ h[k] = next[i]
        BY <1>5, <4>1, Zenon DEF RunsAlong
      <4>3. h[k] = ReadEntry(c, h[k - 1], o)
        BY <1>4, <4>1, <4>2, ThrownStays, Zenon
      <4> QED BY <3>2, <4>3
    <3> QED BY <3>1, <3>2
  <2>2. Def(h) = [k \in 0 .. n |-> Def(h)[k]]
    OBVIOUS
  <2>3. h = [k \in 0 .. n |-> h[k]]
    BY <1>5 DEF RunsAlong
  <2> HIDE DEF Def
  <2>4. [k \in 0 .. n |-> h[k]] = [k \in 0 .. n |-> Def(h)[k]]
    BY <2>1
  <2> QED BY <2>2, <2>3, <2>4, Zenon
<1>7. PICK g : g = (CHOOSE f : f = Def(f)) /\ g = Def(g)
  <2> HIDE DEF Def
  <2> QED BY <1>6, Zenon
<1>8. g[n] = h[n]
  <2>1. SameSteps(n, h, g)
    <3>1. \A k \in 0 .. n : g[k] = IF k = 0 THEN Reading(a, o, NoEntry, << >>) ELSE ReadEntry(c, g[k - 1], o)
      BY <1>7
    <3>2. \A k \in 0 .. n : h[k] = IF k = 0 THEN Reading(a, o, NoEntry, << >>) ELSE ReadEntry(c, h[k - 1], o)
      BY <1>6
    <3>3. \A k \in 1 .. n : k # 0 /\ k \in 0 .. n
      OBVIOUS
    <3> HIDE DEF Def
    <3> QED BY <3>1, <3>2, <3>3 DEF SameSteps
  <2>2. SameValues(n, h, g) /\ n \in 0 .. n
    BY <2>1, RecursiveSame
  <2> QED BY <2>2 DEF SameValues
<1>9. ReadEntries(c, a, o, n) = g[n]
  BY <1>7, Zenon DEF ReadEntries
<1> HIDE DEF Def
<1>10. h[n] = ok[n] \/ \E i \in 1 .. n : h[n] = next[i] /\ next[i] # ok[i]
  BY <1>5 DEF RunsAlong
<1>11. ok[n].ok /\ ok[n].entries = entries
  <2>1. ok[n] = HasRead(a, o, ot, at, entries, n)
    BY <1>3
  <2>2. PICK i, p, x, es : i = a + 16 * n /\ p = o + ot[at[n]] /\ x = LastRead(entries, n) /\ es = SubSeq(entries, 1, n)
    OBVIOUS
  <2>3. ok[n] = Reading(i, p, x, es)
    BY <2>1, <2>2 DEF HasRead
  <2>4. es = entries
    BY <2>2 DEF SoundEntries, GoodEntries
  <2>5. IsReading(ok[n], i, p, x, es)
    BY <2>3, ReadingHas
  <2> QED BY <2>4, <2>5, Zenon DEF IsReading
<1>12. \/ g[n].ok /\ g[n].entries = entries
       \/ g[n] = Thrown /\ Lacks
  BY <1>4, <1>8, <1>10, <1>11, Zenon
<1> QED BY <1>9, <1>12, Zenon DEF EntriesWereRead, Lacks

-----------------------------------------------------------------------------
(* Service-discovery messages, whole and cut *)

\* What lies in the first bytes of a payload stands there.
LEMMA CutAt ==
    ASSUME NEW b, NEW c, NEW n \in Nat, NEW i \in Nat, NEW s, Part(c, b, 0, n), At(b, i, s),
           Len(s) \in Nat, i + Len(s) <= n
    PROVE  At(c, i, s)
<1>1. Cut(c, i, s)
  BY CutPart
<1>2. Len(c) = n
  BY DEF Part
<1> QED BY <1>1, <1>2, CutWhole

\* The header and the length are read as they were written.
LEMMA HeaderIn ==
    ASSUME NEW h \in Headers, NEW length \in Wide, NEW c \in Seq(Byte),
           At(c, 0, SomeIpPayload(h, length))
    PROVE  DeserializeHeader(c) = h /\ Number(ExtractInteger(c, 4)) = length
<1>1. PICK s : s = SomeIpPayload(h, length) /\ Len(s) = 16 /\ HeaderOf(s, h, length)
  BY HeaderWritten
<1>2. ASSUME NEW i \in Nat, i < 16 PROVE ByteAt(c, i) = ByteAt(s, i)
  <2>1. ByteAt(c, 0 + i) = ByteAt(s, i) /\ 0 + i = i
    BY <1>1, <1>2 DEF At
  <2> QED BY <2>1
<1>3. HeaderOf(c, h, length)
  BY <1>1, <1>2, SameHeader
<1> QED BY <1>3, HeaderRead

\* The flags are read as they were written.
LEMMA FlagRead ==
    ASSUME NEW m, m.rebooted \in BOOLEAN, NEW c, At(c, 16, InjectInteger(FlagWord(m)))
    PROVE  /\ ExtractInteger(c, 16) \in {cRebootedFlag, cNotRebootedFlag}
           /\ (ExtractInteger(c, 16) = cRebootedFlag) = m.rebooted
<1>1. 49152 \in Short /\ 16384 \in Short /\ 0 \in Short
  BY DEF Short
<1>2. cRebootedFlag # cNotRebootedFlag
  BY DEF cRebootedFlag, cNotRebootedFlag
<1>3. ExtractInteger(c, 16) = FlagWord(m)
  <2>1. PICK p \in Short, q \in Short : FlagWord(m) = <<p, q>>
    BY <1>1 DEF FlagWord, cRebootedFlag, cNotRebootedFlag
  <2>2. At(c, 16, InjectInteger(<<p, q>>)) /\ 16 \in Nat
    BY <2>1
  <2>3. ExtractInteger(c, 16) = <<p, q>>
    BY <2>2, IntegerAt
  <2> QED BY <2>1, <2>3
<1> QED BY <1>2, <1>3 DEF FlagWord

\* The entries of a message stand in its first bytes, as far as they go.
LEMMA EntriesLieIn ==
    ASSUME NEW b, NEW m, NEW k, NEW l, SdLaid(b, m, k, l), GoodEntries(m.entries),
           NEW c, NEW n \in Nat, Part(c, b, 0, n)
    PROVE  EntriesLie(c, 24, m.entries)
<1>1. PICK at : /\ Flat(EntriesPayload(m.entries), EntryBytes(m.entries), at, Byte)
                /\ \A i \in 0 .. Len(m.entries) : at[i] = 16 * i
  BY EntriesPayloadFlat
<1>2. PICK parts \in Seq(Seq(Byte)) : parts = EntryBytes(m.entries) /\ Len(parts) = Len(m.entries)
  BY EntryBytesAre
<1> DEFINE s == EntriesPayload(m.entries)
<1>3. b \in Seq(Byte) /\ At(b, 24, s) /\ k \in Nat /\ k = Len(m.entries)
  BY <1>2 DEF SdLaid
<1>4. ASSUME NEW i \in 1 .. k PROVE Cut(c, 24 + 16 * (i - 1), parts[i])
  <2>1. i - 1 \in 0 .. k /\ 16 * (i - 1) \in Nat /\ 24 + 16 * (i - 1) \in Nat
    BY <1>3
  <2>2. at[i - 1] = 16 * (i - 1)
    BY <1>1, <1>3, <2>1
  <2>3. At(b, 24 + at[i - 1], parts[i])
    <3>1. Flat(s, parts, at, Byte) /\ i \in 1 .. Len(parts) /\ 24 \in Nat
      BY <1>1, <1>2, <1>3
    <3> QED BY <1>3, <3>1, PartAt
  <2> QED BY <2>1, <2>2, <2>3, CutPart
<1> QED BY <1>2, <1>3, <1>4, Zenon DEF EntriesLie

\* The options of a message stand in its first bytes, as far as they go; nothing
\* is missing of the whole payload.
LEMMA OptionsLieIn ==
    ASSUME NEW b, NEW m, NEW k, NEW l, SdLaid(b, m, k, l), GoodEntries(m.entries),
           NEW c, NEW n \in Nat, Part(c, b, 0, n)
    PROVE  \E ot : /\ OptionsLie(c, 28 + 16 * k, MessageOptions(m.entries), ot) /\ ot[0] = 0
                   /\ n = Len(b) => ~Missing(c, 28 + 16 * k, MessageOptions(m.entries), ot)
<1>1. PICK all \in Seq(OptionRecords), z \in Nat : all = MessageOptions(m.entries) /\ z = Len(all)
  <2>1. m.entries \in Seq(EntryRecords)
    BY DEF GoodEntries
  <2> QED BY <2>1, MessageOptionsIn
<1>2. PICK ot : Flat(OptionsPayload(all), OptionParts(all), ot, Byte)
  BY OptionsPayloadFlat
<1> DEFINE s == OptionsPayload(all)
<1>3. PICK parts \in Seq(Seq(Byte)) :
          /\ parts = OptionParts(all) /\ Len(parts) = z
          /\ \A i \in 1 .. z : parts[i] = OptionPayload(all[i])
  BY <1>1, OptionPartsAre
<1>4. PICK o \in Nat : o = 28 + 16 * k /\ b \in Seq(Byte) /\ At(b, o, s) /\ l \in Nat /\ l = Len(s)
                       /\ Len(b) = o + l
  <2>1. /\ b \in Seq(Byte) /\ At(b, 28 + 16 * k, s) /\ l \in Nat /\ l = Len(s)
        /\ Len(b) = 28 + 16 * k + l /\ k \in Nat
    <3>1. /\ b \in Seq(Byte) /\ At(b, 28 + 16 * k, OptionsPayload(MessageOptions(m.entries)))
          /\ l \in Nat /\ l = Len(OptionsPayload(MessageOptions(m.entries)))
          /\ Len(b) = 28 + 16 * k + l /\ k \in Nat
      BY Zenon DEF SdLaid
    <3> QED BY <1>1, <3>1
  <2>2. 28 + 16 * k \in Nat
    BY <2>1
  <2> QED BY <2>1, <2>2, Zenon
<1>5. Offsets(ot, parts) /\ Flat(s, parts, ot, Byte) /\ l = ot[z]
  BY <1>2, <1>3, <1>4 DEF Flat
<1>6. ot \in [0 .. z -> Nat] /\ ot[0] = 0 /\ \A i \in 1 .. z : ot[i] = ot[i - 1] + Len(parts[i])
  BY <1>3, <1>5 DEF Offsets
<1>7. ASSUME NEW i \in 1 .. z
      PROVE  ot[i] = ot[i - 1] + Len(OptionPayload(all[i])) /\ Cut(c, o + ot[i - 1], OptionPayload(all[i]))
  <2>1. i - 1 \in 0 .. z /\ i \in 1 .. Len(parts)
    BY <1>3
  <2>2. o + ot[i - 1] \in Nat
    <3>1. PICK x \in Nat : x = ot[i - 1]
      BY <1>6, <2>1
    <3>2. o + x \in Nat
      OBVIOUS
    <3> QED BY <3>1, <3>2
  <2>3. At(b, o + ot[i - 1], parts[i])
    <3>1. Flat(s, parts, ot, Byte) /\ At(b, o, s) /\ b \in Seq(Byte)
      BY <1>4, <1>5
    <3> HIDE DEF s
    <3> QED BY <2>1, <3>1, PartAt, Zenon
  <2>4. Cut(c, o + ot[i - 1], parts[i])
    BY <2>2, <2>3, CutPart
  <2> QED BY <1>3, <1>6, <2>4
<1>8. OptionsLie(c, o, all, ot)
  BY <1>1, <1>6, <1>7 DEF OptionsLie
<1>9. n = Len(b) => ~Missing(c, o, all, ot)
  <2> SUFFICES ASSUME n = Len(b), NEW i \in 1 .. z PROVE o + ot[i] <= Len(c)
    BY <1>1 DEF Missing
  <2>1. i \in 0 .. z /\ z \in 0 .. z /\ i <= z
    OBVIOUS
  <2>2. \A j \in 1 .. z : Len(parts[j]) \in Nat
    BY <1>3
  <2>3. ot[i] \in Nat /\ ot[z] \in Nat /\ ot[i] <= ot[z]
    BY <1>3, <1>5, <2>1, <2>2, OffsetsGrow
  <2>4. Len(c) = n
    BY DEF Part
  <2>5. Len(c) = o + l
    BY <1>4, <2>4
  <2> QED BY <1>5, <2>3, <2>5
<1> QED BY <1>1, <1>4, <1>6, <1>8, <1>9

\* A message of an agent, with entries that have only the options they may have.
SoundMessage(m) == GoodMessage(m) /\ SoundEntries(m.entries)

\* The length that is written counts the bytes after it.
LEMMA WireLength ==
    ASSUME NEW m, SoundMessage(m)
    PROVE  /\ SdPayload(m) \in Seq(Byte)
           /\ 8 + Number(ExtractInteger(SdPayload(m), 4)) = Len(SdPayload(m))
<1>1. GoodMessage(m) /\ GoodEntries(m.entries) /\ m.sessionId \in Short
  BY DEF SoundMessage, GoodMessage
<1>2. PICK k \in Nat, l \in Nat : SdLaid(SdPayload(m), m, k, l)
  BY <1>1, SdWritten
<1>3. PICK b \in Seq(Byte), n \in Nat :
          /\ b = SdPayload(m) /\ n = 20 + 16 * k + l /\ SdLength(m.entries) = n /\ Len(b) = 8 + n
          /\ At(b, 0, SomeIpPayload(SdHeader(m.sessionId), n))
  <2>1. /\ SdPayload(m) \in Seq(Byte) /\ Len(SdPayload(m)) = 28 + 16 * k + l
        /\ SdLength(m.entries) = 20 + 16 * k + l
        /\ At(SdPayload(m), 0, SomeIpPayload(SdHeader(m.sessionId), SdLength(m.entries)))
    BY <1>2, Zenon DEF SdLaid
  <2>2. PICK n \in Nat : n = 20 + 16 * k + l
    OBVIOUS
  <2>3. 28 + 16 * k + l = 8 + n
    BY <2>2
  <2> QED BY <2>1, <2>2, <2>3
<1>4. n \in Wide
  <2>1. SdLength(m.entries) \in Wide
    BY <1>1, LengthsAre
  <2> QED BY <1>3, <2>1
<1>5. SdHeader(m.sessionId) \in Headers
  BY <1>1, SdHeaderIn
<1>6. Number(ExtractInteger(b, 4)) = n
  BY <1>3, <1>4, <1>5, HeaderIn
<1> QED BY <1>3, <1>6

\* What SdDeserialize reads first.
FrontRead(c, m, k) ==
    /\ ExtractInteger(c, 16) \in {cRebootedFlag, cNotRebootedFlag}
    /\ (ExtractInteger(c, 16) = cRebootedFlag) = m.rebooted
    /\ Number(ExtractInteger(c, 20)) = 16 * k
    /\ DeserializeHeader(c).sessionId = m.sessionId

\* The front is read when all of it is there.
LEMMA FrontIsRead ==
    ASSUME NEW m, SoundMessage(m), NEW b, NEW k, NEW l, SdLaid(b, m, k, l),
           NEW c, NEW n \in Nat, Part(c, b, 0, n), 24 <= n
    PROVE  FrontRead(c, m, k)
<1>1. GoodMessage(m) /\ GoodEntries(m.entries) /\ m.sessionId \in Short /\ m.rebooted \in BOOLEAN
  BY DEF SoundMessage, GoodMessage
<1>2. k \in Nat /\ k = Len(m.entries) /\ c \in Seq(Byte)
  BY DEF SdLaid, Part
<1>3. getEntriesLength(m.entries) = 16 * k /\ 16 * k \in Wide /\ SdLength(m.entries) \in Wide
  <2>1. PICK x \in Nat : x = Len(m.entries) /\ getEntriesLength(m.entries) = 16 * x /\ 16 * x \in Wide
                         /\ SdLength(m.entries) \in Wide
    BY <1>1, LengthsAre
  <2>2. x = k
    BY <1>2, <2>1
  <2> QED BY <2>1, <2>2
<1>4. At(c, 0, SomeIpPayload(SdHeader(m.sessionId), SdLength(m.entries)))
  <2>1. PICK s : s = SomeIpPayload(SdHeader(m.sessionId), SdLength(m.entries)) /\ Len(s) = 16
    BY <1>1, <1>3, SdHeaderIn, HeaderWritten
  <2>2. At(b, 0, s)
    <3>1. At(b, 0, SomeIpPayload(SdHeader(m.sessionId), SdLength(m.entries)))
      BY Zenon DEF SdLaid
    <3> QED BY <2>1, <3>1
  <2>3. 0 \in Nat /\ Len(s) \in Nat /\ 0 + Len(s) <= n
    BY <2>1
  <2>4. At(c, 0, s)
    BY <2>2, <2>3, CutAt
  <2> QED BY <2>1, <2>4
<1>5. At(c, 16, InjectInteger(FlagWord(m)))
  <2>1. PICK s : s = InjectInteger(FlagWord(m)) /\ Len(s) = 4
    BY FlagWritten
  <2>2. At(b, 16, s)
    BY <2>1 DEF SdLaid
  <2>3. 16 \in Nat /\ Len(s) \in Nat /\ 16 + Len(s) <= n
    BY <2>1
  <2>4. At(c, 16, s)
    BY <2>2, <2>3, CutAt
  <2> QED BY <2>1, <2>4
<1>6. At(c, 20, InjectInteger(Word(16 * k)))
  <2>1. PICK s : s = InjectInteger(Word(16 * k)) /\ Len(s) = 4
    BY <1>3, WordWritten
  <2>2. At(b, 20, s)
    BY <1>3, <2>1 DEF SdLaid
  <2>3. 20 \in Nat /\ Len(s) \in Nat /\ 20 + Len(s) <= n
    <3>1. 20 \in Nat /\ 4 \in Nat /\ 20 + 4 <= n
      OBVIOUS
    <3> QED BY <2>1, <3>1, Zenon
  <2>4. At(c, 20, s)
    BY <2>2, <2>3, CutAt
  <2> QED BY <2>1, <2>4
<1>7. DeserializeHeader(c).sessionId = m.sessionId
  <2>1. SdHeader(m.sessionId) \in Headers /\ SdHeader(m.sessionId).sessionId = m.sessionId
    BY <1>1, SdHeaderIn
  <2>2. DeserializeHeader(c) = SdHeader(m.sessionId)
    BY <1>2, <1>3, <1>4, <2>1, HeaderIn
  <2> QED BY <2>1, <2>2
<1>8. Number(ExtractInteger(c, 20)) = 16 * k
  BY <1>3, <1>6, WideWord
<1>9. /\ ExtractInteger(c, 16) \in {cRebootedFlag, cNotRebootedFlag}
      /\ (ExtractInteger(c, 16) = cRebootedFlag) = m.rebooted
  BY <1>1, <1>5, FlagRead
<1> QED BY <1>7, <1>8, <1>9, Zenon DEF FrontRead

\* SdDeserialize, once the lengths are known.
LEMMA DeserializeIs ==
    ASSUME NEW c, NEW m, NEW k \in Nat, FrontRead(c, m, k), ~(Len(c) < 24), NEW s,
           s = ReadEntries(c, 24, 28 + 16 * k, k)
    PROVE  SdDeserialize(c) = IF ~s.ok THEN Refused
                              ELSE [is |-> "message", sessionId |-> m.sessionId,
                                    rebooted |-> m.rebooted, entries |-> s.entries]
<1>1. PICK at, p, q, y : at = cHeaderSize + 8 /\ p = cHeaderSize + 4 /\ q = 16 * k /\ y = (at + q) + 4
  OBVIOUS
<1>2. at = 24 /\ p = 20 /\ y = 28 + 16 * k /\ cHeaderSize = 16
  BY <1>1 DEF cHeaderSize
<1>3. q \div cEntrySize = k
  BY <1>1 DEF cEntrySize
<1>4. PICK flag : flag = ExtractInteger(c, cHeaderSize)
  OBVIOUS
<1>5. flag \in {cRebootedFlag, cNotRebootedFlag} /\ (flag = cRebootedFlag) = m.rebooted
      /\ Number(ExtractInteger(c, p)) = q /\ DeserializeHeader(c).sessionId = m.sessionId
  BY <1>1, <1>2, <1>4 DEF FrontRead
<1>6. s = ReadEntries(c, at, y, q \div cEntrySize) /\ ~(Len(c) < at)
  BY <1>2, <1>3
<1> QED BY <1>1, <1>4, <1>5, <1>6, Zenon DEF SdDeserialize

\* SdDeserialize reads the first bytes of a payload as the message, or refuses
\* them; it reads the whole payload as the message.
LEMMA CutRead ==
    ASSUME NEW m, SoundMessage(m), NEW n \in Nat, n <= Len(SdPayload(m))
    PROVE  LET r == SdDeserialize(SubSeq(SdPayload(m), 1, n))
           IN  r \in {Refused, m} /\ (n = Len(SdPayload(m)) => r = m)
<1>1. GoodMessage(m) /\ GoodEntries(m.entries) /\ SoundEntries(m.entries)
  BY DEF SoundMessage, GoodMessage
<1>2. PICK k \in Nat, l \in Nat : SdLaid(SdPayload(m), m, k, l)
  BY <1>1, SdWritten
<1>3. PICK b \in Seq(Byte), z \in Nat : b = SdPayload(m) /\ z = Len(b) /\ z = 28 + 16 * k + l /\ n <= z
                                        /\ k = Len(m.entries)
  <2>1. /\ SdPayload(m) \in Seq(Byte) /\ Len(SdPayload(m)) = 28 + 16 * k + l /\ k = Len(m.entries)
    BY <1>2, Zenon DEF SdLaid
  <2>2. Len(SdPayload(m)) \in Nat
    BY <2>1
  <2> QED BY <2>1, <2>2, Zenon
<1>4. PICK c : c = SubSeq(b, 1, n)
  OBVIOUS
<1>5. Part(c, b, 0, n)
  <2>1. 0 \in Nat /\ 0 <= n /\ n <= Len(b) /\ 0 + 1 = 1
    BY <1>3
  <2>2. Part(SubSeq(b, 0 + 1, n), b, 0, n)
    BY <2>1, SubBytes
  <2> QED BY <1>4, <2>1, <2>2
<1>6. c \in Seq(Byte) /\ Len(c) = n
  BY <1>5 DEF Part
<1>61. SdLaid(b, m, k, l)
  BY <1>2, <1>3
<1>7. CASE n < 24
  <2>1. SdDeserialize(c) = Refused
    <3>1. Len(c) < cHeaderSize + 8
      BY <1>6, <1>7 DEF cHeaderSize
    <3> QED BY <3>1, Zenon DEF SdDeserialize
  <2>2. n # z
    BY <1>3, <1>7
  <2> QED BY <1>3, <1>4, <2>1, <2>2
<1>8. CASE 24 <= n
  <2>1. FrontRead(c, m, k)
    BY <1>61, <1>5, <1>8, FrontIsRead, Zenon
  <2>2. EntriesLie(c, 24, m.entries)
    BY <1>1, <1>61, <1>5, EntriesLieIn, Zenon
  <2>3. PICK o \in Nat : o = 28 + 16 * k /\ z = o + l
    <3>1. 28 + 16 * k \in Nat
      OBVIOUS
    <3> QED BY <1>3, <3>1
  <2>4. PICK ot : /\ OptionsLie(c, o, MessageOptions(m.entries), ot) /\ ot[0] = 0
                  /\ n = z => ~Missing(c, o, MessageOptions(m.entries), ot)
    <3>1. \E ot : /\ OptionsLie(c, 28 + 16 * k, MessageOptions(m.entries), ot) /\ ot[0] = 0
                  /\ n = Len(SdPayload(m)) => ~Missing(c, 28 + 16 * k, MessageOptions(m.entries), ot)
      BY <1>1, <1>2, <1>3, <1>5, OptionsLieIn
    <3> QED BY <1>3, <2>3, <3>1
  <2>5. PICK s : s = ReadEntries(c, 24, o, k)
    OBVIOUS
  <2>6. EntriesWereRead(s, c, 24, o, MessageOptions(m.entries), ot, m.entries, k)
    <3>1. 24 \in Nat /\ k = Len(m.entries)
      BY <1>3
    <3> QED BY <1>1, <1>6, <2>2, <2>4, <2>5, <3>1, EntriesRead
  <2>7. SdDeserialize(c) = IF ~s.ok THEN Refused
                           ELSE [is |-> "message", sessionId |-> m.sessionId,
                                 rebooted |-> m.rebooted, entries |-> s.entries]
    <3>1. ~(Len(c) < 24) /\ s = ReadEntries(c, 24, 28 + 16 * k, k)
      BY <1>6, <1>8, <2>3, <2>5
    <3> QED BY <2>1, <3>1, DeserializeIs
  <2>8. m = [is |-> "message", sessionId |-> m.sessionId, rebooted |-> m.rebooted, entries |-> m.entries]
    BY <1>1 DEF GoodMessage
  <2>9. CASE s.ok /\ s.entries = m.entries
    <3>1. SdDeserialize(c) = m
      BY <2>7, <2>8, <2>9, Zenon
    <3> QED BY <1>3, <1>4, <3>1
  <2>10. CASE s = Thrown /\ (~(24 + 16 * k <= Len(c)) \/ Missing(c, o, MessageOptions(m.entries), ot))
    <3>1. SdDeserialize(c) = Refused
      BY <2>7, <2>10, ThrownStays, Zenon
    <3>2. n # z
      <4> SUFFICES ASSUME n = z PROVE FALSE
        OBVIOUS
      <4>1. ~(24 + 16 * k <= z)
        BY <1>6, <2>4, <2>10
      <4> QED BY <1>3, <4>1
    <3> QED BY <1>3, <1>4, <3>1, <3>2
  <2> QED BY <2>6, <2>9, <2>10, Zenon DEF EntriesWereRead
<1> QED BY <1>7, <1>8

\* SdDeserialize reads SdPayload back.
LEMMA WholeRead ==
    ASSUME NEW m, SoundMessage(m)
    PROVE  SdDeserialize(SdPayload(m)) = m
<1>1. PICK b \in Seq(Byte), n \in Nat : b = SdPayload(m) /\ n = Len(b)
  <2>1. SdPayload(m) \in Seq(Byte)
    BY WireLength
  <2>2. Len(SdPayload(m)) \in Nat
    BY <2>1
  <2> QED BY <2>1, <2>2, Zenon
<1>2. SubSeq(b, 1, n) = b
  BY <1>1
<1>3. n <= Len(SdPayload(m))
  BY <1>1
<1>4. SdDeserialize(SubSeq(SdPayload(m), 1, n)) = m
  BY <1>1, <1>3, CutRead
<1> QED BY <1>1, <1>2, <1>4

-----------------------------------------------------------------------------
(* The service-discovery messages of an agent *)

SoundEntry(e) == e \in EntryRecords /\ MadeByFactory(e) /\ OptionsAllowed(e)

\* What an entry needs to be made of it.
Arguments(a) ==
    /\ a.serviceId \in Short /\ a.instanceId \in Short /\ a.majorVersion \in Byte
    /\ a.last \in Short \X Short

\* The times to live of an event-group entry.
EventgroupTime(ttl) == ttl \in {0, 16777215}

\* The times to live that the factories of event-group entries write.
LEMMA TimesToLive ==
    /\ 0 \in TimeToLive /\ EventgroupTime(0)
    /\ \E t \in TimeToLive : EventgroupTime(t) /\ \A a : SubscribeEventEntry(a) = NewEntry("Subscribing", a, t)
<1>1. PICK t \in TimeToLive : t = 16777215
  BY SMT DEF TimeToLive
<1>2. EventgroupTime(t) /\ \A a : SubscribeEventEntry(a) = NewEntry("Subscribing", a, t)
  BY <1>1, SMT DEF EventgroupTime, SubscribeEventEntry
<1>3. 0 \in TimeToLive /\ EventgroupTime(0)
  BY SMT DEF TimeToLive, EventgroupTime
<1> QED BY <1>2, <1>3, SMT

HasLists(d, f, g) == d.first = f /\ d.second = g

\* The lists of options of such an entry.
LEMMA ListsWith ==
    ASSUME NEW d, NEW e, NEW f, NEW g, d = With(e, f, g)
    PROVE  HasLists(d, f, g)
BY WithIs DEF HasLists

\* An entry with fields of these kinds.
LEMMA EntryRecordOf ==
    ASSUME NEW t \in DOMAIN EntryType, NEW si \in Short, NEW ii \in Short, NEW v \in Byte,
           NEW ttl \in TimeToLive, NEW last \in Short \X Short,
           NEW f \in Seq(OptionRecords), NEW g \in Seq(OptionRecords)
    PROVE  [type |-> t, serviceId |-> si, instanceId |-> ii, majorVersion |-> v, ttl |-> ttl,
            last |-> last, first |-> f, second |-> g] \in EntryRecords
BY DEF EntryRecords

\* An entry that the constructor makes of such arguments is sound.
LEMMA NewIsSound ==
    ASSUME NEW a, Arguments(a), NEW type \in DOMAIN EntryType, NEW ttl \in TimeToLive,
           type = "Finding" => ttl > 0,
           type \notin ServiceTypes => EventgroupTime(ttl) /\ a.last[1] <= 15,
           NEW e, e = NewEntry(type, a, ttl)
    PROVE  SoundEntry(e) /\ AllOptions(e) = << >>
<1>1. PICK none \in Seq(OptionRecords) : none = << >>
  <2>1. << >> \in Seq(OptionRecords)
    OBVIOUS
  <2> QED BY <2>1, Zenon
<1>2. PICK si \in Short, ii \in Short, v \in Byte, last \in Short \X Short :
          si = a.serviceId /\ ii = a.instanceId /\ v = a.majorVersion /\ last = a.last
  BY Zenon DEF Arguments
<1>3. e = [type |-> type, serviceId |-> si, instanceId |-> ii, majorVersion |-> v, ttl |-> ttl,
           last |-> last, first |-> none, second |-> none]
  BY <1>1, <1>2, Zenon DEF NewEntry
<1>4. e \in EntryRecords
  BY <1>3 DEF EntryRecords
<1>5. e.type = type /\ e.ttl = ttl /\ e.last = a.last /\ e.first = << >> /\ e.second = << >>
  BY <1>1, <1>2, <1>3
<1>6. MadeByFactory(e)
  BY <1>5, SMT DEF MadeByFactory, EventgroupTime
<1>7. AllOptions(e) = << >>
  BY <1>5 DEF AllOptions
<1>8. OptionsAllowed(e)
  <2>1. 1 .. Len(AllOptions(e)) = {}
    BY <1>7
  <2> QED BY <2>1, Zenon DEF OptionsAllowed
<1> QED BY <1>4, <1>6, <1>7, <1>8 DEF SoundEntry

\* The arguments of the model are such arguments.
LEMMA ArgumentsAre ==
    ASSUME NEW a \in EntryArguments
    PROVE  Arguments(a) /\ a.ttl \in TimeToLive
<1>1. a \in [serviceId : Short, instanceId : Short, majorVersion : Byte, ttl : TimeToLive, last : Short \X Short]
  BY DEF EntryArguments
<1> QED BY <1>1 DEF Arguments

\* The factories of service entries make sound ones.
LEMMA ServiceIsSound ==
    ASSUME NEW a \in Services, NEW e \in ServiceEntries(a)
    PROVE  SoundEntry(e) /\ AllOptions(e) = << >>
<1>1. Arguments(a) /\ a.ttl \in TimeToLive /\ a.ttl > 0
  BY ServicesAssumption, ArgumentsAre
<1>2. "Finding" \in DOMAIN EntryType /\ "Offering" \in DOMAIN EntryType
      /\ "Finding" \in ServiceTypes /\ "Offering" \in ServiceTypes
  BY DEF EntryType, ServiceTypes
<1>3. CASE e = FindServiceEntry(a)
  <2>1. e = NewEntry("Finding", a, a.ttl)
    BY <1>3 DEF FindServiceEntry
  <2> QED BY <1>1, <1>2, <2>1, NewIsSound
<1>4. CASE e = OfferServiceEntry(a)
  <2>1. e = NewEntry("Offering", a, a.ttl)
    BY <1>4 DEF OfferServiceEntry
  <2> QED BY <1>1, <1>2, <2>1, NewIsSound
<1>5. CASE e = StopOfferEntry(a)
  <2>1. e = NewEntry("Offering", a, 0)
    BY <1>5 DEF StopOfferEntry
  <2> QED BY <1>1, <1>2, <2>1, TimesToLive, NewIsSound
<1> QED BY <1>3, <1>4, <1>5 DEF ServiceEntries

\* The factories of event-group entries make sound ones.
LEMMA EventgroupIsSound ==
    ASSUME NEW a \in Eventgroups, NEW e \in EventgroupEntries(a)
    PROVE  SoundEntry(e) /\ AllOptions(e) = << >>
<1>1. Arguments(a) /\ a.last[1] <= 15
  BY EventgroupsAssumption, ArgumentsAre
<1>2. "Subscribing" \in DOMAIN EntryType /\ "Acknowledging" \in DOMAIN EntryType
      /\ "Subscribing" # "Finding" /\ "Acknowledging" # "Finding"
  BY DEF EntryType
<1>3. PICK t \in TimeToLive :
          EventgroupTime(t) /\ \A x : SubscribeEventEntry(x) = NewEntry("Subscribing", x, t)
  BY TimesToLive
<1>4. PICK s : s = SubscribeEventEntry(a) /\ s = NewEntry("Subscribing", a, t)
  BY <1>3
<1>5. Arguments(s) /\ s.last[1] <= 15 /\ s.ttl = t
  <2>1. /\ s.serviceId = a.serviceId /\ s.instanceId = a.instanceId /\ s.majorVersion = a.majorVersion
        /\ s.last = a.last /\ s.ttl = t
    BY <1>4 DEF NewEntry
  <2> QED BY <1>1, <2>1 DEF Arguments
<1>6. CASE e = s
  BY <1>1, <1>2, <1>3, <1>4, <1>6, NewIsSound
<1>7. CASE e = UnsubscribeEventEntry(a)
  <2>1. e = NewEntry("Subscribing", a, 0)
    BY <1>7 DEF UnsubscribeEventEntry
  <2> QED BY <1>1, <1>2, <2>1, TimesToLive, NewIsSound
<1>8. CASE e = AcknowledgeEntry(s)
  <2>1. e = NewEntry("Acknowledging", s, t)
    BY <1>5, <1>8 DEF AcknowledgeEntry
  <2> QED BY <1>2, <1>3, <1>5, <2>1, NewIsSound
<1>9. CASE e = NegativeAcknowledgeEntry(s)
  <2>1. e = NewEntry("Acknowledging", s, 0)
    BY <1>9 DEF NegativeAcknowledgeEntry
  <2> QED BY <1>2, <1>5, <2>1, TimesToLive, NewIsSound
<1> QED BY <1>4, <1>6, <1>7, <1>8, <1>9 DEF EventgroupEntries

\* D is A with o in the p-th place.
Inserted(D, A, n, p, o) ==
    /\ Len(A) = n /\ Len(D) = n + 1 /\ p \in 1 .. (n + 1) /\ D[p] = o
    /\ \A i \in 1 .. (n + 1) : i < p => D[i] = A[i]
    /\ \A i \in 1 .. (n + 1) : p < i => D[i] = A[i - 1]

\* A valid option may be added wherever it is added.
LEMMA InsertAllowed ==
    ASSUME NEW e \in EntryRecords, OptionsAllowed(e), NEW o, ValidateOption(e, o), NEW d,
           \A x : KindAllowed(d, x) = KindAllowed(e, x),
           NEW n \in Nat, NEW p, Inserted(AllOptions(d), AllOptions(e), n, p, o)
    PROVE  OptionsAllowed(d)
<1>1. PICK D, A : D = AllOptions(d) /\ A = AllOptions(e)
  OBVIOUS
<1>2. /\ Len(A) = n /\ Len(D) = n + 1 /\ p \in 1 .. (n + 1) /\ D[p] = o
      /\ \A i \in 1 .. (n + 1) : i < p => D[i] = A[i]
      /\ \A i \in 1 .. (n + 1) : p < i => D[i] = A[i - 1]
  BY <1>1 DEF Inserted
<1>3. KindAllowed(e, o) /\ (o.type \in Single => ~ContainsOption(e, o.type))
  BY ValidateIs
<1>4. \A i \in 1 .. n : o.type \in Single => A[i].type # o.type
  <2> SUFFICES ASSUME NEW i \in 1 .. n, o.type \in Single, A[i].type = o.type PROVE FALSE
    OBVIOUS
  <2>1. i \in DOMAIN A
    <3>1. A \in Seq(OptionRecords)
      BY <1>1, AllOptionsIs
    <3> QED BY <1>2, <3>1
  <2> QED BY <1>1, <1>3, <2>1 DEF ContainsOption
<1>5. /\ \A i \in 1 .. n : KindAllowed(e, A[i])
      /\ \A i, j \in 1 .. n : i # j /\ A[i].type = A[j].type => A[i].type \notin Single
  BY <1>1, <1>2 DEF OptionsAllowed
<1>6. ASSUME NEW i \in 1 .. (n + 1) PROVE KindAllowed(d, D[i])
  <2>1. CASE i < p
    <3>1. i \in 1 .. n
      BY <1>2, <2>1
    <3> QED BY <1>2, <1>5, <2>1, <3>1
  <2>2. CASE i = p
    BY <1>2, <1>3, <2>2
  <2>3. CASE p < i
    <3>1. i - 1 \in 1 .. n
      BY <1>2, <2>3
    <3> QED BY <1>2, <1>5, <2>3, <3>1
  <2> QED BY <1>2, <2>1, <2>2, <2>3
<1>7. ASSUME NEW i \in 1 .. (n + 1), NEW j \in 1 .. (n + 1), i < j, D[i].type = D[j].type
      PROVE  D[i].type \notin Single
  <2>1. CASE j < p
    <3>1. i \in 1 .. n /\ j \in 1 .. n /\ i < p /\ i # j
      BY <1>2, <1>7, <2>1
    <3>2. D[i] = A[i] /\ D[j] = A[j]
      BY <1>2, <2>1, <3>1
    <3> QED BY <1>5, <1>7, <3>1, <3>2
  <2>2. CASE j = p
    <3>1. i \in 1 .. n /\ i < p
      BY <1>2, <1>7, <2>2
    <3>2. D[i] = A[i] /\ D[j] = o
      BY <1>2, <2>2, <3>1
    <3> QED BY <1>4, <1>7, <3>1, <3>2
  <2>3. CASE p < j /\ i < p
    <3>1. i \in 1 .. n /\ j - 1 \in 1 .. n /\ i # j - 1
      BY <1>2, <1>7, <2>3
    <3>2. D[i] = A[i] /\ D[j] = A[j - 1]
      BY <1>2, <2>3, <3>1
    <3> QED BY <1>5, <1>7, <3>1, <3>2
  <2>4. CASE p < j /\ i = p
    <3>1. j - 1 \in 1 .. n
      BY <1>2, <2>4
    <3>2. D[i] = o /\ D[j] = A[j - 1]
      BY <1>2, <2>4, <3>1
    <3> QED BY <1>4, <1>7, <3>1, <3>2
  <2>5. CASE p < j /\ p < i
    <3>1. i - 1 \in 1 .. n /\ j - 1 \in 1 .. n /\ i - 1 # j - 1
      BY <1>2, <1>7, <2>5
    <3>2. D[i] = A[i - 1] /\ D[j] = A[j - 1]
      BY <1>2, <2>5, <3>1
    <3> QED BY <1>5, <1>7, <3>1, <3>2
  <2> QED BY <1>2, <2>1, <2>2, <2>3, <2>4, <2>5
<1>8. ASSUME NEW i \in 1 .. (n + 1), NEW j \in 1 .. (n + 1), i # j, D[i].type = D[j].type
      PROVE  D[i].type \notin Single
  <2>1. CASE i < j
    BY <1>7, <1>8, <2>1
  <2>2. CASE j < i
    BY <1>7, <1>8, <2>2
  <2> QED BY <1>8, <2>1, <2>2
<1> QED BY <1>1, <1>2, <1>6, <1>8 DEF OptionsAllowed

\* An option that is valid keeps the entry sound.
LEMMA StaysSound ==
    ASSUME NEW e, SoundEntry(e), NEW o \in OptionRecords, ValidateOption(e, o),
           NEW field \in {"first", "second"}, NEW d, d = [e EXCEPT ![field] = Append(@, o)]
    PROVE  SoundEntry(d) /\ Len(AllOptions(d)) = Len(AllOptions(e)) + 1
<1>1. PICK f \in Seq(OptionRecords), g \in Seq(OptionRecords) :
          f = e.first /\ g = e.second /\ e = With(e, f, g) /\ e \in EntryRecords
  BY EntryIs DEF SoundEntry
<1>2. PICK f2 \in Seq(OptionRecords), g2 \in Seq(OptionRecords) :
          /\ d = With(e, f2, g2)
          /\ (f2 = Append(f, o) /\ g2 = g) \/ (f2 = f /\ g2 = Append(g, o))
  <2>0. PICK w : w = With(e, f, g) /\ w = e
    BY <1>1
  <2>1. CASE field = "first"
    <3>1. d = With(e, Append(f, o), g)
      <4>1. [With(e, f, g) EXCEPT !["first"] = Append(@, o)] = With(e, Append(f, o), g)
        BY WithAppended
      <4>2. d = [e EXCEPT !["first"] = Append(@, o)]
        BY <2>1
      <4>3. [w EXCEPT !["first"] = Append(@, o)] = With(e, Append(f, o), g)
        BY <2>0, <4>1
      <4> QED BY <2>0, <4>2, <4>3
    <3>2. Append(f, o) \in Seq(OptionRecords)
      OBVIOUS
    <3> QED BY <3>1, <3>2, Zenon
  <2>2. CASE field = "second"
    <3>1. d = With(e, f, Append(g, o))
      <4>1. [With(e, f, g) EXCEPT !["second"] = Append(@, o)] = With(e, f, Append(g, o))
        BY WithAppended
      <4>2. d = [e EXCEPT !["second"] = Append(@, o)]
        BY <2>2
      <4>3. [w EXCEPT !["second"] = Append(@, o)] = With(e, f, Append(g, o))
        BY <2>0, <4>1
      <4> QED BY <2>0, <4>2, <4>3
    <3>2. Append(g, o) \in Seq(OptionRecords)
      OBVIOUS
    <3> QED BY <3>1, <3>2, Zenon
  <2> QED BY <2>1, <2>2
<1>3. d \in EntryRecords
  <2>1. PICK t \in DOMAIN EntryType, si \in Short, ii \in Short, v \in Byte, ttl \in TimeToLive, last \in Short \X Short :
            /\ t = e.type /\ si = e.serviceId /\ ii = e.instanceId /\ v = e.majorVersion
            /\ ttl = e.ttl /\ last = e.last
    BY <1>1 DEF EntryRecords
  <2>2. d = [type |-> t, serviceId |-> si, instanceId |-> ii, majorVersion |-> v, ttl |-> ttl,
             last |-> last, first |-> f2, second |-> g2]
    BY <1>2, <2>1, Zenon DEF With
  <2>3. [type |-> t, serviceId |-> si, instanceId |-> ii, majorVersion |-> v, ttl |-> ttl,
         last |-> last, first |-> f2, second |-> g2] \in EntryRecords
    BY EntryRecordOf, Zenon
  <2> QED BY <2>2, <2>3, Zenon
<1>4. d.type = e.type /\ d.ttl = e.ttl /\ d.last = e.last
  BY <1>2, Zenon DEF With
<1>5. MadeByFactory(d)
  BY <1>4, SMT DEF MadeByFactory, SoundEntry
<1>6. PICK n \in Nat, p \in Nat : Inserted(AllOptions(d), AllOptions(e), n, p, o)
  <2>1. PICK a \in Nat, b \in Nat : a = Len(f) /\ b = Len(g)
    OBVIOUS
  <2>2. /\ Len(AllOptions(e)) = a + b
        /\ \A i \in 1 .. a : AllOptions(e)[i] = f[i]
        /\ \A i \in 1 .. b : AllOptions(e)[a + i] = g[i]
    BY <1>1, <2>1, AllOptionsIs
  <2>3. /\ Len(AllOptions(d)) = Len(f2) + Len(g2)
        /\ \A i \in 1 .. Len(f2) : AllOptions(d)[i] = f2[i]
        /\ \A i \in 1 .. Len(g2) : AllOptions(d)[Len(f2) + i] = g2[i]
    <3>1. d.first = f2 /\ d.second = g2
      <4>1. d = With(e, f2, g2)
        BY <1>2
      <4>2. HasLists(d, f2, g2)
        BY <4>1, ListsWith, Zenon
      <4> QED BY <4>2, Zenon DEF HasLists
    <3>2. /\ Len(AllOptions(d)) = Len(d.first) + Len(d.second)
          /\ \A i \in 1 .. Len(d.first) : AllOptions(d)[i] = d.first[i]
          /\ \A i \in 1 .. Len(d.second) : AllOptions(d)[Len(d.first) + i] = d.second[i]
      BY <1>3, AllOptionsIs
    <3> QED BY <3>1, <3>2
  <2>4. CASE f2 = Append(f, o) /\ g2 = g
    <3>1. Len(f2) = a + 1 /\ Len(g2) = b /\ f2[a + 1] = o /\ \A i \in 1 .. a : f2[i] = f[i]
      BY <2>1, <2>4
    <3>2. Len(AllOptions(d)) = (a + b) + 1 /\ a + 1 \in 1 .. ((a + b) + 1) /\ AllOptions(d)[a + 1] = o
      <4>1. a + 1 \in 1 .. (a + 1) /\ (a + 1) + b = (a + b) + 1 /\ a + 1 \in 1 .. ((a + b) + 1)
        OBVIOUS
      <4>2. AllOptions(d)[a + 1] = o /\ Len(AllOptions(d)) = (a + 1) + b
        BY <2>3, <3>1, <4>1
      <4> QED BY <4>1, <4>2
    <3>3. ASSUME NEW i \in 1 .. ((a + b) + 1), i < a + 1 PROVE AllOptions(d)[i] = AllOptions(e)[i]
      <4>1. i \in 1 .. a /\ i \in 1 .. (a + 1)
        BY <3>3
      <4> QED BY <2>2, <2>3, <3>1, <4>1
    <3>4. ASSUME NEW i \in 1 .. ((a + b) + 1), a + 1 < i PROVE AllOptions(d)[i] = AllOptions(e)[i - 1]
      <4>1. PICK j \in 1 .. b : i = (a + 1) + j /\ i - 1 = a + j
        <5>1. i - (a + 1) \in 1 .. b /\ i = (a + 1) + (i - (a + 1)) /\ i - 1 = a + (i - (a + 1))
          BY <3>4
        <5> QED BY <5>1
      <4>2. AllOptions(d)[(a + 1) + j] = g2[j] /\ AllOptions(e)[a + j] = g[j]
        BY <2>2, <2>3, <3>1
      <4> QED BY <2>4, <4>1, <4>2
    <3>5. Inserted(AllOptions(d), AllOptions(e), a + b, a + 1, o)
      BY <2>2, <3>2, <3>3, <3>4 DEF Inserted
    <3>6. a + b \in Nat /\ a + 1 \in Nat
      OBVIOUS
    <3> QED BY <3>5, <3>6
  <2>5. CASE f2 = f /\ g2 = Append(g, o)
    <3>1. Len(f2) = a /\ Len(g2) = b + 1 /\ g2[b + 1] = o /\ \A i \in 1 .. b : g2[i] = g[i]
      BY <2>1, <2>5
    <3>2. Len(AllOptions(d)) = (a + b) + 1 /\ (a + b) + 1 \in 1 .. ((a + b) + 1) /\ AllOptions(d)[(a + b) + 1] = o
      <4>1. b + 1 \in 1 .. (b + 1) /\ a + (b + 1) = (a + b) + 1
        OBVIOUS
      <4>2. AllOptions(d)[a + (b + 1)] = o /\ Len(AllOptions(d)) = a + (b + 1)
        BY <2>3, <3>1, <4>1
      <4> QED BY <4>1, <4>2
    <3>3. ASSUME NEW i \in 1 .. ((a + b) + 1), i < (a + b) + 1 PROVE AllOptions(d)[i] = AllOptions(e)[i]
      <4>1. CASE i <= a
        <5>1. i \in 1 .. a
          BY <4>1
        <5> QED BY <2>2, <2>3, <2>5, <3>1, <5>1
      <4>2. CASE ~(i <= a)
        <5>1. PICK j \in 1 .. b : i = a + j
          <6>1. i - a \in 1 .. b /\ i = a + (i - a)
            BY <3>3, <4>2
          <6> QED BY <6>1
        <5>2. AllOptions(d)[a + j] = g2[j] /\ AllOptions(e)[a + j] = g[j] /\ g2[j] = g[j]
          <6>1. j \in 1 .. (b + 1)
            OBVIOUS
          <6>2. AllOptions(d)[a + j] = g2[j]
            BY <2>3, <3>1, <6>1
          <6> QED BY <2>2, <3>1, <6>2
        <5> QED BY <5>1, <5>2
      <4> QED BY <4>1, <4>2
    <3>4. ASSUME NEW i \in 1 .. ((a + b) + 1), (a + b) + 1 < i PROVE AllOptions(d)[i] = AllOptions(e)[i - 1]
      BY <3>4
    <3>5. Inserted(AllOptions(d), AllOptions(e), a + b, (a + b) + 1, o)
      BY <2>2, <3>2, <3>3, <3>4 DEF Inserted
    <3>6. a + b \in Nat /\ (a + b) + 1 \in Nat
      OBVIOUS
    <3> QED BY <3>5, <3>6
  <2> QED BY <1>2, <2>4, <2>5
<1>7. \A x : KindAllowed(d, x) = KindAllowed(e, x)
  BY <1>4, Zenon DEF KindAllowed, isAcknowledge
<1>8. OptionsAllowed(d)
  BY <1>1, <1>6, <1>7, InsertAllowed DEF SoundEntry
<1>9. Len(AllOptions(d)) = Len(AllOptions(e)) + 1
  BY <1>6 DEF Inserted
<1> QED BY <1>3, <1>5, <1>8, <1>9 DEF SoundEntry

\* The entry under construction and those of the message are sound, and there are
\* few enough of them.
EntriesInv ==
    /\ entry = NoEntry \/ SoundEntry(entry)
    /\ mEntries \in Seq(EntryRecords) /\ \A k \in 1 .. Len(mEntries) : SoundEntry(mEntries[k])
    /\ Len(mEntries) <= MaxEntries /\ Len(MessageOptions(mEntries)) <= MaxOptions
    /\ entry # NoEntry =>
          Len(mEntries) < MaxEntries /\ Len(MessageOptions(Append(mEntries, entry))) <= MaxOptions

\* What was sent is the payload of a message of that kind.
SentInv ==
    /\ mSessionId \in 1 .. MaxSession /\ mRebooted \in BOOLEAN
    /\ wire # NoWire =>
          /\ SoundMessage(wire.message) /\ wire.bytes = SdPayload(wire.message)
          /\ parsed \in {NothingYet, Refused, wire.message}

WireInv == EntriesInv /\ SentInv

\* The message that is sent is sound.
LEMMA SentIsSound ==
    ASSUME WireInv, NEW m,
           m = [is |-> "message", sessionId |-> mSessionId, rebooted |-> mRebooted, entries |-> mEntries]
    PROVE  SoundMessage(m)
<1>1. m.sessionId = mSessionId /\ m.rebooted = mRebooted /\ m.entries = mEntries
  OBVIOUS
<1>2. mSessionId \in Short /\ mRebooted \in BOOLEAN
  BY SessionAssumption DEF WireInv, SentInv, Short
<1>3. GoodEntries(mEntries)
  <2>1. mEntries \in Seq(EntryRecords) /\ Len(mEntries) <= MaxEntries /\ Len(MessageOptions(mEntries)) <= MaxOptions
    BY DEF WireInv, EntriesInv
  <2>2. \A k \in 1 .. Len(mEntries) : MadeByFactory(mEntries[k])
    BY Zenon DEF WireInv, EntriesInv, SoundEntry
  <2>3. Len(mEntries) \in Nat /\ Len(MessageOptions(mEntries)) \in Nat
    BY <2>1, MessageOptionsIn
  <2>4. Len(mEntries) <= 4095 /\ Len(MessageOptions(mEntries)) <= 15
    <3>1. PICK x \in Nat, y \in Nat : x = Len(mEntries) /\ y = Len(MessageOptions(mEntries))
      BY <2>3
    <3>2. x <= MaxEntries /\ y <= MaxOptions
      BY <2>1, <3>1
    <3>3. x <= 4095 /\ y <= 15
      BY <3>2, BoundsAssumption
    <3> QED BY <3>1, <3>3
  <2> QED BY <2>1, <2>2, <2>4 DEF GoodEntries
<1>4. SoundEntries(mEntries)
  BY <1>3, Zenon DEF SoundEntries, WireInv, EntriesInv, SoundEntry
<1>5. GoodMessage(m)
  <2>1. m = [is |-> "message", sessionId |-> m.sessionId, rebooted |-> m.rebooted, entries |-> m.entries]
    OBVIOUS
  <2> QED BY <1>1, <1>2, <1>3, <2>1, Zenon DEF GoodMessage
<1> QED BY <1>1, <1>4, <1>5 DEF SoundMessage

\* The inductive invariant holds in the beginning.
LEMMA WireStarts == WireInit => WireInv
<1> SUFFICES ASSUME WireInit PROVE WireInv
  OBVIOUS
<1>1. entry = NoEntry /\ mSessionId = 1 /\ mRebooted = TRUE /\ mEntries = << >> /\ wire = NoWire
  BY DEF WireInit
<1>2. Len(MessageOptions(<< >>)) = 0
  <2>1. PICK none \in Seq(EntryRecords) : none = << >> /\ Len(none) = 0
    <3>1. << >> \in Seq(EntryRecords) /\ Len(<< >>) = 0
      OBVIOUS
    <3> QED BY <3>1, Zenon
  <2>2. PICK at : Flat(MessageOptions(none), OptionLists(none), at, OptionRecords)
    BY OptionsFlat
  <2>3. 0 <= Len(none) /\ \A k \in 1 .. 0 : none[k] = none[k]
    BY <2>1
  <2>4. Len(MessageOptions(none)) = at[0] /\ at[0] = 0
    BY <2>1, <2>2, ListsAre DEF Flat, Offsets
  <2> QED BY <2>1, <2>4
<1>3. EntriesInv
  <2>1. << >> \in Seq(EntryRecords) /\ Len(<< >>) = 0
    OBVIOUS
  <2> QED BY <1>1, <1>2, <2>1, BoundsAssumption DEF EntriesInv
<1>4. SentInv
  BY <1>1, SessionAssumption DEF SentInv, Short
<1> QED BY <1>3, <1>4 DEF WireInv

\* The factories of entries keep it.
LEMMA CreateKeeps ==
    ASSUME WireInv, NEW e, SoundEntry(e), AllOptions(e) = << >>, CreateEntry(e)
    PROVE  WireInv'
<1>1. /\ wire = NoWire /\ Len(mEntries) < MaxEntries
      /\ entry' = e /\ mSessionId' = mSessionId /\ mRebooted' = mRebooted /\ mEntries' = mEntries
      /\ wire' = wire /\ parsed' = parsed
  BY DEF CreateEntry
<1>2. mEntries \in Seq(EntryRecords) /\ e \in EntryRecords
  BY DEF WireInv, EntriesInv, SoundEntry
<1>3. Len(MessageOptions(Append(mEntries, e))) = Len(MessageOptions(mEntries))
  <2>1. Len(MessageOptions(Append(mEntries, e))) = Len(MessageOptions(mEntries)) + Len(AllOptions(e))
    BY <1>2, OptionsAppended
  <2>2. Len(MessageOptions(mEntries)) \in Nat /\ Len(AllOptions(e)) = 0
    BY <1>2, MessageOptionsIn
  <2> QED BY <2>1, <2>2
<1>4. EntriesInv'
  BY <1>1, <1>3 DEF WireInv, EntriesInv
<1>5. SentInv'
  BY <1>1 DEF WireInv, SentInv
<1> QED BY <1>4, <1>5 DEF WireInv

\* AddFirstOption and AddSecondOption keep it: they throw when ValidateOption
\* refuses the option.
LEMMA AddOptionKeeps ==
    ASSUME WireInv, NEW o \in OptionRecords, NEW field \in {"first", "second"}, AddOption(field, o)
    PROVE  WireInv'
<1>1. /\ entry # NoEntry /\ Len(MessageOptions(Append(mEntries, entry))) < MaxOptions
      /\ ValidateOption(entry, o) /\ entry' = [entry EXCEPT ![field] = Append(@, o)]
      /\ mSessionId' = mSessionId /\ mRebooted' = mRebooted /\ mEntries' = mEntries
      /\ wire' = wire /\ parsed' = parsed
  BY DEF AddOption
<1>2. SoundEntry(entry) /\ mEntries \in Seq(EntryRecords)
  BY <1>1 DEF WireInv, EntriesInv
<1>3. SoundEntry(entry') /\ Len(AllOptions(entry')) = Len(AllOptions(entry)) + 1
  BY <1>1, <1>2, StaysSound
<1>4. Len(MessageOptions(Append(mEntries, entry'))) <= MaxOptions
  <2>1. entry \in EntryRecords /\ entry' \in EntryRecords
    BY <1>2, <1>3 DEF SoundEntry
  <2>2. PICK a \in Nat, b \in Nat : a = Len(MessageOptions(mEntries)) /\ b = Len(AllOptions(entry))
    <3>1. Len(MessageOptions(mEntries)) \in Nat
      BY <1>2, MessageOptionsIn
    <3>2. Len(AllOptions(entry)) \in Nat
      <4>1. AllOptions(entry) \in Seq(OptionRecords)
        BY <2>1, AllOptionsIs
      <4> QED BY <4>1
    <3> QED BY <3>1, <3>2
  <2>3. Len(MessageOptions(Append(mEntries, entry))) = a + b
    BY <1>2, <2>1, <2>2, OptionsAppended
  <2>4. Len(MessageOptions(Append(mEntries, entry'))) = a + (b + 1)
    BY <1>2, <1>3, <2>1, <2>2, OptionsAppended
  <2> QED BY <1>1, <2>2, <2>3, <2>4, BoundsAssumption
<1>5. EntriesInv'
  BY <1>1, <1>3, <1>4 DEF WireInv, EntriesInv
<1>6. SentInv'
  BY <1>1 DEF WireInv, SentInv
<1> QED BY <1>5, <1>6 DEF WireInv

\* AddEntry keeps it.
LEMMA AddEntryKeeps ==
    ASSUME WireInv, AddEntry
    PROVE  WireInv'
<1>1. /\ entry # NoEntry /\ mEntries' = Append(mEntries, entry) /\ entry' = NoEntry
      /\ mSessionId' = mSessionId /\ mRebooted' = mRebooted /\ wire' = wire /\ parsed' = parsed
  BY DEF AddEntry
<1>2. /\ SoundEntry(entry) /\ entry \in EntryRecords /\ mEntries \in Seq(EntryRecords)
      /\ Len(mEntries) < MaxEntries /\ Len(MessageOptions(Append(mEntries, entry))) <= MaxOptions
  BY <1>1 DEF WireInv, EntriesInv, SoundEntry
<1>3. PICK n \in Nat : n = Len(mEntries)
  BY <1>2
<1>4. PICK more \in Seq(EntryRecords) :
          more = Append(mEntries, entry) /\ Len(more) = n + 1 /\ more[n + 1] = entry
          /\ \A k \in 1 .. n : more[k] = mEntries[k]
  <2>1. PICK s \in Seq(EntryRecords), e \in EntryRecords : s = mEntries /\ e = entry /\ n = Len(s)
    BY <1>2, <1>3
  <2>2. /\ Append(s, e) \in Seq(EntryRecords) /\ Len(Append(s, e)) = n + 1 /\ Append(s, e)[n + 1] = e
        /\ \A k \in 1 .. n : Append(s, e)[k] = s[k]
    BY <2>1
  <2> QED BY <2>1, <2>2, Zenon
<1>5. ASSUME NEW k \in 1 .. (n + 1) PROVE SoundEntry(more[k])
  <2>1. CASE k = n + 1
    BY <1>2, <1>4, <2>1
  <2>2. CASE k # n + 1
    <3>1. k \in 1 .. n
      BY <2>2
    <3>2. SoundEntry(mEntries[k])
      BY <1>3, <3>1 DEF WireInv, EntriesInv
    <3> QED BY <1>4, <3>1, <3>2
  <2> QED BY <2>1, <2>2
<1>6. EntriesInv'
  <2>1. n + 1 <= MaxEntries
    BY <1>2, <1>3, BoundsAssumption
  <2> QED BY <1>1, <1>2, <1>4, <1>5, <2>1 DEF EntriesInv
<1>7. SentInv'
  BY <1>1 DEF WireInv, SentInv
<1> QED BY <1>6, <1>7 DEF WireInv

\* IncrementSessionId keeps it.
LEMMA IncrementKeeps ==
    ASSUME WireInv, IncrementSessionId
    PROVE  WireInv'
<1>1. /\ wire' = NoWire /\ entry' = entry /\ mEntries' = mEntries
      /\ mSessionId' = IF mSessionId = MaxSession THEN 1 ELSE mSessionId + 1
      /\ mRebooted' = (mRebooted /\ mSessionId # MaxSession)
  BY DEF IncrementSessionId
<1>2. mSessionId' \in 1 .. MaxSession
  BY <1>1, SessionAssumption DEF WireInv, SentInv, Short
<1>3. mRebooted' \in BOOLEAN
  BY <1>1
<1>4. SentInv'
  BY <1>1, <1>2, <1>3 DEF SentInv
<1>5. EntriesInv'
  BY <1>1 DEF WireInv, EntriesInv
<1> QED BY <1>4, <1>5 DEF WireInv

\* What Payload writes is that of a sound message.
LEMMA SdSendKeeps ==
    ASSUME WireInv, SdSend
    PROVE  WireInv'
<1>1. PICK m : m = [is |-> "message", sessionId |-> mSessionId, rebooted |-> mRebooted, entries |-> mEntries]
  OBVIOUS
<1>2. /\ wire' = [bytes |-> SdPayload(m), message |-> m] /\ parsed' = NothingYet
      /\ entry' = entry /\ mSessionId' = mSessionId /\ mRebooted' = mRebooted /\ mEntries' = mEntries
  BY <1>1, Zenon DEF SdSend
<1>3. SoundMessage(m)
  BY <1>1, SentIsSound
<1>4. wire'.message = m /\ wire'.bytes = SdPayload(m)
  BY <1>2
<1>5. SentInv'
  BY <1>2, <1>3, <1>4 DEF WireInv, SentInv
<1>6. EntriesInv'
  BY <1>2 DEF WireInv, EntriesInv
<1> QED BY <1>5, <1>6 DEF WireInv

\* Deserialize reads it back, or refuses it when it is cut.
LEMMA SdReceiveKeeps ==
    ASSUME WireInv, NEW n \in cHeaderSize .. Len(wire.bytes), SdReceive(n)
    PROVE  WireInv'
<1>1. /\ wire # NoWire /\ parsed' = SdDeserialize(SubSeq(wire.bytes, 1, n)) /\ wire' = wire
      /\ entry' = entry /\ mSessionId' = mSessionId /\ mRebooted' = mRebooted /\ mEntries' = mEntries
  BY DEF SdReceive
<1>2. PICK m : m = wire.message /\ SoundMessage(m) /\ wire.bytes = SdPayload(m)
  BY <1>1 DEF WireInv, SentInv
<1>3. n \in Nat /\ n <= Len(SdPayload(m))
  <2>1. Len(SdPayload(m)) \in Nat
    BY <1>2, WireLength
  <2> QED BY <1>2, <2>1 DEF cHeaderSize
<1>4. SdDeserialize(SubSeq(SdPayload(m), 1, n)) \in {Refused, m}
  BY <1>2, <1>3, CutRead
<1>5. SentInv'
  BY <1>1, <1>2, <1>4 DEF WireInv, SentInv
<1>6. EntriesInv'
  BY <1>1 DEF WireInv, EntriesInv
<1> QED BY <1>5, <1>6 DEF WireInv

\* Every step keeps the invariant; the stream of requests does not touch it.
LEMMA WireSteps == WireInv /\ [SdNext \/ StreamNext]_wireVars => WireInv'
<1> SUFFICES ASSUME WireInv, [SdNext \/ StreamNext]_wireVars PROVE WireInv'
  OBVIOUS
<1>1. ASSUME NEW a \in Services, NEW e \in ServiceEntries(a), CreateEntry(e) PROVE WireInv'
  BY <1>1, ServiceIsSound, CreateKeeps
<1>2. ASSUME NEW a \in Eventgroups, NEW e \in EventgroupEntries(a), CreateEntry(e) PROVE WireInv'
  BY <1>2, EventgroupIsSound, CreateKeeps
<1>3. ASSUME NEW o \in Options, NEW field \in {"first", "second"}, AddOption(field, o) PROVE WireInv'
  <2>1. o \in OptionRecords
    BY OptionsAssumption
  <2> QED BY <1>3, <2>1, AddOptionKeeps
<1>4. CASE AddEntry
  BY <1>4, AddEntryKeeps
<1>5. CASE IncrementSessionId
  BY <1>5, IncrementKeeps
<1>6. CASE SdSend
  BY <1>6, SdSendKeeps
<1>7. ASSUME NEW n \in cHeaderSize .. Len(wire.bytes), SdReceive(n) PROVE WireInv'
  BY <1>7, SdReceiveKeeps
<1>8. CASE UNCHANGED sdVars
  <2>1. entry' = entry /\ mSessionId' = mSessionId /\ mRebooted' = mRebooted /\ mEntries' = mEntries
        /\ wire' = wire /\ parsed' = parsed
    BY <1>8 DEF sdVars
  <2> QED BY <2>1 DEF WireInv, EntriesInv, SentInv
<1>9. StreamNext => UNCHANGED sdVars
  BY Zenon DEF StreamNext, RpcSend, RpcReceive
<1>10. UNCHANGED wireVars => UNCHANGED sdVars
  BY DEF wireVars
<1>11. CASE SdNext
  BY <1>1, <1>2, <1>3, <1>4, <1>5, <1>6, <1>7, <1>11, Zenon DEF SdNext
<1> QED BY <1>8, <1>9, <1>10, <1>11, Zenon

\* RoundTrip, for all services, event groups and options and however many of them
\* a message holds: what SomeIpSdMessage::Payload writes is as long as its header
\* says, and Deserialize reads it back as the message that was sent; a datagram
\* that is cut is read as that message or refused, never as another one.
THEOREM MessagesAlwaysRoundTrip == WireSpec => []RoundTrip
<1>1. WireInv => RoundTrip
  <2> SUFFICES ASSUME WireInv, wire # NoWire
               PROVE  /\ parsed \in {NothingYet, Refused, wire.message}
                      /\ SdDeserialize(wire.bytes) = wire.message
                      /\ 8 + Number(ExtractInteger(wire.bytes, 4)) = Len(wire.bytes)
    BY Zenon DEF RoundTrip
  <2>1. /\ SoundMessage(wire.message) /\ wire.bytes = SdPayload(wire.message)
        /\ parsed \in {NothingYet, Refused, wire.message}
    BY Zenon DEF WireInv, SentInv
  <2> QED BY <2>1, WholeRead, WireLength
<1> QED BY <1>1, WireStarts, WireSteps, PTL DEF WireSpec

-----------------------------------------------------------------------------
(* The CRC of CheckpointChannel *)

Bits == 0 .. 1
Weights == {128, 64, 32, 16, 8, 4, 2, 1}
Sum8(p, q, r, s, t, u, v, w) == 128 * p + 64 * q + 32 * r + 16 * s + 8 * t + 4 * u + 2 * v + w

\* A byte is the sum of its bits.
LEMMA ByteIsBits ==
    \A a \in Byte :
        /\ a = Sum8(Bit(a, 128), Bit(a, 64), Bit(a, 32), Bit(a, 16), Bit(a, 8), Bit(a, 4), Bit(a, 2), Bit(a, 1))
        /\ \A w \in Weights : Bit(a, w) \in Bits
<1> SUFFICES ASSUME NEW a \in Byte
    PROVE  /\ a = Sum8(Bit(a, 128), Bit(a, 64), Bit(a, 32), Bit(a, 16), Bit(a, 8), Bit(a, 4), Bit(a, 2), Bit(a, 1))
        /\ \A w \in Weights : Bit(a, w) \in Bits
  OBVIOUS
<1>1. a = Sum8(Bit(a, 128), Bit(a, 64), Bit(a, 32), Bit(a, 16), Bit(a, 8), Bit(a, 4), Bit(a, 2), Bit(a, 1))
  BY DEF Byte, Sum8, Bit
<1>2. \A w \in Weights : Bit(a, w) \in Bits
  BY DEF Byte, Bit, Bits, Weights
<1> QED BY <1>1, <1>2

\* The exclusive or of two bytes is a byte, and its bits are those of the two
\* added.
LEMMA XorIsSum ==
    ASSUME NEW a \in Byte, NEW b \in Byte
    PROVE  /\ XorByte(a, b) = Sum8(XorBit(a, b, 128), XorBit(a, b, 64), XorBit(a, b, 32), XorBit(a, b, 16),
                                   XorBit(a, b, 8), XorBit(a, b, 4), XorBit(a, b, 2), XorBit(a, b, 1))
           /\ XorByte(a, b) \in Byte
           /\ \A w \in Weights : Bit(XorByte(a, b), w) = XorBit(a, b, w)
<1>1. XorByte(a, b) = Sum8(XorBit(a, b, 128), XorBit(a, b, 64), XorBit(a, b, 32), XorBit(a, b, 16),
                           XorBit(a, b, 8), XorBit(a, b, 4), XorBit(a, b, 2), XorBit(a, b, 1))
  BY DEF XorByte, Sum8
<1>2. \A w \in Weights : Bit(a, w) \in Bits /\ Bit(b, w) \in Bits
  BY ByteIsBits
<1>3. \A w \in Weights : XorBit(a, b, w) \in Bits
  BY <1>2 DEF XorBit, Bits
<1>4. /\ XorByte(a, b) \in Byte
      /\ \A w \in Weights : Bit(XorByte(a, b), w) = XorBit(a, b, w)
  <2>1. PICK p \in Bits, q \in Bits, r \in Bits, s \in Bits, t \in Bits, u \in Bits, v \in Bits, w \in Bits :
           /\ p = XorBit(a, b, 128) /\ q = XorBit(a, b, 64) /\ r = XorBit(a, b, 32) /\ s = XorBit(a, b, 16)
           /\ t = XorBit(a, b, 8) /\ u = XorBit(a, b, 4) /\ v = XorBit(a, b, 2) /\ w = XorBit(a, b, 1)
    BY <1>3 DEF Weights
  <2>2. PICK x : x = XorByte(a, b) /\ x = Sum8(p, q, r, s, t, u, v, w)
    BY <1>1, <2>1
  <2>3. /\ x \in Byte
        /\ Bit(x, 128) = p /\ Bit(x, 64) = q /\ Bit(x, 32) = r /\ Bit(x, 16) = s
        /\ Bit(x, 8) = t /\ Bit(x, 4) = u /\ Bit(x, 2) = v /\ Bit(x, 1) = w
    <3>1. x \in Byte
      BY <2>2 DEF Bits, Sum8, Byte
    <3>2. Bit(x, 128) = p
      BY <2>2 DEF Bits, Sum8, Bit
    <3>3. Bit(x, 64) = q
      BY <2>2 DEF Bits, Sum8, Bit
    <3>4. Bit(x, 32) = r
      BY <2>2 DEF Bits, Sum8, Bit
    <3>5. Bit(x, 16) = s
      BY <2>2 DEF Bits, Sum8, Bit
    <3>6. Bit(x, 8) = t
      BY <2>2 DEF Bits, Sum8, Bit
    <3>7. Bit(x, 4) = u
      BY <2>2 DEF Bits, Sum8, Bit
    <3>8. Bit(x, 2) = v
      BY <2>2 DEF Bits, Sum8, Bit
    <3>9. Bit(x, 1) = w
      BY <2>2 DEF Bits, Sum8, Bit
    <3> QED BY <3>1, <3>2, <3>3, <3>4, <3>5, <3>6, <3>7, <3>8, <3>9
  <2> QED BY <2>1, <2>2, <2>3 DEF Weights
<1> QED BY <1>1, <1>4

\* What was flipped twice is as it was.
LEMMA XorTwice ==
    ASSUME NEW a \in Byte, NEW b \in Byte
    PROVE  XorByte(XorByte(a, b), b) = a
<1>1. PICK x \in Byte : x = XorByte(a, b) /\ \A w \in Weights : Bit(x, w) = XorBit(a, b, w)
  BY XorIsSum
<1>2. \A w \in Weights : Bit(a, w) \in Bits /\ Bit(b, w) \in Bits
  BY ByteIsBits
<1>3. \A w \in Weights : XorBit(x, b, w) = Bit(a, w)
  BY <1>1, <1>2 DEF XorBit, Bits
<1>4. XorByte(x, b) = Sum8(XorBit(x, b, 128), XorBit(x, b, 64), XorBit(x, b, 32), XorBit(x, b, 16),
                           XorBit(x, b, 8), XorBit(x, b, 4), XorBit(x, b, 2), XorBit(x, b, 1))
  BY XorIsSum
<1>5. XorByte(x, b) = Sum8(Bit(a, 128), Bit(a, 64), Bit(a, 32), Bit(a, 16), Bit(a, 8), Bit(a, 4), Bit(a, 2), Bit(a, 1))
  BY <1>3, <1>4 DEF Weights
<1> QED BY <1>5, <1>1, ByteIsBits

\* The order of the two bytes does not matter.
LEMMA XorCommutes ==
    ASSUME NEW a \in Byte, NEW b \in Byte
    PROVE  XorByte(a, b) = XorByte(b, a)
<1>1. \A w \in Weights : Bit(a, w) \in Bits /\ Bit(b, w) \in Bits
  BY ByteIsBits
<1>2. \A w \in Weights : XorBit(a, b, w) = XorBit(b, a, w)
  BY <1>1 DEF XorBit, Bits
<1>3. /\ XorBit(a, b, 128) = XorBit(b, a, 128) /\ XorBit(a, b, 64) = XorBit(b, a, 64)
      /\ XorBit(a, b, 32) = XorBit(b, a, 32) /\ XorBit(a, b, 16) = XorBit(b, a, 16)
      /\ XorBit(a, b, 8) = XorBit(b, a, 8) /\ XorBit(a, b, 4) = XorBit(b, a, 4)
      /\ XorBit(a, b, 2) = XorBit(b, a, 2) /\ XorBit(a, b, 1) = XorBit(b, a, 1)
  BY <1>2 DEF Weights
<1> QED BY <1>3 DEF XorByte

\* With one operand fixed it forgets nothing of the other.
LEMMA XorInjective ==
    ASSUME NEW a \in Byte, NEW b \in Byte, NEW c \in Byte, a # b
    PROVE  XorByte(a, c) # XorByte(b, c) /\ XorByte(c, a) # XorByte(c, b)
<1>1. XorByte(XorByte(a, c), c) = a /\ XorByte(XorByte(b, c), c) = b
  BY XorTwice
<1>2. XorByte(c, a) = XorByte(a, c) /\ XorByte(c, b) = XorByte(b, c)
  BY XorCommutes
<1> QED BY <1>1, <1>2

\* A flip that is not zero changes a byte.
LEMMA XorChanges ==
    ASSUME NEW a \in Byte, NEW b \in Byte, b # 0
    PROVE  XorByte(a, b) # a
<1>0. 0 \in Byte
  BY DEF Byte
<1>1. XorByte(a, 0) = a
  <2>1. \A w \in Weights : Bit(a, w) \in Bits /\ Bit(0, w) = 0
    BY ByteIsBits DEF Bit, Weights
  <2>2. \A w \in Weights : XorBit(a, 0, w) = Bit(a, w)
    BY <2>1 DEF XorBit, Bits
  <2>3. XorByte(a, 0) = Sum8(XorBit(a, 0, 128), XorBit(a, 0, 64), XorBit(a, 0, 32), XorBit(a, 0, 16),
                           XorBit(a, 0, 8), XorBit(a, 0, 4), XorBit(a, 0, 2), XorBit(a, 0, 1))
    BY <1>0, XorIsSum
  <2>4. XorByte(a, 0) = Sum8(Bit(a, 128), Bit(a, 64), Bit(a, 32), Bit(a, 16), Bit(a, 8), Bit(a, 4), Bit(a, 2), Bit(a, 1))
    BY <2>2, <2>3 DEF Weights
  <2> QED BY <2>4, ByteIsBits
<1>2. XorByte(a, b) # XorByte(a, 0)
  BY <1>0, XorInjective
<1> QED BY <1>1, <1>2

\* One bit of the division: 29 is odd, so that the results of the two cases differ.
LEMMA ShiftInjective ==
    ASSUME NEW a \in Byte, NEW b \in Byte
    PROVE  ShiftCrc(a) \in Byte /\ (ShiftCrc(a) = ShiftCrc(b) => a = b)
<1>1. \A x \in Byte : x >= 128 =>
         /\ (2 * x) % 256 = 2 * x - 256 /\ 2 * x - 256 \in Byte
         /\ ShiftCrc(x) = XorByte(2 * x - 256, 29) /\ ShiftCrc(x) \in Byte
         /\ ShiftCrc(x) % 2 = 1
  <2> SUFFICES ASSUME NEW x \in Byte, x >= 128
      PROVE  /\ (2 * x) % 256 = 2 * x - 256 /\ 2 * x - 256 \in Byte
         /\ ShiftCrc(x) = XorByte(2 * x - 256, 29) /\ ShiftCrc(x) \in Byte
         /\ ShiftCrc(x) % 2 = 1
    OBVIOUS
  <2>1. (2 * x) % 256 = 2 * x - 256 /\ 2 * x - 256 \in Byte
    BY DEF Byte
  <2>2. ShiftCrc(x) = XorByte(2 * x - 256, 29)
    BY <2>1 DEF ShiftCrc
  <2>3. PICK d \in Byte : d = 2 * x - 256 /\ d % 2 = 0
    BY <2>1 DEF Byte
  <2>0. 29 \in Byte /\ 1 \in Weights
    BY DEF Byte, Weights
  <2>4. XorByte(d, 29) \in Byte /\ Bit(XorByte(d, 29), 1) = XorBit(d, 29, 1)
    BY <2>0, XorIsSum
  <2>5. XorBit(d, 29, 1) = 1
    BY <2>3 DEF XorBit, Bit, Byte
  <2>6. XorByte(d, 29) % 2 = 1
    BY <2>4, <2>5 DEF Bit, Byte
  <2> QED BY <2>1, <2>2, <2>3, <2>4, <2>6
<1>2. \A x \in Byte : x < 128 => ShiftCrc(x) = 2 * x /\ ShiftCrc(x) \in Byte /\ ShiftCrc(x) % 2 = 0
  BY DEF ShiftCrc, Byte
<1>3. \A x \in Byte : (x >= 128 \/ x < 128) /\ ~(x >= 128 /\ x < 128)
  BY DEF Byte
<1>4. \A x \in Byte : ShiftCrc(x) \in Byte /\ (x >= 128 <=> ShiftCrc(x) % 2 = 1)
  BY <1>1, <1>2, <1>3
<1>5. CASE a >= 128 /\ b >= 128
  <2>0. 29 \in Byte
    BY DEF Byte
  <2>1. PICK x \in Byte, y \in Byte : x = 2 * a - 256 /\ y = 2 * b - 256
                                      /\ ShiftCrc(a) = XorByte(x, 29) /\ ShiftCrc(b) = XorByte(y, 29)
    BY <1>1, <1>5
  <2>2. ShiftCrc(a) = ShiftCrc(b) => x = y
    BY <2>0, <2>1, XorInjective
  <2>3. x = y => a = b
    <3>2. a \in Nat /\ b \in Nat
      BY DEF Byte
    <3>3. x = y => 2 * a - 256 = 2 * b - 256
      BY <2>1
    <3> QED BY <3>2, <3>3
  <2> QED BY <1>4, <2>2, <2>3
<1>6. CASE a < 128 /\ b < 128
  <2>1. ShiftCrc(a) = 2 * a /\ ShiftCrc(b) = 2 * b
    BY <1>2, <1>6
  <2>2. \A x, y \in Byte : 2 * x = 2 * y => x = y
    BY DEF Byte
  <2> QED BY <1>4, <2>1, <2>2
<1>7. CASE ~((a >= 128 /\ b >= 128) \/ (a < 128 /\ b < 128))
  BY <1>3, <1>4, <1>7
<1> QED BY <1>5, <1>6, <1>7

\* The table is a permutation of the bytes.
ShiftedFrom(i, f) == f \in [0 .. 8 -> Byte] /\ f[0] = i /\ \A j \in 1 .. 8 : f[j] = ShiftCrc(f[j - 1])

\* The table is eight turns of that loop.
LEMMA TableIs ==
    ASSUME NEW i \in Byte
    PROVE  \E f : ShiftedFrom(i, f) /\ initializeCrcTable[i] = f[8]
<1> DEFINE Def(f) == [j \in 0 .. 8 |-> IF j = 0 THEN i ELSE ShiftCrc(f[j - 1])]
           step == [p \in (1 .. 8) \X Byte |-> ShiftCrc(p[2])]
<1>1. step \in StepsOf(8, Byte)
  BY ShiftInjective DEF StepsOf
<1>2. PICK f : Iterates(8, Byte, i, step, f)
  <2> HIDE DEF step
  <2>1. 8 \in Nat
    OBVIOUS
  <2> QED BY <1>1, <2>1, RecursiveSteps, Zenon
<1>3. f \in [0 .. 8 -> Byte] /\ f[0] = i /\ \A j \in 1 .. 8 : f[j - 1] \in Byte /\ f[j] = ShiftCrc(f[j - 1])
  BY <1>2 DEF Iterates
<1>4. f = Def(f)
  <2>1. \A j \in 0 .. 8 : f[j] = Def(f)[j]
    BY <1>3
  <2> QED BY <1>3, <2>1
<1>5. PICK g : g = (CHOOSE h : h = Def(h)) /\ g = Def(g)
  <2> HIDE DEF Def
  <2> QED BY <1>4, Zenon
<1>6. initializeCrcTable[i] = g[8]
  BY <1>5 DEF initializeCrcTable, Byte
<1>7. g[0] = i /\ \A j \in 1 .. 8 : g[j] = ShiftCrc(g[j - 1])
  BY <1>5
<1>8. \A j \in 0 .. 8 : g[j] = f[j]
  <2>1. SameSteps(8, g, f)
    BY <1>3, <1>7 DEF SameSteps
  <2>2. SameValues(8, g, f)
    BY <2>1, RecursiveSame
  <2> QED BY <2>2 DEF SameValues
<1>9. g \in [0 .. 8 -> Byte]
  BY <1>3, <1>5, <1>8
<1> QED BY <1>6, <1>7, <1>9 DEF ShiftedFrom

\* No two bytes have the same entry in the table of the CRC.
LEMMA TableInjective ==
    ASSUME NEW a \in Byte, NEW b \in Byte
    PROVE  /\ initializeCrcTable[a] \in Byte
           /\ a # b => initializeCrcTable[a] # initializeCrcTable[b]
<1>1. PICK f : ShiftedFrom(a, f) /\ initializeCrcTable[a] = f[8]
  BY TableIs
<1>2. PICK g : ShiftedFrom(b, g) /\ initializeCrcTable[b] = g[8]
  BY TableIs
<1>3. \A j \in 1 .. 8 : f[j] = g[j] => f[j - 1] = g[j - 1]
  BY <1>1, <1>2, ShiftInjective DEF ShiftedFrom
<1>3a. f[8] = g[8] => f[7] = g[7]
  <2>1. 8 \in 1 .. 8 /\ 8 - 1 = 7
    OBVIOUS
  <2>2. f[8] = g[8] => f[8 - 1] = g[8 - 1]
    BY <1>3, <2>1, Zenon
  <2> QED BY <2>1, <2>2
<1>4. f[8] = g[8] => f[0] = g[0]
  <2>1. f[8] = g[8] => f[7] = g[7]
    BY <1>3a
  <2>2. f[7] = g[7] => f[6] = g[6]
    BY <1>3
  <2>3. f[6] = g[6] => f[5] = g[5]
    BY <1>3
  <2>4. f[5] = g[5] => f[4] = g[4]
    BY <1>3
  <2>5. f[4] = g[4] => f[3] = g[3]
    BY <1>3
  <2>6. f[3] = g[3] => f[2] = g[2]
    BY <1>3
  <2>7. f[2] = g[2] => f[1] = g[1]
    BY <1>3
  <2>8. f[1] = g[1] => f[0] = g[0]
    BY <1>3
  <2> QED BY <2>1, <2>2, <2>3, <2>4, <2>5, <2>6, <2>7, <2>8
<1> QED BY <1>1, <1>2, <1>4 DEF ShiftedFrom

\* calculateCrc over any sequence of bytes: the intermediate remainders.
Remainders(data, f) ==
    /\ f \in [0 .. Len(data) -> Byte] /\ f[0] = 255
    /\ \A k \in 1 .. Len(data) : f[k] = initializeCrcTable[XorByte(f[k - 1], data[k])]

\* calculateCrc goes through the data byte by byte.
LEMMA CrcIs ==
    ASSUME NEW data \in Seq(Byte)
    PROVE  \E f : Remainders(data, f) /\ calculateCrc(data) = 255 - f[Len(data)]
<1> DEFINE Def(f) == [k \in 0 .. Len(data) |->
                         IF k = 0 THEN 255 ELSE initializeCrcTable[XorByte(f[k - 1], data[k])]]
           step == [p \in (1 .. Len(data)) \X Byte |-> initializeCrcTable[XorByte(p[2], data[p[1]])]]
<1>0a. Len(data) \in Nat /\ \A k \in 1 .. Len(data) : data[k] \in Byte
  OBVIOUS
<1>0b. 255 \in Byte
  BY DEF Byte
<1>0. PICK l \in Nat : l = Len(data)
  BY <1>0a
<1>1. step \in StepsOf(Len(data), Byte)
  <2>1. ASSUME NEW k \in 1 .. Len(data), NEW x \in Byte
        PROVE  initializeCrcTable[XorByte(x, data[k])] \in Byte
    <3>1. data[k] \in Byte
      BY <1>0a
    <3>2. XorByte(x, data[k]) \in Byte
      BY <3>1, XorIsSum
    <3> QED BY <3>2, TableInjective
  <2> QED BY <2>1 DEF StepsOf
<1>2. PICK f : Iterates(Len(data), Byte, 255, step, f)
  <2> HIDE DEF step
  <2> QED BY <1>0a, <1>0b, <1>1, RecursiveSteps, Zenon
<1>3. /\ f \in [0 .. l -> Byte] /\ f[0] = 255
      /\ \A k \in 1 .. l : f[k - 1] \in Byte /\ f[k] = initializeCrcTable[XorByte(f[k - 1], data[k])]
  <2>1. f \in [0 .. l -> Byte] /\ f[0] = 255 /\ \A k \in 1 .. l : f[k] = step[<<k, f[k - 1]>>]
    BY <1>0, <1>2 DEF Iterates
  <2>2. \A k \in 1 .. l : k - 1 \in 0 .. l
    BY <1>0
  <2>3. \A k \in 1 .. l : f[k - 1] \in Byte
    BY <2>1, <2>2
  <2>4. \A k \in 1 .. l : step[<<k, f[k - 1]>>] = initializeCrcTable[XorByte(f[k - 1], data[k])]
    BY <1>0, <2>3
  <2>5. ASSUME NEW k \in 1 .. l PROVE f[k] = initializeCrcTable[XorByte(f[k - 1], data[k])]
    <3> HIDE DEF step
    <3>1. f[k] = step[<<k, f[k - 1]>>]
      BY <2>1
    <3>2. step[<<k, f[k - 1]>>] = initializeCrcTable[XorByte(f[k - 1], data[k])]
      BY <2>4
    <3> QED BY <3>1, <3>2
  <2> QED BY <2>1, <2>3, <2>5
<1>4. f = Def(f)
  <2>1. \A k \in 0 .. Len(data) : f[k] = Def(f)[k]
    BY <1>0, <1>3
  <2> QED BY <1>0, <1>3, <2>1
<1>5. PICK g : g = (CHOOSE h : h = Def(h)) /\ g = Def(g)
  <2> HIDE DEF Def
  <2> QED BY <1>4, Zenon
<1>6. calculateCrc(data) = 255 - g[Len(data)]
  BY <1>5 DEF calculateCrc
<1>7. g[0] = 255 /\ \A k \in 1 .. l : g[k] = initializeCrcTable[XorByte(g[k - 1], data[k])]
  <2>1. 0 \in 0 .. l /\ \A k \in 1 .. l : k \in 0 .. l /\ k # 0
    BY <1>0
  <2>2. \A k \in 0 .. l : g[k] = Def(g)[k]
    BY <1>5
  <2>3. \A k \in 0 .. l : g[k] = IF k = 0 THEN 255 ELSE initializeCrcTable[XorByte(g[k - 1], data[k])]
    BY <1>0, <2>2
  <2> QED BY <2>1, <2>3
<1>8. \A k \in 0 .. l : g[k] = f[k]
  <2>1. SameSteps(l, g, f)
    <3>1. g[0] = f[0]
      BY <1>3, <1>7
    <3>2. ASSUME NEW k \in 1 .. l, g[k - 1] = f[k - 1] PROVE g[k] = f[k]
      <4>1. g[k] = initializeCrcTable[XorByte(g[k - 1], data[k])]
        BY <1>7
      <4>2. f[k] = initializeCrcTable[XorByte(f[k - 1], data[k])]
        BY <1>3
      <4> QED BY <3>2, <4>1, <4>2
    <3> QED BY <3>1, <3>2 DEF SameSteps
  <2>2. SameValues(l, g, f)
    BY <2>1, RecursiveSame
  <2> QED BY <2>2 DEF SameValues
<1>9. g \in [0 .. Len(data) -> Byte]
  BY <1>0, <1>3, <1>5, <1>8
<1> QED BY <1>0, <1>6, <1>7, <1>9 DEF Remainders

\* A CRC is a byte.
LEMMA CrcIn ==
    ASSUME NEW data \in Seq(Byte)
    PROVE  calculateCrc(data) \in Byte
<1>1. PICK f : Remainders(data, f) /\ calculateCrc(data) = 255 - f[Len(data)]
  BY CrcIs
<1>2. f[Len(data)] \in Byte
  BY <1>1 DEF Remainders
<1>3. \A x \in Byte : 255 - x \in Byte
  BY DEF Byte
<1> QED BY <1>1, <1>2, <1>3

\* A sequence in which one byte changed has another CRC.
LEMMA CrcFindsOneByte ==
    ASSUME NEW data \in Seq(Byte), NEW other \in Seq(Byte), Len(other) = Len(data),
           NEW i \in 1 .. Len(data), other[i] # data[i],
           \A k \in 1 .. Len(data) : k # i => other[k] = data[k]
    PROVE  calculateCrc(other) # calculateCrc(data) /\ calculateCrc(data) \in Byte
<1>1. PICK f : Remainders(data, f) /\ calculateCrc(data) = 255 - f[Len(data)]
  BY CrcIs
<1>2. PICK g : Remainders(other, g) /\ calculateCrc(other) = 255 - g[Len(data)]
  BY CrcIs
<1>3. /\ Len(data) \in Nat
      /\ \A k \in 0 .. Len(data) : f[k] \in Byte /\ g[k] \in Byte
      /\ \A k \in 1 .. Len(data) : data[k] \in Byte /\ other[k] \in Byte /\ k - 1 \in 0 .. Len(data)
      /\ \A k \in 1 .. Len(data) : f[k] = initializeCrcTable[XorByte(f[k - 1], data[k])]
      /\ \A k \in 1 .. Len(data) : g[k] = initializeCrcTable[XorByte(g[k - 1], other[k])]
      /\ f[0] = g[0]
  <2>1. \A k \in 1 .. Len(data) : data[k] \in Byte /\ other[k] \in Byte
    OBVIOUS
  <2>2. Len(data) \in Nat /\ \A k \in 1 .. Len(data) : k - 1 \in 0 .. Len(data)
    OBVIOUS
  <2>3. \A k \in 0 .. Len(data) : f[k] \in Byte /\ g[k] \in Byte
    BY <1>1, <1>2 DEF Remainders
  <2>4. \A k \in 1 .. Len(data) : f[k] = initializeCrcTable[XorByte(f[k - 1], data[k])]
    BY <1>1 DEF Remainders
  <2>5. \A k \in 1 .. Len(data) : g[k] = initializeCrcTable[XorByte(g[k - 1], other[k])]
    BY <1>2 DEF Remainders
  <2>6. f[0] = g[0]
    BY <1>1, <1>2 DEF Remainders
  <2> QED BY <2>1, <2>2, <2>3, <2>4, <2>5, <2>6
<1>4. \A k \in 0 .. i - 1 : f[k] = g[k]
  <2>1. i - 1 \in Nat /\ \A k \in 1 .. i - 1 : k \in 1 .. Len(data) /\ k # i
    BY <1>3
  <2>2. \A k \in 1 .. i - 1 : f[k - 1] = g[k - 1] => f[k] = g[k]
    <3> SUFFICES ASSUME NEW k \in 1 .. i - 1, f[k - 1] = g[k - 1] PROVE f[k] = g[k]
      OBVIOUS
    <3>1. k \in 1 .. Len(data) /\ other[k] = data[k]
      BY <2>1
    <3>2. f[k] = initializeCrcTable[XorByte(f[k - 1], data[k])]
      BY <1>3, <3>1
    <3>3. g[k] = initializeCrcTable[XorByte(g[k - 1], other[k])]
      BY <1>3, <3>1
    <3> QED BY <3>1, <3>2, <3>3
  <2>3. SameSteps(i - 1, f, g)
    BY <1>3, <2>2 DEF SameSteps
  <2>4. SameValues(i - 1, f, g)
    BY <2>1, <2>3, RecursiveSame
  <2> QED BY <2>4 DEF SameValues
<1>5. f[i] # g[i]
  <2>1. f[i - 1] = g[i - 1] /\ f[i - 1] \in Byte /\ data[i] \in Byte /\ other[i] \in Byte
    <3>1. i - 1 \in 0 .. i - 1 /\ i - 1 \in 0 .. Len(data)
      BY <1>3
    <3>2. f[i - 1] = g[i - 1]
      BY <1>4, <3>1
    <3>3. f[i - 1] \in Byte
      BY <1>3, <3>1
    <3>4. data[i] \in Byte /\ other[i] \in Byte
      BY <1>3
    <3> QED BY <3>2, <3>3, <3>4
  <2>2. XorByte(f[i - 1], data[i]) # XorByte(f[i - 1], other[i])
    BY <2>1, XorInjective
  <2>3. XorByte(f[i - 1], data[i]) \in Byte /\ XorByte(f[i - 1], other[i]) \in Byte
    BY <2>1, XorIsSum
  <2>4. initializeCrcTable[XorByte(f[i - 1], data[i])] # initializeCrcTable[XorByte(f[i - 1], other[i])]
    BY <2>2, <2>3, TableInjective
  <2> QED BY <1>3, <2>1, <2>4
<1>6. ASSUME NEW k \in 1 .. Len(data), k > i, f[k - 1] # g[k - 1]
      PROVE  f[k] # g[k]
  <2>1. f[k - 1] \in Byte /\ g[k - 1] \in Byte /\ data[k] \in Byte /\ other[k] = data[k]
    BY <1>3, <1>6
  <2>2. XorByte(f[k - 1], data[k]) # XorByte(g[k - 1], data[k])
    BY <1>6, <2>1, XorInjective
  <2>3. XorByte(f[k - 1], data[k]) \in Byte /\ XorByte(g[k - 1], data[k]) \in Byte
    BY <2>1, XorIsSum
  <2>4. initializeCrcTable[XorByte(f[k - 1], data[k])] # initializeCrcTable[XorByte(g[k - 1], data[k])]
    BY <2>2, <2>3, TableInjective
  <2> QED BY <1>3, <2>1, <2>4
<1>7. f[Len(data)] # g[Len(data)]
  <2> DEFINE G == {m \in Nat : i + m <= Len(data) => f[i + m] # g[i + m]}
  <2>1. 0 \in G
    BY <1>5
  <2>2. \A m \in Nat : m \in G => m + 1 \in G
    <3> SUFFICES ASSUME NEW m \in Nat, m \in G, i + (m + 1) <= Len(data)
                 PROVE  f[i + (m + 1)] # g[i + (m + 1)]
      OBVIOUS
    <3>1. /\ i + (m + 1) \in 1 .. Len(data) /\ i + (m + 1) > i /\ (i + (m + 1)) - 1 = i + m
          /\ f[i + m] # g[i + m]
      BY <1>3
    <3> QED BY <1>6, <3>1
  <2>3. Nat \subseteq G
    <3> HIDE DEF G
    <3> QED BY <2>1, <2>2, NatSetInduction
  <2>4. Len(data) - i \in Nat /\ i + (Len(data) - i) = Len(data)
    BY <1>3
  <2>5. \A m \in Nat : i + m <= Len(data) => f[i + m] # g[i + m]
    BY <2>3
  <2>6. Len(data) <= Len(data)
    BY <1>3
  <2> QED BY <2>4, <2>5, <2>6, Zenon
<1>8. f[Len(data)] \in Byte /\ g[Len(data)] \in Byte
  BY <1>3
<1>9. \A x, y \in Byte : x # y => 255 - x # 255 - y /\ 255 - x \in Byte
  BY DEF Byte
<1> QED BY <1>1, <1>2, <1>7, <1>8, <1>9

-----------------------------------------------------------------------------
(* CheckpointChannel *)

\* A message of the channel, made of a counter and a checkpoint.
Frame(counter, n) == TryProtect(counter, InjectInteger(Word(n)))
Sound(m) == m \in Seq(Byte) /\ Len(m) >= cMinimumSize /\ m[1] = calculateCrc(Tail(m))
Broken(m) == m \in Seq(Byte) /\ Len(m) >= cMinimumSize /\ m[1] # calculateCrc(Tail(m))

\* What TryProtect makes has the right CRC, its counter and its checkpoint.
LEMMA FrameIs ==
    ASSUME NEW c \in 0 .. 15, NEW n \in Wide
    PROVE  /\ Sound(Frame(c, n)) /\ Frame(c, n)[cCounterOffset + 1] % 16 = c
           /\ Number(ExtractInteger(Frame(c, n), cE2eHeaderSize)) = n
<1>1. PICK a \in Short, b \in Short : Word(n) = <<a, b>> /\ 65536 * a + b = n
  BY WordParts DEF Word
<1>2. PICK data \in Seq(Byte) :
          /\ data = InjectInteger(Word(n)) /\ Len(data) = 4
          /\ ByteAt(data, 0) = a \div 256 /\ ByteAt(data, 1) = a % 256
          /\ ByteAt(data, 2) = b \div 256 /\ ByteAt(data, 3) = b % 256
  BY <1>1, InjectIntegerIs
<1>3. PICK x \in Byte : x = 240 + c /\ x % 16 = c
  BY DEF Byte
<1>4. PICK counted \in Seq(Byte) :
          /\ counted = <<x>> \o data /\ Len(counted) = 1 + Len(data)
          /\ ByteAt(counted, 0) = x /\ \A i \in Nat : ByteAt(counted, 1 + i) = ByteAt(data, i)
  <2>1. Headed(<<x>> \o data, x, data)
    BY HeadAndTail
  <2> QED BY <2>1, Zenon DEF Headed
<1>5. PICK y \in Byte : y = calculateCrc(counted)
  BY CrcIn
<1>6. PICK m \in Seq(Byte) :
          /\ m = <<y>> \o counted /\ Len(m) = 1 + Len(counted) /\ m[1] = y /\ Tail(m) = counted
          /\ \A i \in Nat : ByteAt(m, 1 + i) = ByteAt(counted, i)
  <2>1. Headed(<<y>> \o counted, y, counted)
    BY HeadAndTail
  <2> QED BY <2>1, Zenon DEF Headed
<1>7. m = Frame(c, n)
  BY <1>2, <1>3, <1>4, <1>5, <1>6, Zenon DEF Frame, TryProtect
<1>8. Len(m) = 6
  BY <1>2, <1>4, <1>6
<1>9. Sound(m)
  <2>1. m[1] = calculateCrc(Tail(m))
    BY <1>5, <1>6, Zenon
  <2>2. Len(m) >= cMinimumSize
    BY <1>8 DEF cMinimumSize
  <2> QED BY <1>6, <2>1, <2>2, Zenon DEF Sound
<1>10. ByteAt(m, 1 + 0) = x
  BY <1>4, <1>6
<1>11. m[2] % 16 = c
  BY <1>3, <1>8, <1>10 DEF ByteAt
<1>12. \A i \in Nat : ByteAt(m, 1 + (1 + i)) = ByteAt(data, i)
  <2>1. \A i \in Nat : 1 + i \in Nat
    OBVIOUS
  <2>2. \A i \in Nat : ByteAt(m, 1 + (1 + i)) = ByteAt(counted, 1 + i)
    BY <1>6, <2>1
  <2>3. \A i \in Nat : ByteAt(counted, 1 + i) = ByteAt(data, i)
    BY <1>4
  <2> QED BY <2>2, <2>3
<1>13. /\ ByteAt(m, 2) = a \div 256 /\ ByteAt(m, 3) = a % 256
       /\ ByteAt(m, 4) = b \div 256 /\ ByteAt(m, 5) = b % 256
  <2>1. /\ ByteAt(m, 1 + (1 + 0)) = ByteAt(data, 0) /\ ByteAt(m, 1 + (1 + 1)) = ByteAt(data, 1)
        /\ ByteAt(m, 1 + (1 + 2)) = ByteAt(data, 2) /\ ByteAt(m, 1 + (1 + 3)) = ByteAt(data, 3)
    BY <1>12
  <2> QED BY <1>2, <2>1
<1>14. ExtractInteger(m, 2) = <<a, b>>
  <2>1. 256 * (a \div 256) + (a % 256) = a /\ 256 * (b \div 256) + (b % 256) = b
    BY ShortBytes
  <2>2. ExtractShort(m, 2) = a /\ ExtractShort(m, 4) = b
    BY <1>13, <2>1 DEF ExtractShort
  <2> QED BY <2>2 DEF ExtractInteger
<1>15. Number(ExtractInteger(m, 2)) = n
  BY <1>1, <1>14 DEF Number
<1> QED BY <1>7, <1>9, <1>11, <1>15 DEF cCounterOffset, cE2eHeaderSize

\* The first element of a sequence aside.
LEMMA TailIs ==
    ASSUME NEW S, NEW s \in Seq(S), NEW l \in Nat, Len(s) = l + 1
    PROVE  Tail(s) \in Seq(S) /\ Len(Tail(s)) = l /\ \A k \in 1 .. l : Tail(s)[k] = s[k + 1]
<1>1. s # << >>
  OBVIOUS
<1> QED BY <1>1

\* A sequence with one element changed.
LEMMA ExceptIs ==
    ASSUME NEW S, NEW s \in Seq(S), NEW i \in 1 .. Len(s), NEW x \in S
    PROVE  LET t == [s EXCEPT ![i] = x]
           IN  t \in Seq(S) /\ Len(t) = Len(s) /\ t[i] = x /\ \A k \in 1 .. Len(s) : k # i => t[k] = s[k]
OBVIOUS

\* A message in which one byte changed has the wrong CRC.
LEMMA ChangeIsFound ==
    ASSUME NEW m, Sound(m), NEW i \in 1 .. Len(m), NEW flip \in 1 .. 255
    PROVE  Broken([m EXCEPT ![i] = XorByte(@, flip)])
<1>2. m \in Seq(Byte) /\ Len(m) \in Nat /\ Len(m) >= 3 /\ m[1] = calculateCrc(Tail(m))
  BY DEF Sound, cMinimumSize
<1>2a. \A k \in 1 .. Len(m) : m[k] \in Byte
  BY <1>2
<1>3. flip \in Byte /\ flip # 0
  BY DEF Byte
<1>4. PICK x \in Byte : x = XorByte(m[i], flip) /\ x # m[i]
  <2>1. m[i] \in Byte
    BY <1>2a
  <2>2. XorByte(m[i], flip) \in Byte /\ XorByte(m[i], flip) # m[i]
    BY <1>3, <2>1, XorIsSum, XorChanges
  <2> QED BY <2>2
<1>1. PICK changed : changed = [m EXCEPT ![i] = x] /\ changed = [m EXCEPT ![i] = XorByte(@, flip)]
  BY <1>4
<1>5. /\ changed \in Seq(Byte) /\ Len(changed) = Len(m) /\ changed[i] = x
      /\ \A k \in 1 .. Len(m) : k # i => changed[k] = m[k]
  BY <1>1, <1>2, ExceptIs
<1>6. PICK l \in Nat : l + 1 = Len(m)
  <2>1. Len(m) - 1 \in Nat /\ (Len(m) - 1) + 1 = Len(m)
    BY <1>2
  <2> QED BY <2>1
<1>7. PICK s \in Seq(Byte), t \in Seq(Byte) :
          /\ s = Tail(m) /\ t = Tail(changed) /\ Len(s) = l /\ Len(t) = l
          /\ \A k \in 1 .. l : s[k] = m[k + 1] /\ t[k] = changed[k + 1]
  <2>1. Tail(m) \in Seq(Byte) /\ Len(Tail(m)) = l /\ \A k \in 1 .. l : Tail(m)[k] = m[k + 1]
    BY <1>2, <1>6, TailIs
  <2>2. /\ Tail(changed) \in Seq(Byte) /\ Len(Tail(changed)) = l
        /\ \A k \in 1 .. l : Tail(changed)[k] = changed[k + 1]
    BY <1>5, <1>6, TailIs
  <2> QED BY <2>1, <2>2
<1>8. \A k \in 1 .. l : k + 1 \in 1 .. Len(m) /\ k + 1 # 1
  BY <1>6
<1>9. CASE i = 1
  <2>1. \A k \in 1 .. l : t[k] = s[k]
    BY <1>5, <1>7, <1>8, <1>9
  <2>2. t = s
    BY <1>7, <2>1, SameSequence
  <2>3. changed[1] # m[1]
    BY <1>4, <1>5, <1>9
  <2>4. Broken(changed)
    BY <1>2, <1>5, <1>7, <2>2, <2>3 DEF Broken, cMinimumSize
  <2> QED BY <1>1, <2>4
<1>10. CASE i # 1
  <2>1. PICK j \in 1 .. l : i = j + 1
    <3>1. i - 1 \in 1 .. l /\ i = (i - 1) + 1
      BY <1>6, <1>10
    <3> QED BY <3>1
  <2>3. t[j] # s[j]
    BY <1>4, <1>5, <1>7, <2>1
  <2>4. \A k \in 1 .. l : k # j => t[k] = s[k]
    <3> SUFFICES ASSUME NEW k \in 1 .. l, k # j PROVE t[k] = s[k]
      OBVIOUS
    <3>1. k + 1 \in 1 .. Len(m) /\ k + 1 # i
      BY <1>8, <2>1
    <3> QED BY <1>5, <1>7, <3>1
  <2>5. calculateCrc(t) # calculateCrc(s)
    <3>1. j \in 1 .. Len(s) /\ Len(t) = Len(s) /\ \A k \in 1 .. Len(s) : k # j => t[k] = s[k]
      BY <1>7, <2>4
    <3> QED BY <2>3, <3>1, CrcFindsOneByte
  <2>6. changed[1] = m[1]
    <3>1. 1 \in 1 .. Len(m)
      BY <1>2
    <3> QED BY <1>5, <1>10, <3>1
  <2>7. Broken(changed)
    BY <1>2, <1>5, <1>7, <2>5, <2>6 DEF Broken, cMinimumSize
  <2> QED BY <1>1, <2>7
<1> QED BY <1>9, <1>10

\* The number of checkpoints is bounded, and fits into 32 bits.
LEMMA SentIs == MaxSent \in Nat /\ MaxSent \div 65536 < 65536
BY SentAssumption DEF Wide

\* The counter of each checkpoint.
IsCounter(C) ==
    /\ C \in [0 .. MaxSent -> 0 .. cCounterMax] /\ C[0] = 0
    /\ \A n \in 1 .. MaxSent : C[n] = NextCounter(C[n - 1])
CounterOf == CHOOSE C : IsCounter(C)

Messages == [checkpoint : Nat, bytes : Seq(Byte)]

\* A message as it was made for its checkpoint.
Intact(m) == m.checkpoint \in 1 .. sent /\ m.bytes = Frame(CounterOf[m.checkpoint], m.checkpoint)

\* Messages come in the order of their checkpoints, after what was checked; only
\* the first one in the FIFO can have changed.
FifoInv ==
    /\ fifo \in Seq(Messages)
    /\ \A i \in 1 .. Len(fifo) :
          \/ Intact(fifo[i]) /\ lastChecked < fifo[i].checkpoint
          \/ i = 1 /\ fifo[i].checkpoint = 0 /\ Broken(fifo[i].bytes)
    /\ \A i, j \in 1 .. Len(fifo) : i < j => fifo[i].checkpoint < fifo[j].checkpoint

QueueInv ==
    /\ mSendQueue \in Seq(Messages)
    /\ \A i \in 1 .. Len(mSendQueue) :
          Intact(mSendQueue[i]) /\ lastChecked < mSendQueue[i].checkpoint
    /\ \A i, j \in 1 .. Len(mSendQueue) : i < j => mSendQueue[i].checkpoint < mSendQueue[j].checkpoint
    /\ \A i \in 1 .. Len(fifo), j \in 1 .. Len(mSendQueue) : fifo[i].checkpoint < mSendQueue[j].checkpoint

\* What was delivered is no later than what was checked last.
DeliveredInv ==
    /\ delivered \in Seq(Nat)
    /\ \A i \in 1 .. Len(delivered) : delivered[i] \in 1 .. lastChecked
    /\ \A i \in 1 .. Len(delivered) : i > 1 => delivered[i - 1] < delivered[i]

CountersInv ==
    /\ sent \in 0 .. MaxSent /\ lastChecked \in 0 .. sent
    /\ mProtectingCounter = CounterOf[sent] /\ mCheckingCounter = CounterOf[lastChecked]
    /\ refused = {}

ChannelInv == CountersInv /\ FifoInv /\ QueueInv /\ DeliveredInv

\* Each checkpoint has a counter.
LEMMA CounterExists ==
    /\ CounterOf \in [0 .. MaxSent -> 0 .. cCounterMax] /\ CounterOf[0] = 0
    /\ \A n \in 1 .. MaxSent : CounterOf[n] = NextCounter(CounterOf[n - 1])
<1> DEFINE step == [p \in (1 .. MaxSent) \X (0 .. cCounterMax) |-> NextCounter(p[2])]
<1>1. MaxSent \in Nat /\ cCounterMax \in Nat /\ 0 \in 0 .. cCounterMax
  BY SentIs, CounterAssumption
<1>2. \A c \in 0 .. cCounterMax : NextCounter(c) \in 0 .. cCounterMax
  BY <1>1 DEF NextCounter
<1>3. step \in StepsOf(MaxSent, 0 .. cCounterMax)
  BY <1>2 DEF StepsOf
<1>4. PICK C : Iterates(MaxSent, 0 .. cCounterMax, 0, step, C)
  <2> HIDE DEF step
  <2> QED BY <1>1, <1>3, RecursiveSteps, Zenon
<1>5. C \in [0 .. MaxSent -> 0 .. cCounterMax] /\ C[0] = 0
  BY <1>4 DEF Iterates
<1>6. ASSUME NEW n \in 1 .. MaxSent PROVE C[n] = NextCounter(C[n - 1])
  <2>1. n - 1 \in 0 .. MaxSent
    BY <1>1
  <2>2. C[n - 1] \in 0 .. cCounterMax
    BY <1>5, <2>1
  <2>3. step[<<n, C[n - 1]>>] = NextCounter(C[n - 1])
    BY <2>2
  <2>4. C[n] = step[<<n, C[n - 1]>>]
    <3> HIDE DEF step
    <3> QED BY <1>4 DEF Iterates
  <2> HIDE DEF step
  <2> QED BY <2>3, <2>4
<1>7. IsCounter(C)
  BY <1>5, <1>6 DEF IsCounter
<1>8. IsCounter(CounterOf)
  BY <1>7, Zenon DEF CounterOf
<1> QED BY <1>8 DEF IsCounter

\* The next counter is another one, and not refused after the one before it.
LEMMA NextCounterIs ==
    ASSUME NEW c \in 0 .. cCounterMax
    PROVE  /\ NextCounter(c) \in 0 .. cCounterMax /\ NextCounter(c) # c
           /\ ~(c < cCounterMax /\ NextCounter(c) < c)
BY CounterAssumption DEF NextCounter

\* What an intact message carries.
LEMMA IntactIs ==
    ASSUME CountersInv, NEW m, Intact(m)
    PROVE  /\ m.checkpoint \in 1 .. MaxSent /\ Sound(m.bytes)
           /\ m.bytes[cCounterOffset + 1] % 16 = CounterOf[m.checkpoint]
           /\ Number(ExtractInteger(m.bytes, cE2eHeaderSize)) = m.checkpoint
<1>1. m.checkpoint \in 1 .. MaxSent /\ m.bytes = Frame(CounterOf[m.checkpoint], m.checkpoint)
  BY SentIs DEF CountersInv, Intact
<1>2. PICK n : n = m.checkpoint
  OBVIOUS
<1>3. n \in Wide
  <2>1. n \in Nat /\ n <= MaxSent /\ MaxSent \in Nat
    BY <1>1, <1>2, SentIs
  <2>2. n \div 65536 <= MaxSent \div 65536
    BY <2>1
  <2>3. MaxSent \div 65536 < 65536 /\ MaxSent \div 65536 \in Nat /\ n \div 65536 \in Nat
    BY <2>1, SentIs
  <2> QED BY <2>1, <2>2, <2>3 DEF Wide
<1>4. CounterOf[n] \in 0 .. 15
  <2>1. n \in 0 .. MaxSent
    BY <1>1, <1>2, SentIs
  <2>2. CounterOf[n] \in 0 .. cCounterMax
    BY <2>1, CounterExists
  <2>3. \A c \in 0 .. cCounterMax : c \in 0 .. 15
    BY CounterAssumption
  <2> QED BY <2>2, <2>3
<1> QED BY <1>1, <1>2, <1>3, <1>4, FrameIs

\* What Check makes of a message with the right CRC and of one with a wrong one.
LEMMA CheckSound ==
    ASSUME NEW c, NEW m, Sound(m)
    PROVE  /\ Check(c, m) \in {"kOk", "kRepeated", "kWrongSequence"}
           /\ LET received == m[cCounterOffset + 1] % 16
              IN  received # c /\ ~(c < cCounterMax /\ received < c) => Check(c, m) = "kOk"
<1>1. ~(Len(m) < cMinimumSize) /\ ~(m[1] # calculateCrc(Tail(m)))
  <2>1. m \in Seq(Byte) /\ Len(m) >= cMinimumSize /\ m[1] = calculateCrc(Tail(m))
    BY DEF Sound
  <2>2. ~(Len(m) < cMinimumSize)
    BY <2>1 DEF cMinimumSize
  <2> QED BY <2>1, <2>2
<1> QED BY <1>1 DEF Check

\* Check refuses a message with a wrong CRC.
LEMMA CheckBroken ==
    ASSUME NEW c, NEW m, Broken(m)
    PROVE  Check(c, m) = "kWrongCrc"
<1>1. ~(Len(m) < cMinimumSize) /\ m[1] # calculateCrc(Tail(m))
  <2>1. m \in Seq(Byte) /\ Len(m) >= cMinimumSize /\ m[1] # calculateCrc(Tail(m))
    BY DEF Broken
  <2>2. ~(Len(m) < cMinimumSize)
    BY <2>1 DEF cMinimumSize
  <2> QED BY <2>1, <2>2
<1> QED BY <1>1 DEF Check

\* The invariant holds of an empty channel.
LEMMA ChannelStarts == ChannelInit => ChannelInv
<1> SUFFICES ASSUME ChannelInit PROVE ChannelInv
  OBVIOUS
<1>1. CountersInv
  BY CounterExists, SentIs DEF ChannelInit, CountersInv
<1>2. FifoInv /\ QueueInv /\ DeliveredInv
  BY DEF ChannelInit, FifoInv, QueueInv, DeliveredInv
<1> QED BY <1>1, <1>2 DEF ChannelInv

\* A checkpoint is queued, or its message is not taken.
LEMMA SendKeeps == ChannelInv /\ TrySend => ChannelInv'
<1> SUFFICES ASSUME ChannelInv, TrySend PROVE ChannelInv'
  OBVIOUS
<1>1. /\ sent \in Nat /\ sent < MaxSent /\ MaxSent \in Nat /\ sent' = sent + 1
      /\ lastChecked \in 0 .. sent /\ lastChecked' = lastChecked
  BY SentIs DEF ChannelInv, CountersInv, TrySend
<1>2. mProtectingCounter' = CounterOf[sent'] /\ sent' \in 1 .. MaxSent
  <2>1. sent' \in 1 .. MaxSent /\ sent' - 1 = sent
    BY <1>1
  <2> QED BY <2>1, CounterExists DEF ChannelInv, CountersInv, TrySend
<1>3. CountersInv'
  BY <1>1, <1>2 DEF ChannelInv, CountersInv, TrySend
<1>4. \A m : Intact(m) => Intact(m)' /\ m.checkpoint < sent'
  BY <1>1 DEF Intact
<1>5. FifoInv'
  BY <1>4 DEF ChannelInv, FifoInv, TrySend
<1>6. DeliveredInv'
  BY DEF ChannelInv, DeliveredInv, TrySend
<1>7. QueueInv'
  <2>1. CASE UNCHANGED mSendQueue
    BY <1>4, <2>1 DEF ChannelInv, QueueInv, TrySend
  <2>2. CASE mSendQueue' = Append(mSendQueue, [checkpoint |-> sent',
                              bytes |-> TryProtect(mProtectingCounter', InjectInteger(Word(sent')))])
    <3>1. PICK m : m = [checkpoint |-> sent', bytes |-> Frame(CounterOf[sent'], sent')]
      OBVIOUS
    <3>2. mSendQueue' = Append(mSendQueue, m)
      BY <1>2, <2>2, <3>1 DEF Frame
    <3>3. Intact(m)' /\ m.checkpoint = sent'
      BY <1>1, <3>1 DEF Intact
    <3>4. m \in Messages
      <4>1. Sound(m.bytes)'
        BY <1>3, <3>3, IntactIs, PTL
      <4> QED BY <1>1, <3>1, <4>1 DEF Messages, Sound
    <3>5. /\ mSendQueue \in Seq(Messages)
          /\ \A i \in 1 .. Len(mSendQueue) :
                Intact(mSendQueue[i]) /\ lastChecked < mSendQueue[i].checkpoint
          /\ \A i, j \in 1 .. Len(mSendQueue) : i < j => mSendQueue[i].checkpoint < mSendQueue[j].checkpoint
          /\ \A i \in 1 .. Len(fifo), j \in 1 .. Len(mSendQueue) : fifo[i].checkpoint < mSendQueue[j].checkpoint
      BY DEF ChannelInv, QueueInv
    <3>6. PICK l \in Nat : l = Len(mSendQueue)
      BY <3>5
    <3>7. PICK q \in Seq(Messages) :
             /\ q = mSendQueue' /\ Len(q) = l + 1
             /\ \A i \in 1 .. l : q[i] = mSendQueue[i]
             /\ q[l + 1] = m
      BY <3>2, <3>4, <3>5, <3>6, OneMore
    <3>8. \A i \in 1 .. l + 1 : i \in 1 .. l \/ i = l + 1
      OBVIOUS
    <3>9. \A i \in 1 .. l + 1 : Intact(q[i])' /\ lastChecked' < q[i].checkpoint
      BY <1>1, <1>4, <3>3, <3>5, <3>6, <3>7, <3>8
    <3>10. \A i, j \in 1 .. l + 1 : i < j => q[i].checkpoint < q[j].checkpoint
      <4> SUFFICES ASSUME NEW i \in 1 .. l + 1, NEW j \in 1 .. l + 1, i < j
                   PROVE  q[i].checkpoint < q[j].checkpoint
        OBVIOUS
      <4>1. i \in 1 .. l
        OBVIOUS
      <4>2. q[i] = mSendQueue[i] /\ mSendQueue[i].checkpoint < sent'
        BY <1>4, <3>5, <3>6, <3>7, <4>1
      <4>3. CASE j \in 1 .. l
        BY <3>5, <3>6, <3>7, <4>1, <4>3
      <4>4. CASE j = l + 1
        BY <3>3, <3>7, <4>2, <4>4
      <4> QED BY <3>8, <4>3, <4>4
    <3>11. \A i \in 1 .. Len(fifo) : fifo[i].checkpoint < sent'
      <4>1. \A i \in 1 .. Len(fifo) : Intact(fifo[i]) \/ fifo[i].checkpoint = 0
        BY DEF ChannelInv, FifoInv
      <4> QED BY <1>1, <1>4, <4>1
    <3>12. \A i \in 1 .. Len(fifo), j \in 1 .. l + 1 : fifo[i].checkpoint < q[j].checkpoint
      BY <3>3, <3>5, <3>6, <3>7, <3>8, <3>11
    <3>13. fifo' = fifo
      BY DEF TrySend
    <3> QED BY <3>7, <3>9, <3>10, <3>12, <3>13 DEF QueueInv
  <2> QED BY <2>1, <2>2 DEF TrySend
<1> QED BY <1>3, <1>5, <1>6, <1>7 DEF ChannelInv

\* The parts of the invariant, as facts about the two sequences.
LEMMA ChannelFacts ==
    ASSUME ChannelInv
    PROVE  /\ sent \in Nat /\ lastChecked \in 0 .. sent /\ CountersInv
           /\ fifo \in Seq(Messages)
           /\ \A i \in 1 .. Len(fifo) :
                 \/ Intact(fifo[i]) /\ lastChecked < fifo[i].checkpoint
                 \/ i = 1 /\ fifo[i].checkpoint = 0 /\ Broken(fifo[i].bytes)
           /\ \A i, j \in 1 .. Len(fifo) : i < j => fifo[i].checkpoint < fifo[j].checkpoint
           /\ mSendQueue \in Seq(Messages)
           /\ \A i \in 1 .. Len(mSendQueue) :
                 Intact(mSendQueue[i]) /\ lastChecked < mSendQueue[i].checkpoint
           /\ \A i, j \in 1 .. Len(mSendQueue) : i < j => mSendQueue[i].checkpoint < mSendQueue[j].checkpoint
           /\ \A i \in 1 .. Len(fifo), j \in 1 .. Len(mSendQueue) : fifo[i].checkpoint < mSendQueue[j].checkpoint
BY SentIs DEF ChannelInv, CountersInv, FifoInv, QueueInv

\* The queue is written to the FIFO.
LEMMA WriteKeeps == ChannelInv /\ onCheckpointSend => ChannelInv'
<1> SUFFICES ASSUME ChannelInv, onCheckpointSend PROVE ChannelInv'
  OBVIOUS
<1>1. CountersInv' /\ DeliveredInv'
  BY DEF ChannelInv, CountersInv, DeliveredInv, onCheckpointSend
<1>2. \A m : Intact(m) => Intact(m)'
  BY DEF Intact, onCheckpointSend
<1>3. lastChecked' = lastChecked /\ mSendQueue' = << >> /\ fifo' = fifo \o mSendQueue
  BY DEF onCheckpointSend
<1>4. PICK f \in Seq(Messages), q \in Seq(Messages) : f = fifo /\ q = mSendQueue
  BY ChannelFacts
<1>5. PICK k \in Nat, l \in Nat : k = Len(f) /\ l = Len(q)
  OBVIOUS
<1>6. PICK g \in Seq(Messages) :
          /\ g = fifo' /\ Len(g) = k + l
          /\ \A i \in 1 .. k : g[i] = f[i]
          /\ \A i \in 1 .. l : g[k + i] = q[i]
  <2>1. /\ f \o q \in Seq(Messages)
        /\ Len(f \o q) = Len(f) + Len(q)
        /\ \A i \in 1 .. Len(f) : (f \o q)[i] = f[i]
        /\ \A i \in 1 .. Len(q) : (f \o q)[Len(f) + i] = q[i]
    BY Concat
  <2>2. f \o q = fifo' /\ Len(f \o q) = k + l
    BY <1>3, <1>4, <1>5, <2>1
  <2>3. /\ \A i \in 1 .. k : (f \o q)[i] = f[i]
        /\ \A i \in 1 .. l : (f \o q)[k + i] = q[i]
    BY <1>5, <2>1, Zenon
  <2> QED BY <2>1, <2>2, <2>3, Zenon
<1>7. /\ \A i \in 1 .. k :
            \/ Intact(f[i]) /\ lastChecked < f[i].checkpoint
            \/ i = 1 /\ f[i].checkpoint = 0 /\ Broken(f[i].bytes)
      /\ \A i, j \in 1 .. k : i < j => f[i].checkpoint < f[j].checkpoint
      /\ \A i \in 1 .. l : Intact(q[i]) /\ lastChecked < q[i].checkpoint
      /\ \A i, j \in 1 .. l : i < j => q[i].checkpoint < q[j].checkpoint
      /\ \A i \in 1 .. k, j \in 1 .. l : f[i].checkpoint < q[j].checkpoint
  BY <1>4, <1>5, ChannelFacts
<1>8. \A i \in 1 .. k + l : i \in 1 .. k \/ (i - k \in 1 .. l /\ i = k + (i - k))
  OBVIOUS
<1>9. ASSUME NEW i \in 1 .. k + l
      PROVE  \/ Intact(g[i])' /\ lastChecked' < g[i].checkpoint
             \/ i = 1 /\ g[i].checkpoint = 0 /\ Broken(g[i].bytes)
  <2>1. CASE i \in 1 .. k
    BY <1>2, <1>3, <1>6, <1>7, <2>1
  <2>2. CASE i - k \in 1 .. l /\ i = k + (i - k)
    <3>1. g[i] = q[i - k]
      BY <1>6, <2>2
    <3> QED BY <1>2, <1>3, <1>7, <2>2, <3>1
  <2> QED BY <1>8, <2>1, <2>2
<1>10. ASSUME NEW i \in 1 .. k + l, NEW j \in 1 .. k + l, i < j
       PROVE  g[i].checkpoint < g[j].checkpoint
  <2>1. CASE j \in 1 .. k
    <3>1. i \in 1 .. k
      BY <1>10, <2>1
    <3> QED BY <1>6, <1>7, <1>10, <2>1, <3>1
  <2>2. CASE j - k \in 1 .. l /\ j = k + (j - k)
    <3>1. g[j] = q[j - k]
      BY <1>6, <2>2
    <3>2. CASE i \in 1 .. k
      BY <1>6, <1>7, <2>2, <3>1, <3>2
    <3>3. CASE i - k \in 1 .. l /\ i = k + (i - k)
      <4>1. g[i] = q[i - k] /\ i - k < j - k
        BY <1>6, <1>10, <3>3
      <4> QED BY <1>7, <2>2, <3>1, <3>3, <4>1
    <3> QED BY <1>8, <3>2, <3>3
  <2> QED BY <1>8, <2>1, <2>2
<1>11. FifoInv'
  <2>1. \A i \in 1 .. k + l :
           \/ (g[i].checkpoint \in 1 .. sent' /\ g[i].bytes = Frame(CounterOf[g[i].checkpoint], g[i].checkpoint))
              /\ lastChecked' < g[i].checkpoint
           \/ i = 1 /\ g[i].checkpoint = 0 /\ Broken(g[i].bytes)
    BY <1>9 DEF Intact
  <2> QED BY <1>6, <1>10, <2>1 DEF FifoInv, Intact
<1>12. QueueInv'
  BY <1>3 DEF QueueInv
<1> QED BY <1>1, <1>11, <1>12 DEF ChannelInv

\* The first message is gone.
LEMMA TailKeeps ==
    ASSUME ChannelInv, fifo # << >>, fifo' = Tail(fifo), UNCHANGED <<mSendQueue, sent>>,
           lastChecked' = lastChecked
              \/ (lastChecked' = fifo[1].checkpoint /\ Intact(fifo[1]))
    PROVE  FifoInv' /\ QueueInv'
<1>1. PICK f \in Seq(Messages), q \in Seq(Messages) : f = fifo /\ q = mSendQueue /\ q = mSendQueue'
  BY ChannelFacts
<1>2. PICK k \in Nat, l \in Nat : k + 1 = Len(f) /\ l = Len(q)
  <2>1. Len(f) - 1 \in Nat /\ (Len(f) - 1) + 1 = Len(f) /\ Len(q) \in Nat
    BY <1>1
  <2> QED BY <2>1
<1>3. PICK g \in Seq(Messages) : g = fifo' /\ Len(g) = k /\ \A i \in 1 .. k : g[i] = f[i + 1]
  <2>1. Tail(f) \in Seq(Messages) /\ Len(Tail(f)) = k /\ \A i \in 1 .. k : Tail(f)[i] = f[i + 1]
    BY <1>2, TailIs
  <2>2. fifo' = Tail(f)
    BY <1>1
  <2> QED BY <2>1, <2>2, Zenon
<1>4. /\ \A i \in 1 .. k + 1 :
            \/ Intact(f[i]) /\ lastChecked < f[i].checkpoint
            \/ i = 1 /\ f[i].checkpoint = 0 /\ Broken(f[i].bytes)
      /\ \A i, j \in 1 .. k + 1 : i < j => f[i].checkpoint < f[j].checkpoint
      /\ \A i \in 1 .. l : Intact(q[i]) /\ lastChecked < q[i].checkpoint
      /\ \A i, j \in 1 .. l : i < j => q[i].checkpoint < q[j].checkpoint
      /\ \A i \in 1 .. k + 1, j \in 1 .. l : f[i].checkpoint < q[j].checkpoint
  BY <1>1, <1>2, ChannelFacts
<1>5. \A i \in 1 .. k : i + 1 \in 1 .. k + 1 /\ 1 < i + 1 /\ i + 1 # 1 /\ 1 \in 1 .. k + 1
  OBVIOUS
<1>6. \A m : Intact(m) => Intact(m)'
  BY DEF Intact
<1>7. ASSUME NEW i \in 1 .. k PROVE Intact(g[i])' /\ lastChecked' < g[i].checkpoint
  <2>1. g[i] = f[i + 1] /\ Intact(f[i + 1]) /\ lastChecked < f[i + 1].checkpoint
        /\ f[1].checkpoint < f[i + 1].checkpoint
    BY <1>3, <1>4, <1>5
  <2> QED BY <1>1, <1>6, <2>1
<1>8. ASSUME NEW i \in 1 .. k, NEW j \in 1 .. k, i < j PROVE g[i].checkpoint < g[j].checkpoint
  <2>1. g[i] = f[i + 1] /\ g[j] = f[j + 1] /\ i + 1 < j + 1
    BY <1>3, <1>8
  <2> QED BY <1>4, <1>5, <2>1
<1>9. \A i \in 1 .. k, j \in 1 .. l : g[i].checkpoint < q[j].checkpoint
  <2> SUFFICES ASSUME NEW i \in 1 .. k, NEW j \in 1 .. l PROVE g[i].checkpoint < q[j].checkpoint
    OBVIOUS
  <2>1. g[i] = f[i + 1] /\ i + 1 \in 1 .. k + 1
    BY <1>3, <1>5
  <2>2. f[i + 1].checkpoint < q[j].checkpoint
    BY <1>4, <2>1
  <2> QED BY <2>1, <2>2
<1>10. \A i \in 1 .. l : Intact(q[i])' /\ lastChecked' < q[i].checkpoint
  <2>1. 1 \in 1 .. k + 1
    BY <1>2
  <2> QED BY <1>1, <1>4, <1>6, <2>1
<1>11. FifoInv'
  <2>1. \A i \in 1 .. k :
           (g[i].checkpoint \in 1 .. sent' /\ g[i].bytes = Frame(CounterOf[g[i].checkpoint], g[i].checkpoint))
           /\ lastChecked' < g[i].checkpoint
    BY <1>7 DEF Intact
  <2> QED BY <1>3, <1>8, <2>1 DEF FifoInv, Intact
<1>12. QueueInv'
  <2>1. \A i \in 1 .. l :
           (q[i].checkpoint \in 1 .. sent' /\ q[i].bytes = Frame(CounterOf[q[i].checkpoint], q[i].checkpoint))
           /\ lastChecked' < q[i].checkpoint
    BY <1>10 DEF Intact
  <2> QED BY <1>1, <1>2, <1>3, <1>4, <1>9, <2>1 DEF QueueInv, Intact
<1> QED BY <1>11, <1>12

\* The sender reads a message of its own.
LEMMA StealKeeps == ChannelInv /\ Steal => ChannelInv'
<1> SUFFICES ASSUME ChannelInv, Steal PROVE ChannelInv'
  OBVIOUS
<1>1. CountersInv' /\ DeliveredInv'
  BY DEF ChannelInv, CountersInv, DeliveredInv, Steal
<1>2. FifoInv' /\ QueueInv'
  BY TailKeeps DEF Steal
<1> QED BY <1>1, <1>2 DEF ChannelInv

\* A byte of the next message changes.
LEMMA CorruptKeeps ==
    ASSUME ChannelInv, NEW i \in 1 .. 6, NEW flip \in Flips, Corrupt(i, flip)
    PROVE  ChannelInv'
<1>1. CountersInv' /\ DeliveredInv'
  BY DEF ChannelInv, CountersInv, DeliveredInv, Corrupt
<1>2. \A m : Intact(m) => Intact(m)'
  BY DEF Intact, Corrupt
<1>3. lastChecked' = lastChecked /\ mSendQueue' = mSendQueue /\ sent' = sent
  BY DEF Corrupt
<1>4. PICK f \in Seq(Messages), q \in Seq(Messages) : f = fifo /\ q = mSendQueue
  BY ChannelFacts
<1>5. PICK k \in Nat, l \in Nat : k = Len(f) /\ l = Len(q)
  OBVIOUS
<1>6. f # << >> /\ k >= 1 /\ 1 \in 1 .. k /\ Head(f) = f[1]
  BY <1>4, <1>5 DEF Corrupt
<1>7. /\ \A n \in 1 .. k :
            \/ Intact(f[n]) /\ lastChecked < f[n].checkpoint
            \/ n = 1 /\ f[n].checkpoint = 0 /\ Broken(f[n].bytes)
      /\ \A n, j \in 1 .. k : n < j => f[n].checkpoint < f[j].checkpoint
      /\ \A n \in 1 .. l : Intact(q[n]) /\ lastChecked < q[n].checkpoint
      /\ \A n, j \in 1 .. l : n < j => q[n].checkpoint < q[j].checkpoint
      /\ \A n \in 1 .. k, j \in 1 .. l : f[n].checkpoint < q[j].checkpoint
  BY <1>4, <1>5, ChannelFacts
<1>8. Intact(f[1]) /\ f[1].checkpoint # 0
  BY <1>4, <1>6, <1>7 DEF Corrupt
<1>9. Sound(f[1].bytes)
  <2>1. CountersInv
    BY ChannelFacts
  <2> QED BY <1>8, <2>1, IntactIs
<1>10. PICK b : b = [f[1].bytes EXCEPT ![i] = XorByte(@, flip)]
  OBVIOUS
<1>11. Broken(b)
  <2>1. flip \in 1 .. 255
    BY FlipsAssumption
  <2>2. i \in 1 .. Len(f[1].bytes)
    BY <1>4, <1>6, <1>9 DEF Corrupt, Sound
  <2> QED BY <1>9, <1>10, <2>1, <2>2, ChangeIsFound
<1>12. PICK m : m = [checkpoint |-> 0, bytes |-> b]
  OBVIOUS
<1>13. m \in Messages /\ m.checkpoint = 0 /\ m.bytes = b
  BY <1>11, <1>12 DEF Messages, Broken
<1>14. fifo' = [f EXCEPT ![1] = m]
  BY <1>4, <1>6, <1>10, <1>12 DEF Corrupt
<1>15. PICK g \in Seq(Messages) : /\ g = fifo' /\ Len(g) = k /\ g[1] = m
                                  /\ \A n \in 1 .. k : n # 1 => g[n] = f[n]
  <2>1. LET t == [f EXCEPT ![1] = m]
        IN  t \in Seq(Messages) /\ Len(t) = Len(f) /\ t[1] = m /\ \A n \in 1 .. Len(f) : n # 1 => t[n] = f[n]
    BY <1>5, <1>6, <1>13, ExceptIs
  <2> QED BY <1>5, <1>14, <2>1
<1>16. \A n \in 1 .. k : (n # 1 /\ g[n] = f[n]) \/ (n = 1 /\ g[n] = m)
  BY <1>15
<1>17. ASSUME NEW n \in 1 .. k
       PROVE  \/ Intact(g[n])' /\ lastChecked' < g[n].checkpoint
              \/ n = 1 /\ g[n].checkpoint = 0 /\ Broken(g[n].bytes)
  <2>1. CASE n # 1 /\ g[n] = f[n]
    BY <1>2, <1>3, <1>7, <2>1
  <2>2. CASE n = 1 /\ g[n] = m
    BY <1>11, <1>13, <2>2
  <2> QED BY <1>16, <2>1, <2>2
<1>18. \A n \in 1 .. k : g[n].checkpoint <= f[n].checkpoint /\ f[n].checkpoint \in Nat /\ g[n].checkpoint \in Nat
  <2>1. \A n \in 1 .. k : f[n].checkpoint \in Nat
    <3>1. \A n \in 1 .. k : f[n] \in Messages
      BY <1>5
    <3> QED BY <3>1 DEF Messages
  <2> QED BY <1>13, <1>16, <2>1
<1>19. ASSUME NEW n \in 1 .. k, NEW j \in 1 .. k, n < j PROVE g[n].checkpoint < g[j].checkpoint
  <2>1. j # 1 /\ g[j] = f[j]
    BY <1>16, <1>19
  <2>2. f[n].checkpoint < f[j].checkpoint
    BY <1>7, <1>19
  <2>3. g[n].checkpoint <= f[n].checkpoint /\ f[n].checkpoint \in Nat /\ g[n].checkpoint \in Nat
        /\ f[j].checkpoint \in Nat
    BY <1>18
  <2> QED BY <2>1, <2>2, <2>3
<1>20. FifoInv'
  <2>1. \A n \in 1 .. k :
           \/ (g[n].checkpoint \in 1 .. sent' /\ g[n].bytes = Frame(CounterOf[g[n].checkpoint], g[n].checkpoint))
              /\ lastChecked' < g[n].checkpoint
           \/ n = 1 /\ g[n].checkpoint = 0 /\ Broken(g[n].bytes)
    BY <1>17 DEF Intact
  <2> QED BY <1>15, <1>19, <2>1 DEF FifoInv, Intact
<1>21. QueueInv'
  <2>1. \A n \in 1 .. k, j \in 1 .. l : g[n].checkpoint < q[j].checkpoint
    <3> SUFFICES ASSUME NEW n \in 1 .. k, NEW j \in 1 .. l PROVE g[n].checkpoint < q[j].checkpoint
      OBVIOUS
    <3>1. q[j].checkpoint \in Nat /\ f[n].checkpoint < q[j].checkpoint
      <4>1. q[j] \in Messages
        BY <1>5
      <4> QED BY <1>7, <4>1 DEF Messages
    <3>2. g[n].checkpoint <= f[n].checkpoint /\ f[n].checkpoint \in Nat /\ g[n].checkpoint \in Nat
      BY <1>18
    <3>3. \A x, y, z \in Nat : x <= y /\ y < z => x < z
      OBVIOUS
    <3> QED BY <3>1, <3>2, <3>3, Zenon
  <2>2. \A n \in 1 .. l :
           (q[n].checkpoint \in 1 .. sent' /\ q[n].bytes = Frame(CounterOf[q[n].checkpoint], q[n].checkpoint))
           /\ lastChecked' < q[n].checkpoint
    BY <1>3, <1>7 DEF Intact
  <2> QED BY <1>3, <1>4, <1>5, <1>7, <1>15, <2>1, <2>2 DEF QueueInv, Intact
<1> QED BY <1>1, <1>20, <1>21 DEF ChannelInv

\* The receiver checks the next message, and delivers or drops it.
LEMMA ReceiveKeeps == ChannelInv /\ onCheckpointReceive => ChannelInv'
<1> SUFFICES ASSUME ChannelInv, onCheckpointReceive PROVE ChannelInv'
  OBVIOUS
<1>1. fifo \in Seq(Messages) /\ fifo # << >> /\ Head(fifo) = fifo[1] /\ 1 \in 1 .. Len(fifo)
  BY ChannelFacts DEF onCheckpointReceive
<1>2. PICK m : m = fifo[1] /\ m = Head(fifo)
  BY <1>1
<1>3. PICK verdict : verdict = Check(mCheckingCounter, m.bytes)
  OBVIOUS
<1>4. /\ mCheckingCounter' = IF verdict \in {"kNoNewData", "kWrongCrc"} THEN mCheckingCounter
                             ELSE m.bytes[cCounterOffset + 1] % 16
      /\ delivered' = IF verdict # "kOk" THEN delivered
                      ELSE Append(delivered, Number(ExtractInteger(m.bytes, cE2eHeaderSize)))
      /\ lastChecked' = IF m.checkpoint = 0 THEN lastChecked ELSE m.checkpoint
      /\ refused' = IF verdict # "kOk" /\ m.checkpoint = lastChecked + 1
                    THEN refused \union {m.checkpoint} ELSE refused
      /\ fifo' = Tail(fifo)
      /\ UNCHANGED <<mProtectingCounter, mSendQueue, sent>>
  BY <1>2, <1>3 DEF onCheckpointReceive
<1>5. /\ sent \in Nat /\ lastChecked \in 0 .. sent /\ CountersInv
      /\ \/ Intact(m) /\ lastChecked < m.checkpoint
         \/ m.checkpoint = 0 /\ Broken(m.bytes)
  BY <1>1, <1>2, ChannelFacts
<1>6. CASE m.checkpoint = 0 /\ Broken(m.bytes)
  <2>1. verdict = "kWrongCrc"
    BY <1>3, <1>6, CheckBroken
  <2>2. /\ mCheckingCounter' = mCheckingCounter /\ delivered' = delivered /\ lastChecked' = lastChecked
        /\ refused' = refused
    <3>1. 0 # lastChecked + 1
      BY <1>5
    <3> QED BY <1>4, <1>6, <2>1, <3>1
  <2>3. CountersInv' /\ DeliveredInv'
    BY <1>4, <2>2 DEF ChannelInv, CountersInv, DeliveredInv
  <2>4. FifoInv' /\ QueueInv'
    BY <1>1, <1>4, <2>2, TailKeeps
  <2> QED BY <2>3, <2>4 DEF ChannelInv
<1>7. CASE Intact(m) /\ lastChecked < m.checkpoint
  <2>1. /\ m.checkpoint \in 1 .. sent /\ m.checkpoint \in 1 .. MaxSent /\ Sound(m.bytes)
        /\ m.bytes[cCounterOffset + 1] % 16 = CounterOf[m.checkpoint]
        /\ Number(ExtractInteger(m.bytes, cE2eHeaderSize)) = m.checkpoint
    BY <1>5, <1>7, IntactIs DEF Intact
  <2>2. verdict \in {"kOk", "kRepeated", "kWrongSequence"}
    BY <1>3, <2>1, CheckSound
  <2>3. mCheckingCounter' = CounterOf[m.checkpoint] /\ lastChecked' = m.checkpoint
    BY <1>4, <2>1, <2>2
  <2>4. m.checkpoint = lastChecked + 1 => verdict = "kOk"
    <3> SUFFICES ASSUME m.checkpoint = lastChecked + 1 PROVE verdict = "kOk"
      OBVIOUS
    <3>1. CounterOf[m.checkpoint] = NextCounter(CounterOf[m.checkpoint - 1]) /\ m.checkpoint - 1 = lastChecked
      BY <1>5, <2>1, CounterExists
    <3>2. lastChecked \in 0 .. MaxSent /\ mCheckingCounter = CounterOf[lastChecked]
      BY <1>5, SentIs DEF CountersInv
    <3>3. mCheckingCounter \in 0 .. cCounterMax
      BY <3>2, CounterExists
    <3>4. m.bytes[cCounterOffset + 1] % 16 = NextCounter(mCheckingCounter)
      BY <2>1, <3>1, <3>2
    <3> QED BY <1>3, <2>1, <3>3, <3>4, CheckSound, NextCounterIs
  <2>5. refused' = {}
    BY <1>4, <1>5, <2>4 DEF CountersInv
  <2>6. CountersInv'
    <3>1. lastChecked' \in 0 .. sent' /\ sent' = sent
      BY <1>4, <1>5, <2>1, <2>3
    <3>2. mProtectingCounter' = CounterOf[sent'] /\ sent' \in 0 .. MaxSent
      BY <1>4, <1>5 DEF CountersInv
    <3>3. mCheckingCounter' = CounterOf[lastChecked']
      BY <2>3
    <3> QED BY <2>5, <3>1, <3>2, <3>3 DEF CountersInv
  <2>7. DeliveredInv'
    <3>1. /\ delivered \in Seq(Nat)
          /\ \A i \in 1 .. Len(delivered) : delivered[i] \in 1 .. lastChecked
          /\ \A i \in 1 .. Len(delivered) : i > 1 => delivered[i - 1] < delivered[i]
      BY DEF ChannelInv, DeliveredInv
    <3>2. CASE delivered' = delivered
      BY <1>5, <1>7, <2>1, <2>3, <3>1, <3>2 DEF DeliveredInv
    <3>3. CASE delivered' = Append(delivered, m.checkpoint)
      <4>1. PICK l \in Nat : l = Len(delivered)
        BY <3>1
      <4>2. /\ delivered' \in Seq(Nat) /\ Len(delivered') = l + 1
            /\ \A i \in 1 .. l : delivered'[i] = delivered[i]
            /\ delivered'[l + 1] = m.checkpoint
        BY <2>1, <3>1, <3>3, <4>1, OneMore
      <4>3. \A i \in 1 .. l + 1 : i \in 1 .. l \/ i = l + 1
        OBVIOUS
      <4>4. ASSUME NEW i \in 1 .. l + 1
            PROVE  delivered'[i] \in 1 .. m.checkpoint /\ (i > 1 => delivered'[i - 1] < delivered'[i])
        <5>1. CASE i \in 1 .. l
          <6>1. delivered[i] \in 1 .. lastChecked /\ delivered'[i] = delivered[i]
            BY <3>1, <4>1, <4>2, <5>1
          <6>2. i > 1 => i - 1 \in 1 .. l
            BY <5>1
          <6>3. i > 1 => delivered'[i - 1] = delivered[i - 1] /\ delivered[i - 1] < delivered[i]
            BY <3>1, <4>1, <4>2, <5>1, <6>2
          <6> QED BY <1>5, <1>7, <2>1, <6>1, <6>3
        <5>2. CASE i = l + 1
          <6>1. i > 1 => i - 1 \in 1 .. l
            BY <5>2
          <6>2. i > 1 => delivered'[i - 1] = delivered[i - 1] /\ delivered[i - 1] \in 1 .. lastChecked
            BY <3>1, <4>1, <4>2, <6>1
          <6>3. \A d \in 1 .. lastChecked : d < m.checkpoint
            BY <1>5, <1>7, <2>1
          <6>4. delivered'[i] = m.checkpoint
            BY <4>2, <5>2
          <6> QED BY <2>1, <6>2, <6>3, <6>4
        <5> QED BY <4>3, <5>1, <5>2
      <4> QED BY <2>3, <4>2, <4>4 DEF DeliveredInv
    <3> QED BY <1>4, <2>1, <3>2, <3>3
  <2>8. FifoInv' /\ QueueInv'
    BY <1>1, <1>2, <1>4, <1>7, <2>3, TailKeeps
  <2> QED BY <2>6, <2>7, <2>8 DEF ChannelInv
<1> QED BY <1>5, <1>6, <1>7

\* Every step of the channel keeps the invariant.
LEMMA ChannelSteps == ChannelInv /\ [ChannelNext]_channelVars => ChannelInv'
<1> SUFFICES ASSUME ChannelInv, [ChannelNext]_channelVars PROVE ChannelInv'
  OBVIOUS
<1>1. CASE UNCHANGED channelVars
  <2>1. \A m : Intact(m) => Intact(m)'
    BY <1>1 DEF Intact, channelVars
  <2> QED BY <1>1, <2>1 DEF channelVars, ChannelInv, CountersInv, FifoInv, QueueInv, DeliveredInv, Intact
<1>2. CASE \E i \in 1 .. 6, flip \in Flips : Corrupt(i, flip)
  BY <1>2, CorruptKeeps
<1> QED BY <1>1, <1>2, SendKeeps, WriteKeeps, StealKeeps, ReceiveKeeps DEF ChannelNext

\* CheckpointsArrive, for every width of the counter and every number of
\* checkpoints: whatever FifoCheckpointCommunicator loses and whichever byte of a
\* message changes, onCheckpointReceive delivers only what was sent, in that
\* order and once, and drops no checkpoint that comes right after the one before
\* it.
THEOREM CheckpointsAlwaysArrive == ChannelSpec => []CheckpointsArrive
<1>1. ChannelInv => CheckpointsArrive
  <2> SUFFICES ASSUME ChannelInv PROVE CheckpointsArrive
    OBVIOUS
  <2>1. SuccessorIsDelivered
    BY DEF ChannelInv, CountersInv, SuccessorIsDelivered
  <2>2. /\ delivered \in Seq(Nat)
        /\ \A i \in 1 .. Len(delivered) : delivered[i] \in 1 .. lastChecked
        /\ \A i \in 1 .. Len(delivered) : i > 1 => delivered[i - 1] < delivered[i]
    BY DEF ChannelInv, DeliveredInv
  <2>3. \A d \in 1 .. lastChecked : d \in 1 .. sent
    BY ChannelFacts
  <2>4. DOMAIN delivered = 1 .. Len(delivered)
    BY <2>2
  <2>5. CheckpointsIntact
    BY <2>2, <2>3, <2>4 DEF CheckpointsIntact
  <2> QED BY <2>1, <2>5 DEF CheckpointsArrive
<1> QED BY <1>1, ChannelStarts, ChannelSteps, PTL DEF ChannelSpec

=============================================================================
