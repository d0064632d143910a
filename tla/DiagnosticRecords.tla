------------------------- MODULE DiagnosticRecords -------------------------
(***************************************************************************)
(* DTCInformation: the trouble codes that are stored, with their status    *)
(* bytes, and the callbacks that are told of their changes.  Each callback *)
(* may be set at any time, and replaces the one before it.                 *)
(***************************************************************************)
EXTENDS Naturals, FiniteSets, Functions

CONSTANTS
    Dtcs,   \* trouble codes
    Bits    \* of a status byte, which is the set of those that are set

VARIABLES
    mStatuses,         \* the bytes of the codes that are stored
    mControlDtcStatus,
    notifiers,         \* which callbacks are set
    told               \* what each of them has heard last, if anything

recordVars == <<mStatuses, mControlDtcStatus, notifiers, told>>

Topics == {"count", "control", "status"}
StatusBytes == SUBSET Bits

\* The callbacks hear of a number, of a setting, and of the byte of a code: one
\* may remember those of all codes.
Told == [count : SUBSET (0 .. Cardinality(Dtcs)), control : SUBSET {"kDTCSettingOn"},
         status : UNION {[D -> StatusBytes] : D \in SUBSET Dtcs}]

Nothing == [d \in {} |-> {}]

RecordsTypeOK ==
    /\ DOMAIN mStatuses \subseteq Dtcs /\ mStatuses \in [DOMAIN mStatuses -> StatusBytes]
    /\ mControlDtcStatus \in {"kDTCSettingOn", "kDTCSettingOff"}
    /\ notifiers \subseteq Topics
    /\ told \in Told

RecordsInit ==
    /\ mStatuses = Nothing
    /\ mControlDtcStatus = "kDTCSettingOff"
    /\ notifiers = {}
    /\ told = [count |-> {}, control |-> {}, status |-> Nothing]

-----------------------------------------------------------------------------
Tell(topic, news) == told' = IF topic \in notifiers THEN [told EXCEPT ![topic] = news] ELSE told

With(bytes, dtc, byte) ==
    [d \in DOMAIN bytes \cup {dtc} |-> IF d = dtc THEN byte ELSE bytes[d]]

\* SetCurrentStatus stores a code with the whole byte, whatever the mask: the
\* number of codes is told, the status is not ...
StoreStatus(dtc, status) ==
    /\ dtc \notin DOMAIN mStatuses
    /\ mStatuses' = With(mStatuses, dtc, status)
    /\ Tell("count", {Cardinality(DOMAIN mStatuses')})
    /\ UNCHANGED <<mControlDtcStatus, notifiers>>

\* ... and flips the bit of the mask of one that is stored, where it differs.
EditStatus(dtc, mask, status) ==
    /\ dtc \in DOMAIN mStatuses
    /\ mask \in (mStatuses[dtc] \ status) \cup (status \ mStatuses[dtc])
    /\ mStatuses' = [mStatuses EXCEPT ![dtc] = IF mask \in @ THEN @ \ {mask} ELSE @ \cup {mask}]
    /\ Tell("status", With(told.status, dtc, mStatuses'[dtc]))
    /\ UNCHANGED <<mControlDtcStatus, notifiers>>

\* The number of codes is told, the end of the status is not.
Clear(dtc) ==
    /\ dtc \in DOMAIN mStatuses
    /\ mStatuses' = Restrict(mStatuses, DOMAIN mStatuses \ {dtc})
    /\ Tell("count", {Cardinality(DOMAIN mStatuses')})
    /\ UNCHANGED <<mControlDtcStatus, notifiers>>

\* Nothing sets it off again.
EnableControlDtc ==
    /\ mControlDtcStatus = "kDTCSettingOff"
    /\ mControlDtcStatus' = "kDTCSettingOn"
    /\ Tell("control", {"kDTCSettingOn"})
    /\ UNCHANGED <<mStatuses, notifiers>>

\* SetDTCStatusChangedNotifier, SetNumberOfStoredEntriesNotifier and
\* SetControlDtcStatusNotifier: a new callback has heard nothing.
SetNotifier(topic) ==
    /\ notifiers' = notifiers \cup {topic}
    /\ told' = [told EXCEPT ![topic] = IF topic = "status" THEN Nothing ELSE {}]
    /\ UNCHANGED <<mStatuses, mControlDtcStatus>>

-----------------------------------------------------------------------------
RecordsNext ==
    \/ \E d \in Dtcs :
          \/ Clear(d)
          \/ \E s \in StatusBytes : StoreStatus(d, s) \/ \E b \in Bits : EditStatus(d, b, s)
    \/ EnableControlDtc
    \/ \E t \in Topics : SetNotifier(t)

RecordsSpec == RecordsInit /\ [][RecordsNext]_recordVars

-----------------------------------------------------------------------------
(* Properties *)

\* The header promises a callback "if the status of any DTC is changed".  Whoever
\* remembers what it was told of a code knows its status, while it is stored.
StatusChangesAreTold ==
    \A d \in DOMAIN mStatuses \cap DOMAIN told.status : told.status[d] = mStatuses[d]

=============================================================================
