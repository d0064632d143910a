--------------------------- MODULE SomeIpMessages ---------------------------
(***************************************************************************)
(* The bytes of SOME/IP: service-discovery messages with their entries and *)
(* options, put together by an agent, sent and read by another one; and    *)
(* requests of remote procedure calls, which come as a stream that is cut  *)
(* anywhere and has to be put together again.                              *)
(***************************************************************************)
EXTENDS Naturals, Sequences, SequencesExt

CONSTANTS
    Services,     \* arguments of the factories of service entries,
    Eventgroups,  \* those of event-group entries,
    Options,      \* and options
    Requests,     \* requests of remote procedure calls
    MaxEntries,   \* bound: entries of a message
    MaxOptions,   \* bound: options of a message
    MaxRequests,  \* bound: requests sent over the stream
    MaxSession    \* 65535

\* std::uint8_t, std::uint16_t, the 24 bits of a time to live, and std::uint32_t.
Byte == 0 .. 255
Short == {n \in Nat : n < 65536}
TimeToLive == {n \in Nat : n \div 65536 < 256}
Wide == {n \in Nat : n \div 65536 < 65536}

Headers ==
    [messageId : Short \X Short, clientId : Short, sessionId : Short, protocolVersion : Byte,
     interfaceVersion : Byte, messageType : Byte, returnCode : Byte]

EntryArguments ==
    [serviceId : Short, instanceId : Short, majorVersion : Byte, ttl : TimeToLive,
     last : Short \X Short]

LoadBalancingOptions ==
    [type : {"LoadBalancing"}, discardable : BOOLEAN, priority : Short, weight : Short]

EndpointOptions ==
    [type : {"IPv4Endpoint", "IPv4Multicast", "IPv4SdEndpoint"}, discardable : BOOLEAN,
     ip : Byte \X Byte \X Byte \X Byte, protocol : Byte, port : Short]

OptionRecords ==
    LoadBalancingOptions
        \union {o \in EndpointOptions :
                   o.type = "IPv4Multicast" => o.ip[1] \in 224 .. 239 /\ o.protocol = 17}

\* The factories refuse a time to live of zero, a counter of more than four bits
\* and an address that is not one of a multicast.
ASSUME ServicesAssumption == Services \subseteq {a \in EntryArguments : a.ttl > 0}
ASSUME EventgroupsAssumption == Eventgroups \subseteq {a \in EntryArguments : a.last[1] <= 15}
ASSUME OptionsAssumption == Options \subseteq OptionRecords
\* A datagram has no room for more entries; with more options the four bits in
\* which an entry counts those of a list might overflow, which nothing checks.
ASSUME BoundsAssumption == MaxEntries \in 0 .. 4095 /\ MaxOptions \in 0 .. 15
ASSUME SessionAssumption == MaxSession \in Short \ {0}
ASSUME RequestsAssumption ==
    \A r \in Requests : /\ r \in [header : Headers, rpcPayload : Seq(Byte)]
                         /\ 8 + Len(r.rpcPayload) \in Wide

VARIABLES
    entry,      \* the entry under construction
    mSessionId, \* the SomeIpSdMessage: its session id,
    mRebooted,  \* reboot flag
    mEntries,   \* and entries
    wire,       \* what was sent, and the message it was made of
    parsed,     \* what was made of it
    wrapped,    \* history: the session id has wrapped
    stream,     \* the bytes of the connection that were not read yet
    mReceiveBuffer,  \* SocketRpcServer::mReceiveBuffer
    requested,  \* history: the requests sent
    invoked     \* the requests handed to TryInvokeHandler

sdVars == <<entry, mSessionId, mRebooted, mEntries, wire, parsed, wrapped>>
streamVars == <<stream, mReceiveBuffer, requested, invoked>>
wireVars == <<sdVars, streamVars>>

NoEntry == [type |-> "none"]
NoWire == [bytes |-> << >>]
NothingYet == [is |-> "nothing"]
Refused == [is |-> "refused"]

-----------------------------------------------------------------------------
(* payload_helper: a short is two bytes; an integer is written as two shorts *)

Inject(short) == <<short \div 256, short % 256>>
InjectInteger(pair) == Inject(pair[1]) \o Inject(pair[2])

Word(n) == <<n \div 65536, n % 65536>>
Number(pair) == 65536 * pair[1] + pair[2]

\* Reading past the end is noticed by whoever asks for the size (at throws).
ByteAt(bytes, i) == IF i < Len(bytes) THEN bytes[i + 1] ELSE 0
ExtractShort(bytes, i) == 256 * ByteAt(bytes, i) + ByteAt(bytes, i + 1)
ExtractInteger(bytes, i) == <<ExtractShort(bytes, i), ExtractShort(bytes, i + 2)>>

-----------------------------------------------------------------------------
(* Options *)

OptionType == [LoadBalancing |-> 2, IPv4Endpoint |-> 4, IPv4Multicast |-> 20, IPv4SdEndpoint |-> 36]
TypeOf(byte) == {t \in DOMAIN OptionType : OptionType[t] = byte}
Udp == 17

\* Ipv4Address::Inject and Extract.
InjectAddress(ip) == <<ip[1], ip[2], ip[3], ip[4]>>
ExtractAddress(bytes, i) == SubSeq(bytes, i + 1, i + 4)

LoadBalancingPayload(o) == Inject(o.priority) \o Inject(o.weight)
EndpointPayload(o) == InjectAddress(o.ip) \o <<0, o.protocol>> \o Inject(o.port)

OptionLength(o) == IF o.type = "LoadBalancing" THEN 5 ELSE 9

\* BasePayload, and what each kind of option adds to it.
OptionPayload(o) ==
    Inject(OptionLength(o)) \o <<OptionType[o.type], IF o.discardable THEN 1 ELSE 0>>
    \o (IF o.type = "LoadBalancing" THEN LoadBalancingPayload(o) ELSE EndpointPayload(o))

OptionSize(byte) == IF byte = OptionType.LoadBalancing THEN 8 ELSE 12

LoadBalancing(bytes, i, discardable) ==
    [type |-> "LoadBalancing", discardable |-> discardable,
     priority |-> ExtractShort(bytes, i), weight |-> ExtractShort(bytes, i + 2)]

\* The factory of a multicast endpoint takes no protocol: it is always UDP.
Endpoint(bytes, i, type, discardable) ==
    [type |-> type, discardable |-> discardable, ip |-> ExtractAddress(bytes, i),
     protocol |-> IF type = "IPv4Multicast" THEN Udp ELSE ByteAt(bytes, i + 5),
     port |-> ExtractShort(bytes, i + 6)]

DeserializeOption(bytes, i) ==
    LET type == CHOOSE t \in TypeOf(ByteAt(bytes, i + 2)) : TRUE
        discardable == ByteAt(bytes, i + 3) # 0
    IN  IF type = "LoadBalancing" THEN LoadBalancing(bytes, i + 4, discardable)
        ELSE Endpoint(bytes, i + 4, type, discardable)

\* It throws for a type it does not know, and past the end of the payload.
OptionReadable(bytes, i) ==
    /\ i + 3 < Len(bytes) /\ TypeOf(ByteAt(bytes, i + 2)) # {}
    /\ i + OptionSize(ByteAt(bytes, i + 2)) <= Len(bytes)
    /\ ByteAt(bytes, i + 2) = OptionType.IPv4Multicast => ByteAt(bytes, i + 4) \in 224 .. 239

-----------------------------------------------------------------------------
(* Entries *)

EntryType == [Finding |-> 0, Offering |-> 1, Subscribing |-> 6, Acknowledging |-> 7]
ServiceTypes == {"Finding", "Offering"}

\* An entry without options: its last word is the minor version, or the counter
\* and the id of the event group.
NewEntry(type, arguments, ttl) ==
    [type |-> type, serviceId |-> arguments.serviceId, instanceId |-> arguments.instanceId,
     majorVersion |-> arguments.majorVersion, ttl |-> ttl, last |-> arguments.last,
     first |-> << >>, second |-> << >>]

FindServiceEntry(arguments) == NewEntry("Finding", arguments, arguments.ttl)
OfferServiceEntry(arguments) == NewEntry("Offering", arguments, arguments.ttl)
StopOfferEntry(arguments) == NewEntry("Offering", arguments, 0)
SubscribeEventEntry(arguments) == NewEntry("Subscribing", arguments, 16777215)
UnsubscribeEventEntry(arguments) == NewEntry("Subscribing", arguments, 0)
AcknowledgeEntry(e) == NewEntry("Acknowledging", e, e.ttl)
NegativeAcknowledgeEntry(e) == NewEntry("Acknowledging", e, 0)

ServiceEntries(arguments) ==
    {FindServiceEntry(arguments), OfferServiceEntry(arguments), StopOfferEntry(arguments)}
EventgroupEntries(arguments) ==
    LET subscription == SubscribeEventEntry(arguments)
    IN  {subscription, UnsubscribeEventEntry(arguments), AcknowledgeEntry(subscription),
         NegativeAcknowledgeEntry(subscription)}

AllOptions(e) == e.first \o e.second
ContainsOption(e, type) == \E i \in DOMAIN AllOptions(e) : AllOptions(e)[i].type = type

\* Entry::ValidateOption, and the overrides of its two kinds.
ValidateBaseOption(e, o) ==
    /\ o.type # "IPv4SdEndpoint"
    /\ o.type = "LoadBalancing" => ~ContainsOption(e, "LoadBalancing")
ValidateServiceOption(e, o) == o.type # "IPv4Multicast"
isAcknowledge(e) == e.type = "Acknowledging" /\ e.ttl > 0
ValidateEventgroupOption(e, o) ==
    \/ o.type = "IPv4Endpoint" /\ e.type = "Subscribing"
    \/ o.type = "IPv4Multicast" /\ isAcknowledge(e) /\ ~ContainsOption(e, "IPv4Multicast")
ValidateOption(e, o) ==
    /\ ValidateBaseOption(e, o)
    /\ IF e.type \in ServiceTypes THEN ValidateServiceOption(e, o) ELSE ValidateEventgroupOption(e, o)

\* The counts of the options share a byte, and the time to live shares a word
\* with the major version.
BasePayload(e, optionIndex) ==
    <<EntryType[e.type], optionIndex, optionIndex + Len(e.first),
      16 * Len(e.first) + Len(e.second)>>
    \o Inject(e.serviceId) \o Inject(e.instanceId)
    \o <<e.majorVersion, e.ttl \div 65536>> \o Inject(e.ttl % 65536)
EntryPayload(e, optionIndex) == BasePayload(e, optionIndex) \o InjectInteger(e.last)

cEntrySize == 16

ExtractTimeToLive(bytes, i) == 65536 * ByteAt(bytes, i) + ExtractShort(bytes, i + 1)

\* ServiceEntry::Deserialize: the minor version, and one of the factories.
DeserializeService(bytes, i, type, arguments) ==
    LET complete == [arguments EXCEPT !.last = ExtractInteger(bytes, i)]
    IN  CASE type = "Finding" -> FindServiceEntry(complete)
          [] type = "Offering" /\ complete.ttl > 0 -> OfferServiceEntry(complete)
          [] OTHER -> StopOfferEntry(complete)

\* EventgroupEntry::Deserialize: the upper byte of the counter is skipped, and a
\* subscription gets the longest time to live.
DeserializeEventgroup(bytes, i, type, arguments) ==
    LET complete == [arguments EXCEPT !.last = <<ByteAt(bytes, i + 1), ExtractShort(bytes, i + 2)>>]
    IN  CASE type = "Acknowledging" -> AcknowledgeEntry(complete)
          [] type = "Subscribing" /\ complete.ttl > 0 -> SubscribeEventEntry(complete)
          [] OTHER -> UnsubscribeEventEntry(complete)

\* EntryDeserializer; the indices of the options are skipped.
DeserializeEntry(bytes, i) ==
    LET type == CHOOSE t \in DOMAIN EntryType : EntryType[t] = ByteAt(bytes, i)
        arguments ==
            [serviceId |-> ExtractShort(bytes, i + 4), instanceId |-> ExtractShort(bytes, i + 6),
             majorVersion |-> ByteAt(bytes, i + 8),
             ttl |-> ExtractTimeToLive(bytes, i + 9), last |-> <<0, 0>>]
    IN  IF type \in ServiceTypes THEN DeserializeService(bytes, i + 12, type, arguments)
        ELSE DeserializeEventgroup(bytes, i + 12, type, arguments)

\* It throws for an unknown type, for a search without time to live and for a
\* counter of more than four bits.
EntryReadable(bytes, i) ==
    /\ i + cEntrySize <= Len(bytes)
    /\ \E t \in DOMAIN EntryType : EntryType[t] = ByteAt(bytes, i)
    /\ LET e == DeserializeEntry(bytes, i)
       IN  /\ e.type = "Finding" => e.ttl > 0
           /\ e.type \notin ServiceTypes => e.last[1] <= 15

-----------------------------------------------------------------------------
(* SomeIpMessage and SomeIpSdMessage *)

\* The header: message id, length, client, session, versions, type and code.
SomeIpPayload(m, length) ==
    InjectInteger(m.messageId) \o InjectInteger(Word(length)) \o Inject(m.clientId)
    \o Inject(m.sessionId) \o <<m.protocolVersion, m.interfaceVersion, m.messageType, m.returnCode>>

cHeaderSize == 16

DeserializeHeader(bytes) ==
    [messageId |-> ExtractInteger(bytes, 0), clientId |-> ExtractShort(bytes, 8),
     sessionId |-> ExtractShort(bytes, 10), protocolVersion |-> ByteAt(bytes, 12),
     interfaceVersion |-> ByteAt(bytes, 13), messageType |-> ByteAt(bytes, 14), returnCode |-> ByteAt(bytes, 15)]

SdHeader(sessionId) ==
    [messageId |-> <<65535, 33024>>, clientId |-> 0, sessionId |-> sessionId,
     protocolVersion |-> 1, interfaceVersion |-> 1, messageType |-> 2, returnCode |-> 0]

getEntriesLength(entries) == cEntrySize * Len(entries)

\* The options of a message, in the order of its entries.
MessageOptions(entries) == FlattenSeq([k \in DOMAIN entries |-> AllOptions(entries[k])])

getOptionsLength(entries) ==
    LET options == MessageOptions(entries)
        sum[n \in 0 .. Len(options)] ==
            IF n = 0 THEN 0 ELSE sum[n - 1] + 3 + OptionLength(options[n])
    IN  sum[Len(options)]

SdLength(entries) == 8 + 4 + 4 + getEntriesLength(entries) + 4 + getOptionsLength(entries)

cRebootedFlag == <<49152, 0>>
cNotRebootedFlag == <<16384, 0>>

\* Entries are written in order, and all their options after all of them.  The
\* index of the first option counts each option twice.
EntriesPayload(entries) ==
    FlattenSeq([k \in DOMAIN entries |->
                   EntryPayload(entries[k], 2 * Len(MessageOptions(SubSeq(entries, 1, k - 1))))])

OptionsPayload(options) == FlattenSeq([k \in DOMAIN options |-> OptionPayload(options[k])])

SdPayload(m) ==
    SomeIpPayload(SdHeader(m.sessionId), SdLength(m.entries))
    \o InjectInteger(IF m.rebooted THEN cRebootedFlag ELSE cNotRebootedFlag)
    \o InjectInteger(Word(getEntriesLength(m.entries))) \o EntriesPayload(m.entries)
    \o InjectInteger(Word(getOptionsLength(m.entries)))
    \o OptionsPayload(MessageOptions(m.entries))

\* Where the reader of a message is, and what it has read; it may have thrown.
Reading(at, option, e, entries) ==
    [ok |-> TRUE, at |-> at, option |-> option, entry |-> e, entries |-> entries]
Thrown == [ok |-> FALSE]

\* Reads an option, and adds it to the entry when the entry allows it.
ReadOption(bytes, s, field) ==
    IF ~s.ok \/ ~OptionReadable(bytes, s.option) THEN Thrown
    ELSE LET o == DeserializeOption(bytes, s.option)
         IN  IF ~ValidateOption(s.entry, o) THEN Thrown
             ELSE Reading(s.at, s.option + OptionSize(OptionType[o.type]),
                          [s.entry EXCEPT ![field] = Append(@, o)], s.entries)

ReadOptions(bytes, s, field, n) ==
    LET read[k \in 0 .. n] == IF k = 0 THEN s ELSE ReadOption(bytes, read[k - 1], field)
    IN  read[n]

\* Mutant: the options of every entry are looked for at the beginning.
ReadEntryAgain(bytes, s, optionsOffset) ==
    IF ~s.ok \/ ~EntryReadable(bytes, s.at) THEN Thrown
    ELSE LET counts == ByteAt(bytes, s.at + 3)
             start == Reading(s.at, optionsOffset, DeserializeEntry(bytes, s.at), s.entries)
             s1 == ReadOptions(bytes, start, "first", counts \div 16)
             s2 == ReadOptions(bytes, s1, "second", counts % 16)
         IN  IF ~s2.ok THEN Thrown
             ELSE Reading(s2.at + cEntrySize, s2.option, s2.entry, Append(s2.entries, s2.entry))

\* The options of the entries follow each other: the indices are not looked at.
ReadEntry(bytes, s, optionsOffset) ==
    IF ~s.ok \/ ~EntryReadable(bytes, s.at) THEN Thrown
    ELSE LET counts == ByteAt(bytes, s.at + 3)
             start == Reading(s.at, s.option, DeserializeEntry(bytes, s.at), s.entries)
             s1 == ReadOptions(bytes, start, "first", counts \div 16)
             s2 == ReadOptions(bytes, s1, "second", counts % 16)
         IN  IF ~s2.ok THEN Thrown
             ELSE Reading(s2.at + cEntrySize, s2.option, s2.entry, Append(s2.entries, s2.entry))

\* SomeIpSdMessage::Deserialize: the entries, and the message.
ReadEntries(bytes, at, options, n) ==
    LET read[k \in 0 .. n] ==
            IF k = 0 THEN Reading(at, options, NoEntry, << >>)
            ELSE ReadEntry(bytes, read[k - 1], options)
    IN  read[n]

SdDeserialize(bytes) ==
    LET flag == ExtractInteger(bytes, cHeaderSize)
        length == Number(ExtractInteger(bytes, cHeaderSize + 4))
        at == cHeaderSize + 8
        s == ReadEntries(bytes, at, at + length + 4, length \div cEntrySize)
    IN  IF Len(bytes) < at \/ flag \notin {cRebootedFlag, cNotRebootedFlag} \/ ~s.ok
        THEN Refused
        ELSE [is |-> "message", sessionId |-> DeserializeHeader(bytes).sessionId,
              rebooted |-> flag = cRebootedFlag, entries |-> s.entries]

-----------------------------------------------------------------------------
(* SomeIpRpcMessage *)

RpcPayload(r) == SomeIpPayload(r.header, 8 + Len(r.rpcPayload)) \o r.rpcPayload

RpcDeserialize(bytes) ==
    [header |-> DeserializeHeader(bytes),
     rpcPayload |-> SubSeq(bytes, cHeaderSize + 1, (cHeaderSize + Number(ExtractInteger(bytes, 4))) - 8)]

-----------------------------------------------------------------------------
WireInit ==
    /\ entry = NoEntry /\ mSessionId = 1 /\ mRebooted = TRUE /\ mEntries = << >>
    /\ wire = NoWire /\ parsed = NothingYet /\ wrapped = FALSE
    /\ stream = << >> /\ mReceiveBuffer = << >> /\ requested = << >> /\ invoked = << >>

\* One of the Create factories.
CreateEntry(e) ==
    /\ entry = NoEntry /\ wire = NoWire /\ Len(mEntries) < MaxEntries
    /\ entry' = e
    /\ UNCHANGED <<mSessionId, mRebooted, mEntries, wire, parsed, wrapped, streamVars>>

\* AddFirstOption and AddSecondOption throw when the option is not valid.
AddOption(field, o) ==
    /\ entry # NoEntry /\ Len(MessageOptions(Append(mEntries, entry))) < MaxOptions
    /\ ValidateOption(entry, o)
    /\ entry' = [entry EXCEPT ![field] = Append(@, o)]
    /\ UNCHANGED <<mSessionId, mRebooted, mEntries, wire, parsed, wrapped, streamVars>>

AddEntry ==
    /\ entry # NoEntry
    /\ mEntries' = Append(mEntries, entry)
    /\ entry' = NoEntry
    /\ UNCHANGED <<mSessionId, mRebooted, wire, parsed, wrapped, streamVars>>

\* Mutant: the flag is set by the last wrap only.
IncrementSessionIdForgets ==
    /\ wire # NoWire
    /\ wire' = NoWire /\ parsed' = NothingYet
    /\ mSessionId' = IF mSessionId = MaxSession THEN 1 ELSE mSessionId + 1
    /\ mRebooted' = (mSessionId = MaxSession)
    /\ wrapped' = (wrapped \/ mSessionId = MaxSession)
    /\ UNCHANGED <<entry, mEntries, streamVars>>

IncrementSessionId ==
    /\ wire # NoWire
    /\ wire' = NoWire /\ parsed' = NothingYet
    /\ mSessionId' = IF mSessionId = MaxSession THEN 1 ELSE mSessionId + 1
    /\ mRebooted' = (mRebooted /\ mSessionId # MaxSession)
    /\ wrapped' = (wrapped \/ mSessionId = MaxSession)
    /\ UNCHANGED <<entry, mEntries, streamVars>>

SdSend ==
    /\ wire = NoWire /\ entry = NoEntry
    /\ LET m == [is |-> "message", sessionId |-> mSessionId, rebooted |-> mRebooted,
                 entries |-> mEntries]
       IN  wire' = [bytes |-> SdPayload(m), message |-> m]
    /\ parsed' = NothingYet
    /\ UNCHANGED <<entry, mSessionId, mRebooted, mEntries, wrapped, streamVars>>

\* The first n bytes arrive, all of them or, if not, the header at least.
SdReceive(n) ==
    /\ wire # NoWire /\ parsed = NothingYet
    /\ parsed' = SdDeserialize(SubSeq(wire.bytes, 1, n))
    /\ UNCHANGED <<entry, mSessionId, mRebooted, mEntries, wire, wrapped, streamVars>>

\* A client writes a request to its connection.
RpcSend(r) ==
    /\ Len(requested) < MaxRequests
    /\ stream' = stream \o RpcPayload(r)
    /\ requested' = Append(requested, r)
    /\ UNCHANGED <<sdVars, mReceiveBuffer, invoked>>

\* One turn of the loop of SocketRpcServer::onReceive, if a message is complete.
TakeOne(s) ==
    LET total == 8 + Number(ExtractInteger(s.buffer, 4))
    IN  IF Len(s.buffer) < 8 \/ Len(s.buffer) < total THEN s
        ELSE [buffer |-> SubSeq(s.buffer, total + 1, Len(s.buffer)),
              taken |-> Append(s.taken, RpcDeserialize(SubSeq(s.buffer, 1, total)))]

\* Mutant: one message is taken out of what was read, and the rest is dropped.
TakeMessagesFirst(buffer) ==
    LET s == TakeOne([buffer |-> buffer, taken |-> << >>])
    IN  IF s.taken = << >> THEN s ELSE [s EXCEPT !.buffer = << >>]

\* The loop takes every message that is complete.
TakeMessages(buffer) ==
    LET loop[k \in 0 .. Len(buffer)] ==
            IF k = 0 THEN [buffer |-> buffer, taken |-> << >>] ELSE TakeOne(loop[k - 1])
    IN  loop[Len(buffer)]

\* A read returns the next n bytes.
RpcReceive(n) ==
    /\ stream # << >>
    /\ LET s == TakeMessages(mReceiveBuffer \o SubSeq(stream, 1, n))
       IN  mReceiveBuffer' = s.buffer /\ invoked' = invoked \o s.taken
    /\ stream' = SubSeq(stream, n + 1, Len(stream))
    /\ UNCHANGED <<sdVars, requested>>

SdNext ==
    \/ \E arguments \in Services : \E e \in ServiceEntries(arguments) : CreateEntry(e)
    \/ \E arguments \in Eventgroups : \E e \in EventgroupEntries(arguments) : CreateEntry(e)
    \/ \E o \in Options, field \in {"first", "second"} : AddOption(field, o)
    \/ AddEntry \/ IncrementSessionId \/ SdSend
    \/ \E n \in cHeaderSize .. Len(wire.bytes) : SdReceive(n)

StreamNext ==
    \/ \E r \in Requests : RpcSend(r)
    \/ \E n \in 1 .. Len(stream) : RpcReceive(n)

WireSpec == WireInit /\ [][SdNext \/ StreamNext]_wireVars

-----------------------------------------------------------------------------
(* Properties *)

\* What is read is what was sent, entry for entry and option for option, although
\* fields share bytes and options belong to entries only by their order; a
\* datagram that is cut short is read like that or not at all; and the length in
\* the header is that of what follows it.
RoundTrip ==
    wire # NoWire =>
        /\ parsed \in {NothingYet, Refused, wire.message}
        /\ SdDeserialize(wire.bytes) = wire.message
        /\ 8 + Number(ExtractInteger(wire.bytes, 4)) = Len(wire.bytes)

\* The reboot flag says whether the session id has wrapped, and a session id is
\* never zero: a receiver finds out about a restart by comparing the two.
RebootFlag == mRebooted = ~wrapped /\ mSessionId \in 1 .. MaxSession

\* However the stream is cut, each request is handed over once, in order, as
\* soon as its last byte was read, and nothing else is.
StreamIsCut ==
    /\ IsPrefix(invoked, requested)
    /\ stream = << >> => invoked = requested /\ mReceiveBuffer = << >>

=============================================================================
