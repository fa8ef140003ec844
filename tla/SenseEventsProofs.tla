------------------------- MODULE SenseEventsProofs -------------------------
(***************************************************************************)
(* Proofs about SenseEvents, for any messages, settings and lists of apps: *)
(* every message is accounted for, whatever handlers, publications and the *)
(* app name timer do between its steps.                                    *)
(***************************************************************************)
EXTENDS SenseEvents, SequenceTheorems, TLAPS

\* What is known of each message; the values need no types but these.
Domains ==
    /\ settings \in SettingsSet
    /\ DOMAIN stage = Messages /\ DOMAIN event = Messages /\ DOMAIN counted = Messages
    /\ DOMAIN sending = Messages /\ DOMAIN accounts = Messages
    /\ DOMAIN received = Messages /\ DOMAIN errors = Messages
    /\ rejected \subseteq Messages

EventColumns == {"kind", "source", "has", "appName", "cats", "tags"}
Complete(m) == RequiredUserColumns \subseteq m.has
UserDue == Range(KnownAccounts("user")) \cap settings.credentials

\* Counted at once on arrival, unless its source's filters reject it.
CountFits(m) ==
    IF stage[m] \in {"unread", "rejected"} \/ ~settings.eventCount
    THEN counted[m] = <<>>
    ELSE Len(counted[m]) = 1

\* What a published message is owed is under way, has arrived or was counted as an error.
PublicationFits(m) ==
    /\ m.kind \in {"log", "user"} /\ event[m].kind = m.kind
    /\ m.kind = "user" => (RequiredUserColumns \subseteq event[m].has <=> Complete(m))
    /\ accounts[m] \in Seq(Range(KnownAccounts(m.kind)))
    /\ "influxdb" \in Enabled(m.kind) /\ (m.kind = "user" => Complete(m)) =>
          "influxdb" \in sending[m] \cup received[m] \/ "INFLUXDB_WRITE" \in errors[m]
    /\ "mqtt" \in Enabled(m.kind) =>
          \/ "mqtt" \in sending[m] \/ Topics(m) \subseteq received[m]
          \/ "MQTT_PUBLISH" \in errors[m]
    /\ m.kind = "user" /\ "newRelic" \in Enabled("user") =>
          \/ "newRelic" \in sending[m] /\ UserDue \subseteq Range(accounts[m]) \cup received[m]
          \/ UserDue \subseteq received[m] \/ "NEW_RELIC_POST" \in errors[m]

MessageFits(m) ==
    /\ CountFits(m)
    /\ m \in rejected => stage[m] = "rejected" /\ settings.trackRejected
    /\ stage[m] = "failed" => "UDP_LOG_EVENT" \in errors[m]
    /\ m.kind = "log" /\ stage[m] = "counting" =>
          event[m].kind = "log" /\ DOMAIN event[m] = EventColumns
    /\ stage[m] # "published" => received[m] = {} /\ sending[m] = {}
    /\ stage[m] = "published" => PublicationFits(m)

MessageInv == Domains /\ \A m \in Messages : MessageFits(m)

LEMMA MessageInvInit == Init => MessageInv
BY DEF Init, MessageInv, Domains, MessageFits, CountFits

\* A step of one message leaves what is known of the others alone.
Touches(m) ==
    /\ settings' = settings
    /\ DOMAIN stage' = Messages /\ DOMAIN event' = Messages /\ DOMAIN counted' = Messages
    /\ DOMAIN sending' = Messages /\ DOMAIN accounts' = Messages
    /\ DOMAIN received' = Messages /\ DOMAIN errors' = Messages
    /\ rejected' \in {rejected, rejected \cup {m}}
    /\ \A n \in Messages : n # m =>
          /\ stage'[n] = stage[n] /\ event'[n] = event[n] /\ counted'[n] = counted[n]
          /\ sending'[n] = sending[n] /\ accounts'[n] = accounts[n]
          /\ received'[n] = received[n] /\ errors'[n] = errors[n]

LEMMA OthersFit ==
    ASSUME MessageInv, NEW m \in Messages, Touches(m), MessageFits(m)'
    PROVE  MessageInv'
<1>1. Domains'
  BY DEF MessageInv, Domains, Touches
<1>2. ASSUME NEW n \in Messages PROVE MessageFits(n)'
  <2>1. CASE n = m
    BY <2>1
  <2>2. CASE n # m
    <3>1. /\ stage'[n] = stage[n] /\ event'[n] = event[n] /\ counted'[n] = counted[n]
          /\ sending'[n] = sending[n] /\ accounts'[n] = accounts[n]
          /\ received'[n] = received[n] /\ errors'[n] = errors[n] /\ settings' = settings
          /\ n \in rejected' <=> n \in rejected
      BY <2>2 DEF Touches
    <3>2. MessageFits(n)
      BY DEF MessageInv
    <3>3. CountFits(n)' <=> CountFits(n)
      BY <3>1 DEF CountFits
    <3>4. PublicationFits(n)' <=> PublicationFits(n)
      BY <3>1 DEF PublicationFits, Enabled, KnownAccounts, Topics, UserDue, Complete
    <3> QED BY <3>1, <3>2, <3>3, <3>4 DEF MessageFits
  <2> QED BY <2>1, <2>2
<1> QED BY <1>1, <1>2 DEF MessageInv

-----------------------------------------------------------------------------
(* Arrival: an event is counted.                                           *)

LEMMA CountedOnce ==
    ASSUME MessageInv, NEW m \in Messages, NEW key, Count(m, key), stage[m] = "unread",
           stage' = [stage EXCEPT ![m] = "counting"] \/ stage' = [stage EXCEPT ![m] = "skipped"],
           settings' = settings
    PROVE  /\ CountFits(m)'
           /\ DOMAIN counted' = Messages
           /\ \A n \in Messages : n # m => counted'[n] = counted[n]
<1>1. counted[m] = <<>> /\ DOMAIN counted = Messages /\ DOMAIN stage = Messages
  BY DEF MessageInv, MessageFits, CountFits, Domains
<1>2. stage'[m] \in {"counting", "skipped"}
  BY <1>1
<1>3. CASE settings.eventCount
  <2>1. counted' = [counted EXCEPT ![m] = Append(<<>>, key)]
    BY <1>1, <1>3 DEF Count
  <2>2. Len(Append(<<>>, key)) = 1
    <3>1. <<>> \in Seq({key}) /\ key \in {key}
      OBVIOUS
    <3> QED BY <3>1
  <2> QED BY <1>1, <1>2, <1>3, <2>1, <2>2 DEF CountFits
<1>4. CASE ~settings.eventCount
  BY <1>1, <1>2, <1>4 DEF Count, CountFits
<1> QED BY <1>3, <1>4

LEMMA SkipsFit ==
    ASSUME MessageInv, NEW m \in Messages,
           SkipLogEvent(m) \/ SkipPerfEvent(m) \/ SkipUserEvent(m)
    PROVE  MessageInv'
<1>1. /\ stage[m] = "unread" /\ stage' = [stage EXCEPT ![m] = "skipped"]
      /\ \E key : Count(m, key)
      /\ UNCHANGED <<settings, event, rejected, sending, accounts, received, errors>>
  BY DEF SkipLogEvent, SkipPerfEvent, SkipUserEvent, Arrives
<1>2. Domains /\ MessageFits(m)
  BY DEF MessageInv
<1>3. /\ CountFits(m)' /\ DOMAIN counted' = Messages
      /\ \A n \in Messages : n # m => counted'[n] = counted[n]
  BY <1>1, CountedOnce
<1>4. Touches(m)
  BY <1>1, <1>2, <1>3 DEF Touches, Domains
<1>5. stage'[m] = "skipped"
  BY <1>1, <1>2 DEF Domains
<1>6. MessageFits(m)'
  BY <1>1, <1>2, <1>3, <1>5 DEF MessageFits
<1> QED BY <1>4, <1>6, OthersFit

LEMMA RejectPerfEventFits ==
    ASSUME MessageInv, NEW m \in Messages, RejectPerfEvent(m)
    PROVE  MessageInv'
<1>1. /\ stage[m] = "unread" /\ stage' = [stage EXCEPT ![m] = "rejected"]
      /\ rejected' = IF settings.trackRejected THEN rejected \cup {m} ELSE rejected
      /\ UNCHANGED <<settings, event, counted, sending, accounts, received, errors>>
  BY DEF RejectPerfEvent, Arrives
<1>2. Domains /\ MessageFits(m)
  BY DEF MessageInv
<1>3. Touches(m)
  BY <1>1, <1>2 DEF Touches, Domains
<1>4. stage'[m] = "rejected"
  BY <1>1, <1>2 DEF Domains
<1>5. CountFits(m)'
  BY <1>1, <1>2, <1>4 DEF CountFits, MessageFits
<1>6. MessageFits(m)'
  BY <1>1, <1>2, <1>4, <1>5 DEF MessageFits
<1> QED BY <1>3, <1>6, OthersFit

LEMMA ReceiveLogEventFits ==
    ASSUME MessageInv, NEW m \in Messages, ReceiveLogEvent(m)
    PROVE  MessageInv'
<1>1. /\ stage[m] = "unread" /\ stage' = [stage EXCEPT ![m] = "counting"]
      /\ event' = [event EXCEPT ![m] = LogEvent(m)]
      /\ \E key : Count(m, key)
      /\ UNCHANGED <<settings, rejected, sending, accounts, received, errors>>
  BY DEF ReceiveLogEvent, Arrives
<1>2. Domains /\ MessageFits(m)
  BY DEF MessageInv
<1>3. /\ CountFits(m)' /\ DOMAIN counted' = Messages
      /\ \A n \in Messages : n # m => counted'[n] = counted[n]
  BY <1>1, CountedOnce
<1>4. Touches(m)
  BY <1>1, <1>2, <1>3 DEF Touches, Domains
<1>5. stage'[m] = "counting" /\ event'[m] = LogEvent(m)
  BY <1>1, <1>2 DEF Domains
<1>6. LogEvent(m).kind = "log" /\ DOMAIN LogEvent(m) = EventColumns
  BY DEF LogEvent, EventColumns
<1>7. MessageFits(m)'
  BY <1>1, <1>2, <1>3, <1>5, <1>6 DEF MessageFits
<1> QED BY <1>4, <1>7, OthersFit

LEMMA ReceiveUserEventFits ==
    ASSUME MessageInv, NEW m \in Messages, ReceiveUserEvent(m)
    PROVE  MessageInv'
<1>1. /\ stage[m] = "unread" /\ stage' = [stage EXCEPT ![m] = "counting"] /\ m.kind = "user"
      /\ \E key : Count(m, key)
      /\ UNCHANGED <<settings, event, rejected, sending, accounts, received, errors>>
  BY DEF ReceiveUserEvent, Arrives
<1>2. Domains /\ MessageFits(m)
  BY DEF MessageInv
<1>3. /\ CountFits(m)' /\ DOMAIN counted' = Messages
      /\ \A n \in Messages : n # m => counted'[n] = counted[n]
  BY <1>1, CountedOnce
<1>4. Touches(m)
  BY <1>1, <1>2, <1>3 DEF Touches, Domains
<1>5. stage'[m] = "counting"
  BY <1>1, <1>2 DEF Domains
<1>6. MessageFits(m)'
  BY <1>1, <1>2, <1>3, <1>5 DEF MessageFits
<1> QED BY <1>4, <1>6, OthersFit

-----------------------------------------------------------------------------
(* The second half of the handler.                                         *)

LEMMA EndsFit ==
    ASSUME MessageInv, NEW m \in Messages, FailLogEvent(m) \/ ExcludeUserEvent(m)
    PROVE  MessageInv'
<1>1. /\ stage[m] = "counting"
      /\ \/ /\ stage' = [stage EXCEPT ![m] = "failed"]
            /\ errors' = [errors EXCEPT ![m] = @ \cup {"UDP_LOG_EVENT"}]
         \/ stage' = [stage EXCEPT ![m] = "excluded"] /\ errors' = errors
      /\ UNCHANGED <<settings, event, counted, rejected, sending, accounts, received>>
  BY DEF FailLogEvent, ExcludeUserEvent
<1>2. Domains /\ MessageFits(m)
  BY DEF MessageInv
<1>3. Touches(m)
  BY <1>1, <1>2 DEF Touches, Domains
<1>4. /\ stage'[m] \in {"failed", "excluded"}
      /\ stage'[m] = "failed" => "UDP_LOG_EVENT" \in errors'[m]
  BY <1>1, <1>2 DEF Domains
<1>5. CountFits(m)'
  BY <1>1, <1>2, <1>4 DEF CountFits, MessageFits
<1>6. MessageFits(m)'
  BY <1>1, <1>2, <1>4, <1>5 DEF MessageFits
<1> QED BY <1>3, <1>6, OthersFit

\* A message that is published is owed what its kind goes to, and all of it is under way.
LEMMA PublishFits ==
    ASSUME MessageInv, NEW m \in Messages, stage[m] = "counting", NEW e, Publish(m, e),
           m.kind \in {"log", "user"}, e.kind = m.kind,
           m.kind = "user" => (RequiredUserColumns \subseteq e.has <=> Complete(m)),
           UNCHANGED <<settings, counted, rejected, received, errors>>
    PROVE  MessageInv'
<1>0. Domains /\ MessageFits(m) /\ settings \in SettingsSet
  BY DEF MessageInv, Domains
<1>1. Touches(m)
  BY <1>0 DEF Touches, Domains, Publish
<1>2. /\ stage'[m] = "published" /\ event'[m] = e
      /\ "influxdb" \in Enabled(m.kind) => "influxdb" \in sending'[m]
      /\ "mqtt" \in Enabled(m.kind) => "mqtt" \in sending'[m]
  BY <1>0 DEF Domains, Publish
<1>3. m.kind = "user" /\ "newRelic" \in Enabled("user") =>
         "newRelic" \in sending'[m] /\ accounts'[m] = KnownAccounts("user")
  BY <1>0 DEF Domains, Publish
<1>4. accounts'[m] \in Seq(Range(KnownAccounts(m.kind)))
  <2>1. accounts'[m] = KnownAccounts(m.kind) \/ accounts'[m] = <<>>
    BY <1>0 DEF Domains, Publish
  <2>2. KnownAccounts(m.kind) \in Seq(Range(KnownAccounts(m.kind)))
    BY <1>0, AccountsAssumption DEF KnownAccounts
  <2>3. <<>> \in Seq(Range(KnownAccounts(m.kind)))
    OBVIOUS
  <2> QED BY <2>1, <2>2, <2>3
<1>5. /\ Enabled(m.kind)' = Enabled(m.kind) /\ Enabled("user")' = Enabled("user")
      /\ KnownAccounts(m.kind)' = KnownAccounts(m.kind) /\ UserDue' = UserDue
  BY DEF Enabled, KnownAccounts, UserDue
<1>6. m.kind = "user" /\ "newRelic" \in Enabled("user") => UserDue \subseteq Range(accounts'[m])
  BY <1>3 DEF UserDue
<1>7. PublicationFits(m)'
  BY <1>2, <1>3, <1>4, <1>5, <1>6 DEF PublicationFits, Complete
<1>8. CountFits(m)'
  BY <1>0, <1>2 DEF CountFits, MessageFits
<1>9. MessageFits(m)'
  BY <1>0, <1>2, <1>7, <1>8 DEF MessageFits
<1> QED BY <1>1, <1>9, OthersFit

LEMMA PublishLogEventFits ==
    ASSUME MessageInv, NEW m \in Messages, PublishLogEvent(m)
    PROVE  MessageInv'
<1>1. m.kind = "log" /\ stage[m] = "counting"
  BY DEF PublishLogEvent
<1>2. event[m].kind = "log" /\ DOMAIN event[m] = EventColumns
  BY <1>1 DEF MessageInv, MessageFits
<1>3. \A cats : [event[m] EXCEPT !.cats = cats].kind = "log"
  BY <1>2 DEF EventColumns
<1>4. PICK e : Publish(m, e) /\ e.kind = "log"
  BY <1>2, <1>3 DEF PublishLogEvent
<1>5. UNCHANGED <<settings, counted, rejected, received, errors>>
  BY DEF PublishLogEvent
<1> QED BY <1>1, <1>4, <1>5, PublishFits

LEMMA PublishUserEventFits ==
    ASSUME MessageInv, NEW m \in Messages, PublishUserEvent(m)
    PROVE  MessageInv'
<1>1. PICK e : e = UserEvent(m)
  OBVIOUS
<1>2. /\ m.kind = "user" /\ stage[m] = "counting" /\ Publish(m, e)
      /\ UNCHANGED <<settings, counted, rejected, received, errors>>
  BY <1>1 DEF PublishUserEvent
<1>3. e.kind = "user" /\ (RequiredUserColumns \subseteq e.has <=> Complete(m))
  BY <1>1 DEF UserEvent, Complete, RequiredUserColumns
<1> QED BY <1>2, <1>3, PublishFits

-----------------------------------------------------------------------------
(* The publications.                                                       *)

\* What may become of the posts to New Relic's accounts.
PostsOn(m) == "newRelic" \in sending[m] /\ UserDue \subseteq Range(accounts[m]) \cup received[m]

LEMMA SettlesFit ==
    ASSUME MessageInv, NEW m \in Messages, stage[m] = "published",
           UNCHANGED <<settings, stage, event, counted, rejected>>, Touches(m),
           received[m] \subseteq received'[m], errors[m] \subseteq errors'[m],
           accounts'[m] \in Seq(Range(KnownAccounts(m.kind))),
           "influxdb" \in sending[m] =>
              \/ "influxdb" \in sending'[m] \cup received'[m]
              \/ "INFLUXDB_WRITE" \in errors'[m] \/ (m.kind = "user" /\ ~Complete(m)),
           "mqtt" \in sending[m] =>
              \/ "mqtt" \in sending'[m] \/ Topics(m) \subseteq received'[m]
              \/ "MQTT_PUBLISH" \in errors'[m],
           m.kind = "user" /\ PostsOn(m) =>
              \/ "newRelic" \in sending'[m] /\ UserDue \subseteq Range(accounts'[m]) \cup received'[m]
              \/ UserDue \subseteq received'[m] \/ "NEW_RELIC_POST" \in errors'[m]
    PROVE  MessageInv'
<1>1. MessageFits(m) /\ PublicationFits(m)
  BY DEF MessageInv, MessageFits
<1>2. /\ Enabled(m.kind)' = Enabled(m.kind) /\ Enabled("user")' = Enabled("user")
      /\ KnownAccounts(m.kind)' = KnownAccounts(m.kind) /\ UserDue' = UserDue
      /\ Topics(m)' = Topics(m)
  BY DEF Enabled, KnownAccounts, UserDue, Topics
<1>3. PublicationFits(m)'
  <2>1. /\ m.kind \in {"log", "user"} /\ event'[m].kind = m.kind
        /\ m.kind = "user" => (RequiredUserColumns \subseteq event'[m].has <=> Complete(m))
    BY <1>1 DEF PublicationFits
  <2>2. "influxdb" \in Enabled(m.kind) /\ (m.kind = "user" => Complete(m)) =>
           "influxdb" \in sending'[m] \cup received'[m] \/ "INFLUXDB_WRITE" \in errors'[m]
    BY <1>1 DEF PublicationFits
  <2>3. "mqtt" \in Enabled(m.kind) =>
           \/ "mqtt" \in sending'[m] \/ Topics(m) \subseteq received'[m]
           \/ "MQTT_PUBLISH" \in errors'[m]
    BY <1>1 DEF PublicationFits
  <2>4. m.kind = "user" /\ "newRelic" \in Enabled("user") =>
           \/ "newRelic" \in sending'[m] /\ UserDue \subseteq Range(accounts'[m]) \cup received'[m]
           \/ UserDue \subseteq received'[m] \/ "NEW_RELIC_POST" \in errors'[m]
    BY <1>1 DEF PublicationFits, PostsOn
  <2> QED BY <1>2, <2>1, <2>2, <2>3, <2>4 DEF PublicationFits, Complete
<1>4. CountFits(m)'
  BY <1>1 DEF CountFits, MessageFits
<1>5. MessageFits(m)'
  BY <1>1, <1>3, <1>4 DEF MessageFits
<1> QED BY <1>5, OthersFit

\* Only a published message has publications under way.
LEMMA Publishing ==
    ASSUME MessageInv, NEW m \in Messages, sending[m] # {}
    PROVE  /\ stage[m] = "published" /\ PublicationFits(m) /\ Domains
           /\ accounts[m] \in Seq(Range(KnownAccounts(m.kind)))
BY DEF MessageInv, MessageFits, PublicationFits

LEMMA SettleMqttFits ==
    ASSUME MessageInv, NEW m \in Messages, SettleMqtt(m)
    PROVE  MessageInv'
<1>1. sending[m] # {}
  BY DEF SettleMqtt
<1>2. /\ stage[m] = "published" /\ Domains
      /\ accounts[m] \in Seq(Range(KnownAccounts(m.kind)))
  BY <1>1, Publishing
<1>3. PICK delivered \in SUBSET Topics(m) :
          /\ received' = [received EXCEPT ![m] = @ \cup delivered]
          /\ errors' = IF delivered = Topics(m) THEN errors
                       ELSE [errors EXCEPT ![m] = @ \cup {"MQTT_PUBLISH"}]
  BY DEF SettleMqtt
<1>4. /\ sending' = [sending EXCEPT ![m] = @ \ {"mqtt"}]
      /\ UNCHANGED <<settings, stage, event, counted, rejected, accounts>>
  BY DEF SettleMqtt
<1>5. Touches(m)
  BY <1>2, <1>3, <1>4 DEF Touches, Domains
<1>6. /\ sending'[m] = sending[m] \ {"mqtt"} /\ received'[m] = received[m] \cup delivered
      /\ errors[m] \subseteq errors'[m]
      /\ delivered = Topics(m) \/ "MQTT_PUBLISH" \in errors'[m]
  BY <1>2, <1>3, <1>4 DEF Domains
<1> QED BY <1>2, <1>4, <1>5, <1>6, SettlesFit DEF PostsOn

LEMMA InfluxSettlesFit ==
    ASSUME MessageInv, NEW m \in Messages, StoreInInflux(m) \/ FailInflux(m) \/ RefuseUserEvent(m)
    PROVE  MessageInv'
<1>1. sending[m] # {}
  BY DEF StoreInInflux, FailInflux, RefuseUserEvent
<1>2. /\ stage[m] = "published" /\ Domains /\ PublicationFits(m)
      /\ accounts[m] \in Seq(Range(KnownAccounts(m.kind)))
  BY <1>1, Publishing
<1>3. /\ sending' = [sending EXCEPT ![m] = @ \ {"influxdb"}]
      /\ UNCHANGED <<settings, stage, event, counted, rejected, accounts>>
      /\ \/ received' = [received EXCEPT ![m] = @ \cup {"influxdb"}] /\ errors' = errors
         \/ received' = received /\ errors' = [errors EXCEPT ![m] = @ \cup {"INFLUXDB_WRITE"}]
         \/ /\ received' = received /\ errors' = errors
            /\ event[m].kind = "user" /\ ~(RequiredUserColumns \subseteq event[m].has)
  BY DEF StoreInInflux, FailInflux, RefuseUserEvent
<1>4. Touches(m)
  BY <1>2, <1>3 DEF Touches, Domains
<1>5. /\ sending'[m] = sending[m] \ {"influxdb"} /\ accounts'[m] = accounts[m]
      /\ received[m] \subseteq received'[m] /\ errors[m] \subseteq errors'[m]
      /\ \/ "influxdb" \in received'[m] \/ "INFLUXDB_WRITE" \in errors'[m]
         \/ m.kind = "user" /\ ~Complete(m)
  BY <1>2, <1>3 DEF Domains, PublicationFits
<1> QED BY <1>2, <1>3, <1>4, <1>5, SettlesFit DEF PostsOn

\* A list that is not empty has a first element, and the others are those of its tail.
LEMMA HeadAndTail ==
    ASSUME NEW A, NEW s \in Seq(A), s # <<>>
    PROVE  Tail(s) \in Seq(A) /\ \A a \in Range(s) : a = Head(s) \/ a \in Range(Tail(s))
<1>1. /\ Tail(s) \in Seq(A) /\ Head(s) = s[1] /\ Len(s) \in Nat /\ DOMAIN s = 1..Len(s)
      /\ DOMAIN Tail(s) = 1..(Len(s) - 1)
      /\ \A k \in 1..(Len(s) - 1) : Tail(s)[k] = s[k + 1]
  OBVIOUS
<1>2. ASSUME NEW k \in DOMAIN s, k # 1 PROVE s[k] \in Range(Tail(s))
  <2>1. k - 1 \in DOMAIN Tail(s) /\ Tail(s)[k - 1] = s[k]
    BY <1>1, <1>2
  <2> QED BY <2>1 DEF Range
<1>3. \A a \in Range(s) : \E k \in DOMAIN s : a = s[k]
  BY DEF Range
<1> QED BY <1>1, <1>2, <1>3

LEMMA PostToNewRelicFits ==
    ASSUME MessageInv, NEW m \in Messages, PostToNewRelic(m)
    PROVE  MessageInv'
<1> DEFINE s == accounts[m]
           A == Range(KnownAccounts(m.kind))
<1>1. sending[m] # {} /\ s # <<>>
  BY DEF PostToNewRelic
<1>2. stage[m] = "published" /\ Domains /\ s \in Seq(A)
  BY <1>1, Publishing
<1>3. /\ accounts' = [accounts EXCEPT ![m] = Tail(@)]
      /\ received' = IF Head(s) \in settings.credentials
                     THEN [received EXCEPT ![m] = @ \cup {Head(s)}] ELSE received
      /\ UNCHANGED <<settings, stage, event, counted, rejected, sending, errors>>
  BY DEF PostToNewRelic
<1>4. Touches(m)
  BY <1>2, <1>3 DEF Touches, Domains
<1>5. /\ accounts'[m] = Tail(s) /\ sending'[m] = sending[m] /\ errors'[m] = errors[m]
      /\ received[m] \subseteq received'[m]
      /\ Head(s) \in settings.credentials => Head(s) \in received'[m]
  BY <1>2, <1>3 DEF Domains
<1>6. Tail(s) \in Seq(A) /\ \A a \in Range(s) : a = Head(s) \/ a \in Range(Tail(s))
  BY <1>1, <1>2, HeadAndTail
<1>7. PostsOn(m) => "newRelic" \in sending'[m] /\ UserDue \subseteq Range(accounts'[m]) \cup received'[m]
  <2> SUFFICES ASSUME PostsOn(m), NEW a \in UserDue
               PROVE  a \in Range(accounts'[m]) \/ a \in received'[m]
    BY <1>5 DEF PostsOn
  <2>1. a \in Range(s) \/ a \in received[m]
    BY DEF PostsOn
  <2>2. a \in settings.credentials
    BY DEF UserDue
  <2> QED BY <1>5, <1>6, <2>1, <2>2
<1>8. accounts'[m] \in Seq(Range(KnownAccounts(m.kind)))
  BY <1>5, <1>6
<1> QED BY <1>2, <1>3, <1>4, <1>5, <1>7, <1>8, SettlesFit

LEMMA EndPostsFit ==
    ASSUME MessageInv, NEW m \in Messages, FailNewRelic(m) \/ EndNewRelic(m)
    PROVE  MessageInv'
<1>1. sending[m] # {}
  BY DEF FailNewRelic, EndNewRelic
<1>2. stage[m] = "published" /\ Domains /\ accounts[m] \in Seq(Range(KnownAccounts(m.kind)))
  BY <1>1, Publishing
<1>3. /\ sending' = [sending EXCEPT ![m] = @ \ {"newRelic"}]
      /\ UNCHANGED <<settings, stage, event, counted, rejected, received>>
      /\ \/ /\ accounts' = [accounts EXCEPT ![m] = <<>>]
            /\ errors' = IF m.kind = "user" THEN [errors EXCEPT ![m] = @ \cup {"NEW_RELIC_POST"}]
                         ELSE errors
         \/ accounts[m] = <<>> /\ accounts' = accounts /\ errors' = errors
  BY DEF FailNewRelic, EndNewRelic
<1>4. Touches(m)
  BY <1>2, <1>3 DEF Touches, Domains
<1>5. /\ sending'[m] = sending[m] \ {"newRelic"} /\ received'[m] = received[m]
      /\ errors[m] \subseteq errors'[m] /\ accounts'[m] = <<>>
      /\ accounts[m] = <<>> \/ (m.kind = "user" => "NEW_RELIC_POST" \in errors'[m])
  BY <1>2, <1>3 DEF Domains
<1>6. Range(<<>>) = {} /\ <<>> \in Seq(Range(KnownAccounts(m.kind)))
  BY DEF Range
<1>7. m.kind = "user" /\ PostsOn(m) =>
         UserDue \subseteq received'[m] \/ "NEW_RELIC_POST" \in errors'[m]
  BY <1>5, <1>6 DEF PostsOn
<1> QED BY <1>2, <1>3, <1>4, <1>5, <1>6, <1>7, SettlesFit

-----------------------------------------------------------------------------
(* Every step.                                                             *)

LEMMA MessageInvNext ==
    ASSUME MessageInv, [Next]_vars
    PROVE  MessageInv'
<1>1. ASSUME UNCHANGED <<settings, handlerVars>> PROVE MessageInv'
  <2>1. Domains'
    BY <1>1 DEF MessageInv, Domains, handlerVars
  <2>2. ASSUME NEW m \in Messages PROVE MessageFits(m)'
    <3>1. UNCHANGED <<settings, stage, event, counted, rejected, sending, accounts, received, errors>>
      BY <1>1 DEF handlerVars
    <3>2. MessageFits(m)
      BY DEF MessageInv
    <3>3. CountFits(m)' <=> CountFits(m)
      BY <3>1 DEF CountFits
    <3>4. PublicationFits(m)' <=> PublicationFits(m)
      BY <3>1 DEF PublicationFits, Enabled, KnownAccounts, Topics, UserDue, Complete
    <3> QED BY <3>1, <3>2, <3>3, <3>4 DEF MessageFits
  <2> QED BY <2>1, <2>2 DEF MessageInv
<1>2. CASE UNCHANGED vars
  BY <1>1, <1>2 DEF vars
<1>3. ASSUME NEW m \in Messages, Handle(m) PROVE MessageInv'
  BY <1>3, SkipsFit, RejectPerfEventFits, ReceiveLogEventFits, PublishLogEventFits, EndsFit,
     ReceiveUserEventFits, PublishUserEventFits DEF Handle
<1>4. ASSUME NEW m \in Messages, Settle(m) PROVE MessageInv'
  BY <1>4, SettleMqttFits, InfluxSettlesFit, PostToNewRelicFits, EndPostsFit DEF Settle
<1>5. CASE FetchNames
  BY <1>1, <1>5 DEF FetchNames, GetAppNames, AppNamesArrive, AppNamesFail, RepositoryChanges
<1> QED BY <1>2, <1>3, <1>4, <1>5 DEF Next

\* What is known of each message holds in every state.
THEOREM MessageInvariant == Spec => []MessageInv
<1>1. MessageInv /\ [Next]_vars => MessageInv'
  BY MessageInvNext
<1> QED BY MessageInvInit, <1>1, PTL DEF Spec

\* Once its handler and its publications are done, a message was counted as often as its
\* outcome says, left only if it was published, and is at every destination that is on
\* and has not left an error behind.
THEOREM EveryMessageIsAccounted == Spec => []Accounted
<1>1. MessageInv => Accounted
  <2> SUFFICES ASSUME MessageInv, NEW m \in Messages, Settled(m)
               PROVE  /\ Len(counted[m]) = IF settings.eventCount /\ stage[m] # "rejected" THEN 1 ELSE 0
                      /\ m \in rejected => stage[m] = "rejected" /\ settings.trackRejected
                      /\ stage[m] = "failed" => "UDP_LOG_EVENT" \in errors[m]
                      /\ stage[m] # "published" => received[m] = {}
                      /\ stage[m] = "published" =>
                            /\ Missing(m) # {} => "INFLUXDB_WRITE" \in errors[m]
                            /\ "mqtt" \in Enabled(m.kind) /\ ~(Topics(m) \subseteq received[m]) =>
                                  "MQTT_PUBLISH" \in errors[m]
                            /\ m.kind = "user" /\ "newRelic" \in Enabled("user")
                                  /\ ~(Range(KnownAccounts("user")) \cap settings.credentials
                                          \subseteq received[m]) =>
                                  "NEW_RELIC_POST" \in errors[m]
    BY DEF Accounted
  <2>1. MessageFits(m) /\ sending[m] = {} /\ stage[m] # "unread"
    BY DEF MessageInv, Settled
  <2>2. Len(counted[m]) = IF settings.eventCount /\ stage[m] # "rejected" THEN 1 ELSE 0
    <3>1. Len(<<>>) = 0
      OBVIOUS
    <3> QED BY <2>1, <3>1 DEF MessageFits, CountFits
  <2>3. ASSUME stage[m] = "published", Missing(m) # {} PROVE "INFLUXDB_WRITE" \in errors[m]
    <3>1. PublicationFits(m)
      BY <2>1, <2>3 DEF MessageFits
    <3>2. /\ ~(m.kind = "user" /\ "influxdb" \in Enabled("user") /\ ~Complete(m))
          /\ ({"influxdb"} \cap Enabled(m.kind)) \ received[m] # {}
      BY <2>3 DEF Missing, Complete
    <3> QED BY <2>1, <3>1, <3>2 DEF PublicationFits
  <2>4. ASSUME stage[m] = "published", "mqtt" \in Enabled(m.kind), ~(Topics(m) \subseteq received[m])
        PROVE  "MQTT_PUBLISH" \in errors[m]
    BY <2>1, <2>4 DEF MessageFits, PublicationFits
  <2>5. ASSUME stage[m] = "published", m.kind = "user", "newRelic" \in Enabled("user"),
               ~(Range(KnownAccounts("user")) \cap settings.credentials \subseteq received[m])
        PROVE  "NEW_RELIC_POST" \in errors[m]
    BY <2>1, <2>5 DEF MessageFits, PublicationFits, UserDue
  <2> QED BY <2>1, <2>2, <2>3, <2>4, <2>5 DEF MessageFits
<1> QED BY MessageInvariant, <1>1, PTL

-----------------------------------------------------------------------------
(* What is sent of an event.                                               *)

\* The fields whose columns are tags too.
LEMMA SuffixedNames ==
    /\ DOMAIN Suffixed = {"result_code", "app_id", "app_name", "userFull", "userId", "appId", "appName"}
    /\ Suffixed["result_code"] = "result_code_field" /\ Suffixed["app_id"] = "app_id_field"
    /\ Suffixed["app_name"] = "app_name_field" /\ Suffixed["userFull"] = "userFull_field"
    /\ Suffixed["userId"] = "userId_field" /\ Suffixed["appId"] = "appId_field"
    /\ Suffixed["appName"] = "appName_field"
BY DEF Suffixed

\* The three points of a log event.
LEMMA LogFieldsAgree ==
    ASSUME NEW e, e.kind = "log", e.source \in LogSources
    PROVE  /\ SameFields(V1LogFields(e), V2LogFields(e))
           /\ SameFields(V1LogFields(e) \cap ((Columns(e.source) \ PerfFields) \cup e.has \cup {"raw_event"}),
                         V3LogFields(e))
<1>1. CASE e.source = "engine"
  BY <1>1, SuffixedNames DEF SameFields, V1LogFields, V2LogFields, V3LogFields, TextFields
<1>2. CASE e.source \in {"proxy", "repository"}
  BY <1>2, SuffixedNames DEF SameFields, V1LogFields, V2LogFields, V3LogFields, TextFields
<1>3. CASE e.source = "scheduler"
  BY <1>3, SuffixedNames DEF SameFields, V1LogFields, V2LogFields, V3LogFields
<1>4. CASE e.source = "qixPerf"
  <2>1. V1LogFields(e) \subseteq PerfFields \cup {"raw_event", "app_id"}
    BY <1>4 DEF V1LogFields
  <2>2. V2LogFields(e) = PerfFields \cup {"raw_event", "app_id"}
    BY <1>4 DEF V2LogFields
  <2>3. V3LogFields(e) = (PerfFields \cap e.has) \cup {"raw_event", "app_id_field"}
    BY <1>4 DEF V3LogFields
  <2> QED BY <2>1, <2>2, <2>3, SuffixedNames DEF SameFields
<1> QED BY <1>1, <1>2, <1>3, <1>4 DEF LogSources

LEMMA LogTagsApart ==
    ASSUME NEW e, e.kind = "log", e.source \in LogSources
    PROVE  V3LogTags(e) \cap V3LogFields(e) \subseteq e.tags \cup e.cats
<1>1. CASE e.source = "engine"
  BY <1>1 DEF V3LogTags, V3LogFields, TextFields, EngineOptional, HeadTags, PointHead, UserColumns
<1>2. CASE e.source \in {"proxy", "repository"}
  BY <1>2 DEF V3LogTags, V3LogFields, TextFields, HeadTags, PointHead, UserColumns
<1>3. CASE e.source = "scheduler"
  BY <1>3 DEF V3LogTags, V3LogFields, HeadTags, PointHead, UserColumns
<1>4. CASE e.source = "qixPerf"
  BY <1>4 DEF V3LogTags, V3LogFields, HeadTags, PointHead, UserColumns, PerfFields, TimeColumns, SizeColumns
<1> QED BY <1>1, <1>2, <1>3, <1>4 DEF LogSources

LEMMA UserFieldsAgree ==
    ASSUME NEW e
    PROVE  /\ SameFields(V1UserFields(e), V2UserFields(e))
           /\ SameFields(V1UserFields(e), V3UserFields(e))
           /\ V3UserTags(e) \cap V3UserFields(e) \subseteq e.tags
<1>1. V2UserFields(e) = {"userFull", "userId"} \cup {Suffixed[c] : c \in {"appId", "appName"} \cap e.has}
  BY DEF V2UserFields
<1>2. V3UserFields(e) =
        {Suffixed[c] : c \in {"userFull", "userId"} \cup ({"appId", "appName"} \cap e.has)}
  BY DEF V3UserFields
<1>3. SameFields(V1UserFields(e), V2UserFields(e))
  BY <1>1, SuffixedNames DEF SameFields, V1UserFields
<1>4. SameFields(V1UserFields(e), V3UserFields(e))
  BY <1>2, SuffixedNames DEF SameFields, V1UserFields
<1>5. V3UserFields(e) \subseteq {"userFull_field", "userId_field", "appId_field", "appName_field"}
  BY <1>2, SuffixedNames
<1>6. V3UserTags(e) \cap V3UserFields(e) \subseteq e.tags
  BY <1>5 DEF V3UserTags, UserPointHead, UserOptional
<1> QED BY <1>3, <1>4, <1>6

LEMMA ScrambledNames ==
    ASSUME NEW e
    PROVE  /\ e.tags \subseteq NewRelicUserAttributes(e, TRUE)
           /\ {"userFull", "userDirectory", "userId"} \cap NewRelicUserAttributes(e, TRUE) \subseteq e.tags
<1>1. /\ DOMAIN Hashed = {"userFull", "userDirectory", "userId"}
      /\ Hashed["userFull"] = "hash of userFull" /\ Hashed["userDirectory"] = "hash of userDirectory"
      /\ Hashed["userId"] = "hash of userId"
  BY DEF Hashed
<1>2. NewRelicUserAttributes(e, TRUE) =
        {"timestamp", "eventType", "host", "event_action", "origin"} \cup e.tags
        \cup (UserOptional \cap e.has) \cup {Hashed[c] : c \in DOMAIN Hashed}
  BY DEF NewRelicUserAttributes
<1>3. {Hashed[c] : c \in DOMAIN Hashed} \cap {"userFull", "userDirectory", "userId"} = {}
  BY <1>1
<1> QED BY <1>2, <1>3 DEF UserOptional

LEMMA OneEventAgrees ==
    ASSUME NEW e, e.kind \in {"log", "user"}, e.kind = "log" => e.source \in LogSources
    PROVE  SamePayloads(e)
<1>1. CASE e.kind = "log"
  <2>1. /\ PointTags(1, e) = V1LogTags(e) /\ PointTags(2, e) = V2LogTags(e)
        /\ PointTags(3, e) = V3LogTags(e) /\ PointFields(1, e) = V1LogFields(e)
        /\ PointFields(2, e) = V2LogFields(e) /\ PointFields(3, e) = V3LogFields(e)
    BY <1>1 DEF PointTags, PointFields
  <2>2. /\ V2LogTags(e) \subseteq V3LogTags(e) /\ V3LogTags(e) \subseteq V1LogTags(e)
        /\ V1LogTags(e) \ V2LogTags(e) \subseteq EmptyTags(e)
    BY <1>1 DEF V1LogTags, V2LogTags, V3LogTags, EmptyTags
  <2>3. e.tags \subseteq NewRelicLogAttributes(e, {})
    BY DEF NewRelicLogAttributes
  <2> QED BY <1>1, <2>1, <2>2, <2>3, LogFieldsAgree, LogTagsApart DEF SamePayloads
<1>2. CASE e.kind = "user"
  <2>1. /\ PointTags(1, e) = V1UserTags(e) /\ PointTags(2, e) = V2UserTags(e)
        /\ PointTags(3, e) = V3UserTags(e) /\ PointFields(1, e) = V1UserFields(e)
        /\ PointFields(2, e) = V2UserFields(e) /\ PointFields(3, e) = V3UserFields(e)
    BY <1>2 DEF PointTags, PointFields
  <2>2. V1UserTags(e) = V2UserTags(e) /\ V2UserTags(e) = V3UserTags(e)
    BY DEF V1UserTags, V2UserTags, V3UserTags
  <2> QED BY <1>2, <2>1, <2>2, UserFieldsAgree, ScrambledNames DEF SamePayloads
<1> QED BY <1>1, <1>2

\* A log event that is on its way has one of the sources there are handlers for.
SourcesKnown ==
    \A m \in Messages : m.kind = "log" /\ stage[m] \in {"counting", "published"} =>
        event[m].source \in LogSources

LEMMA SourcesKnownNext ==
    ASSUME MessageInv, SourcesKnown, [Next]_vars
    PROVE  SourcesKnown'
<1>0. /\ settings \in SettingsSet /\ DOMAIN stage = Messages /\ DOMAIN event = Messages
  BY DEF MessageInv, Domains
<1>1. CASE UNCHANGED <<stage, event>>
  BY <1>1 DEF SourcesKnown
<1>2. ASSUME NEW m \in Messages, ReceiveLogEvent(m) PROVE SourcesKnown'
  <2>1. m.source \in LogSources
    BY <1>0, <1>2, SourcesAssumption DEF ReceiveLogEvent, SourceIsOn
  <2>2. /\ stage' = [stage EXCEPT ![m] = "counting"] /\ event' = [event EXCEPT ![m] = LogEvent(m)]
    BY <1>2 DEF ReceiveLogEvent
  <2>3. LogEvent(m).source = m.source
    BY DEF LogEvent
  <2> QED BY <1>0, <2>1, <2>2, <2>3 DEF SourcesKnown
<1>3. ASSUME NEW m \in Messages, PublishLogEvent(m) PROVE SourcesKnown'
  <2>1. event[m].kind = "log" /\ DOMAIN event[m] = EventColumns /\ event[m].source \in LogSources
    BY <1>3 DEF MessageInv, MessageFits, PublishLogEvent, SourcesKnown
  <2>2. \A cats : [event[m] EXCEPT !.cats = cats].source = event[m].source
    BY <2>1 DEF EventColumns
  <2>3. PICK e : Publish(m, e) /\ e.source = event[m].source
    BY <1>3, <2>2 DEF PublishLogEvent
  <2>4. /\ stage' = [stage EXCEPT ![m] = "published"] /\ event' = [event EXCEPT ![m] = e]
    BY <2>3 DEF Publish
  <2> QED BY <1>0, <2>1, <2>3, <2>4 DEF SourcesKnown
<1>4. ASSUME NEW m \in Messages, Handle(m), ~ReceiveLogEvent(m), ~PublishLogEvent(m)
      PROVE  SourcesKnown'
  <2>1. \/ m.kind = "user" /\ \A n \in Messages : n # m => stage'[n] = stage[n] /\ event'[n] = event[n]
        \/ /\ event' = event
           /\ \E to \in {"skipped", "rejected", "failed", "excluded"} :
                 stage' = [stage EXCEPT ![m] = to]
    BY <1>0, <1>4 DEF Handle, SkipLogEvent, SkipPerfEvent, RejectPerfEvent, FailLogEvent, SkipUserEvent,
       ReceiveUserEvent, ExcludeUserEvent, PublishUserEvent, Publish, Arrives
  <2> QED BY <1>0, <2>1 DEF SourcesKnown
<1>5. ASSUME NEW m \in Messages, Settle(m) PROVE SourcesKnown'
  BY <1>1, <1>5 DEF Settle, SettleMqtt, StoreInInflux, FailInflux, RefuseUserEvent, PostToNewRelic,
     FailNewRelic, EndNewRelic
<1>6. CASE FetchNames
  BY <1>1, <1>6 DEF FetchNames, GetAppNames, AppNamesArrive, AppNamesFail, RepositoryChanges, handlerVars
<1>7. CASE UNCHANGED vars
  BY <1>1, <1>7 DEF vars, handlerVars
<1> QED BY <1>2, <1>3, <1>4, <1>5, <1>6, <1>7 DEF Next

\* What the three InfluxDB versions and New Relic get of a published event agrees, up to
\* the head tags whose columns are empty, for any columns, categories and tags
\* (PayloadsAgree).
THEOREM AllPayloadsAgree == Spec => []PayloadsAgree
<1>1. Init => SourcesKnown
  BY DEF Init, SourcesKnown
<1>2. MessageInv /\ SourcesKnown /\ [Next]_vars => SourcesKnown'
  BY SourcesKnownNext
<1>3. MessageInv /\ SourcesKnown => PayloadsAgree
  <2> SUFFICES ASSUME MessageInv, SourcesKnown, NEW m \in Messages, stage[m] = "published"
               PROVE  SamePayloads(event[m])
    BY DEF PayloadsAgree
  <2>1. event[m].kind = m.kind /\ m.kind \in {"log", "user"}
    BY DEF MessageInv, MessageFits, PublicationFits
  <2>2. m.kind = "log" => event[m].source \in LogSources
    BY DEF SourcesKnown
  <2> QED BY <2>1, <2>2, OneEventAgrees
<1>4. Spec => []SourcesKnown
  BY MessageInvariant, <1>1, <1>2, PTL DEF Spec
<1> QED BY MessageInvariant, <1>3, <1>4, PTL
=============================================================================
