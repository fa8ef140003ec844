---------------------------- MODULE AuditRecords ----------------------------
(***************************************************************************)
(* What is kept of one audit event at each destination: the row of Parquet *)
(* and QVD, the JSON document and the InfluxDB point, built by three       *)
(* pieces of code from the same envelope and what its handler adds to it.  *)
(*                                                                         *)
(* A text stands for itself by the name of its field.  Numbers are those   *)
(* that are told apart: "0", "7", "7.5", and "'7'", a string of digits.    *)
(***************************************************************************)
EXTENDS TLC

Absent == "absent"

\* The fields of an envelope that hold a text, and those that hold a number.
TextFacts ==
    {"eventId", "correlationId", "eventType", "user", "userDirectory", "userId", "appId",
     "appName", "sheetId", "sheetName", "objectId", "selectionTxnId", "enteredAt", "leftAt",
     "screenshotUrl"}
TransactionFacts == {"enterSelectionTxnId", "leaveSelectionTxnId"}
Facts == TextFacts \cup
         {"durationMs", "visible", "dataStateId", "selectionDetails", "savedPaths",
          "objectType", "objectData"}

\* createPayloadValidators: which types of numbers get past the checks of the API.
Accepted(e) ==
    /\ e.type = "object.view.duration" => e.duration \in {"0", "7", "7.5"}
    /\ e.type \in {"object.view.duration", "app.model.validated"} =>
          e.dataStateId \in {Absent, "0", "7"}

ReadString(e, f) == IF f \in e.texts THEN f ELSE Absent
ReadNumber(v) == IF v \in {"0", "7", "7.5"} THEN v ELSE Absent

\* readIntegerBigInt takes whole numbers, and strings of digits too.
ReadInteger(v) == CASE v \in {"0", "7"} -> v [] v = "'7'" -> "7" [] OTHER -> Absent

ReadType(e) == IF e.objectData = "typed" THEN "objectType" ELSE Absent

OrElse(v, other) == IF v = Absent THEN other ELSE v

\* createTypeHandlers: what the handler of its type adds to an event.
Extras(e) ==
    [selectionDetails |-> IF e.type = "selection.state.changed" THEN e.details ELSE Absent,
     dataStateId |-> IF e.type = "app.model.validated" THEN e.dataStateId ELSE Absent,
     savedPaths |-> IF e.type = "screenshot.url.received" THEN e.paths ELSE Absent]

\* Empty lists are left out everywhere.
Listed(v) == IF v = "empty" THEN Absent ELSE v

\* A record is its own facts and the texts of the envelope, which all read in the same way.
Record(e, own) ==
    [f \in TextFacts \cup DOMAIN own |-> IF f \in DOMAIN own THEN own[f] ELSE ReadString(e, f)]

\* extractAuditEventFields.
Row(e) ==
    LET x == Extras(e)
        table == e.objectData # Absent
    IN  Record(e,
            [durationMs |-> ReadInteger(e.duration),
             visible |-> e.visible,
             dataStateId |-> OrElse(ReadInteger(e.dataStateId), ReadInteger(x.dataStateId)),
             selectionDetails |-> Listed(x.selectionDetails),
             savedPaths |-> Listed(x.savedPaths),
             objectType |-> IF table THEN ReadType(e) ELSE Absent,
             objectData |-> IF table THEN e.objectData ELSE Absent])

\* Mutant: an empty list of details is written as a list.
DocMutant(e) ==
    LET x == Extras(e)
    IN  Record(e,
            [durationMs |-> ReadNumber(e.duration),
             visible |-> e.visible,
             dataStateId |-> OrElse(ReadNumber(e.dataStateId), ReadNumber(x.dataStateId)),
             selectionDetails |-> x.selectionDetails,
             savedPaths |-> Listed(x.savedPaths),
             objectType |-> ReadType(e),
             objectData |-> e.objectData])

\* writeAuditEventToJson: only of events that carry object data.
Documented(e) == e.objectData # Absent
Doc(e) ==
    LET x == Extras(e)
    IN  Record(e,
            [durationMs |-> ReadNumber(e.duration),
             visible |-> e.visible,
             dataStateId |-> OrElse(ReadNumber(e.dataStateId), ReadNumber(x.dataStateId)),
             selectionDetails |-> Listed(x.selectionDetails),
             savedPaths |-> Listed(x.savedPaths),
             objectType |-> ReadType(e),
             objectData |-> e.objectData])

\* buildAuditInfluxPointModel: a zero is as good as none, and a static tag takes the
\* place of a tag of the same name.  The type of the object is set after them.
TagFacts == {"eventType", "eventId", "correlationId", "selectionTxnId", "user",
             "userDirectory", "userId", "appId", "appName"}

InfluxPoint(e, static) ==
    LET x == Extras(e)
        own == ReadNumber(e.dataStateId)
        type == IF e.objectData # Absent THEN ReadType(e) ELSE Absent
        point == Record(e,
            [enterSelectionTxnId |-> ReadString(e, "enterSelectionTxnId"),
             leaveSelectionTxnId |-> ReadString(e, "leaveSelectionTxnId"),
             durationMs |-> ReadNumber(e.duration),
             visible |-> e.visible,
             dataStateId |-> IF own \in {"0", Absent} THEN ReadNumber(x.dataStateId) ELSE own,
             selectionDetails |-> Listed(x.selectionDetails),
             savedPaths |-> Listed(x.savedPaths),
             objectType |-> IF type = Absent /\ "objectType" \in static THEN "static" ELSE type,
             objectData |-> e.objectData])
    IN  [f \in DOMAIN point |-> IF f \in TagFacts \cap static THEN "static" ELSE point[f]]

-----------------------------------------------------------------------------

\* Where the destinations are known to differ: numbers that are no whole numbers, a
\* zero that is not a duration, and what a static tag hides.
Differs(e, f, static) ==
    \/ f = "durationMs" /\ e.duration \in {"7.5", "'7'"}
    \/ f = "dataStateId" /\ e.dataStateId \in {"0", "7.5", "'7'"}
    \/ f \in static

\* The record of an event is the same wherever it is stored, but for the differences
\* above: no fact is dropped, renamed or read in another way by one of the three.
SameRecords(e, static) ==
    \A f \in Facts : ~Differs(e, f, static) =>
        /\ Row(e)[f] = InfluxPoint(e, static)[f]
        /\ Documented(e) => Doc(e)[f] = Row(e)[f]
=============================================================================
