----------------------------- MODULE EventForm -----------------------------
(***************************************************************************)
(* From the form of a new event to the row: the inputs of the page, the    *)
(* JSON that json-enc-custom makes of their names, and what the server     *)
(* takes from it.  A name such as s3[bucket] is a path of two keys.  The   *)
(* texts are left out: what matters is which inputs arrive where.          *)
(***************************************************************************)
EXTENDS Naturals, Sequences, SequencesExt

Kinds == {"filesystem", "s3", "googleDrive", "ftp"}

\* The inputs of the page, from top to bottom: those of every event, then
\* those of the storage that is chosen.
EventInputs == << <<"name">>, <<"slug">>, <<"password">>, <<"live">>, <<"cache">> >>

StorageInputs(kind) ==
    CASE kind = "filesystem" -> << <<kind, "directory">> >>
      [] kind = "s3" -> << <<kind, "accessKey">>, <<kind, "secretKey">>, <<kind, "bucket">>,
                           <<kind, "region">>, <<kind, "endpoint">>, <<kind, "insecure">> >>
      [] kind = "googleDrive" -> << <<kind, "folderId">> >>
      [] kind = "ftp" -> << <<kind, "username">>, <<kind, "password">>, <<kind, "address">>,
                            <<kind, "directory">> >>

Inputs(kind) == EventInputs \o StorageInputs(kind)

Boxes == {<<"live">>, <<"cache">>, <<"s3", "insecure">>}

\* A form as it is filled in: the storage chosen and the boxes ticked.
Forms == UNION {[kind : {k}, ticked : SUBSET (Boxes \cap ToSet(Inputs(k)))] : k \in Kinds}

\* What the browser submits: every text, and "on" for a ticked box.
Submitted(form, path) == path \notin Boxes \/ path \in form.ticked
Parameter(path) == IF path \in Boxes THEN "on" ELSE "text"

\* The value of a box is TRUE, of a text itself.
EncodedValue(path) == IF path \in Boxes THEN Parameter(path) = "on" ELSE Parameter(path)

Put(object, key, value) ==
    [k \in DOMAIN object \cup {key} |-> IF k = key THEN value ELSE object[k]]

\* Mutant: a second key of the same parent makes the parent anew.
SetValueFromPath_Anew(object, path, value) ==
    IF Len(path) = 1 THEN Put(object, path[1], value)
    ELSE Put(object, path[1], Put(<<>>, path[2], value))

\* One parameter: the parent is made by the first of its keys and found by
\* the others.
SetValueFromPath(object, path, value) ==
    IF Len(path) = 1 THEN Put(object, path[1], value)
    ELSE LET parent == IF path[1] \in DOMAIN object THEN object[path[1]] ELSE <<>>
         IN  Put(object, path[1], Put(parent, path[2], value))

\* The loop over the parameters; an input that is not submitted has none.
EncodeInput(form, object, path) ==
    IF Submitted(form, path) THEN SetValueFromPath(object, path, EncodedValue(path)) ELSE object

EncodingAlgorithm(form) ==
    LET inputs == Inputs(form.kind)
        object[i \in 0..Len(inputs)] ==
            IF i = 0 THEN <<>> ELSE EncodeInput(form, object[i - 1], inputs[i])
    IN  object[Len(inputs)]

\* protojson.Unmarshal refuses a second member of the oneof; what is not in
\* the JSON is FALSE, or empty, in the row.
CreateEventRequest(json) ==
    LET storage == DOMAIN json \cap Kinds
        kind == CHOOSE k \in Kinds : storage = {k}
        Ticked(object, box) == box \in DOMAIN object /\ object[box]
    IN  [kind |-> kind,
         texts |-> DOMAIN json[kind] \ {"insecure"},
         live |-> Ticked(json, "live"),
         cache |-> Ticked(json, "cache"),
         insecure |-> Ticked(json[kind], "insecure")]

Stored(form) == CreateEventRequest(EncodingAlgorithm(form))

\* The row as the organiser filled the form in.
Intended(form) ==
    [kind |-> form.kind,
     texts |-> {path[2] : path \in {p \in ToSet(Inputs(form.kind)) \ Boxes : Len(p) = 2}},
     live |-> <<"live">> \in form.ticked,
     cache |-> <<"cache">> \in form.ticked,
     insecure |-> <<"s3", "insecure">> \in form.ticked]
=============================================================================
