------------------------- MODULE OrganisersProofs -------------------------
(***************************************************************************)
(* Theorems about Organisers, for any people, requests, processes, tokens, *)
(* events and forms, and for both drivers.                                 *)
(***************************************************************************)
EXTENDS Organisers, AccountsProofs, SequenceTheorems

-----------------------------------------------------------------------------
(* The token Preload shows                                                 *)

LEMMA GreatestExists ==
    ASSUME NEW T, T \subseteq TokenIds, T # {}
    PROVE  \E x \in T : \A y \in T : y <= x
<1>1. PICK last \in TokenIds : \A t \in TokenIds : t <= last
  BY OrganisersAssumption
<1>2. last \in Nat /\ \A t \in T : t \in Nat /\ t <= last
  BY <1>1, OrganisersAssumption
<1> DEFINE Below == {last - t : t \in T}
<1>3. Below \subseteq Nat /\ Below # {}
  <2>1. \A t \in T : last - t \in Nat
    BY <1>2
  <2> QED
    BY <2>1
<1>4. PICK x \in Below : \A y \in Below : x <= y
  BY <1>3, LeastExists
<1>5. PICK t \in T : x = last - t
  BY <1>4
<1>6. ASSUME NEW u \in T PROVE u <= t
  <2>1. last - t <= last - u
    BY <1>4, <1>5
  <2> QED
    BY <1>2, <2>1
<1> QED
  BY <1>6

LEMMA TokenFinds ==
    ASSUME NEW u
    PROVE  /\ TokensOf(u) \subseteq TokenIds
           /\ GoogleDriveToken(u) = None <=> TokensOf(u) = {}
<1>1. TokensOf(u) \subseteq TokenIds
  BY DEF TokensOf
<1>2. ASSUME TokensOf(u) # {} PROVE GoogleDriveToken(u) \in TokensOf(u)
  <2>1. \E t \in TokensOf(u) : \A v \in TokensOf(u) : v <= t
    BY <1>1, <1>2, GreatestExists
  <2> QED
    BY <1>2, <2>1 DEF GoogleDriveToken
<1>3. TokensOf(u) = {} => GoogleDriveToken(u) = None
  BY DEF GoogleDriveToken
<1> QED
  BY <1>1, <1>2, <1>3, OrganisersAssumption

-----------------------------------------------------------------------------
(* The row a form becomes                                                  *)

\* The keys of the request itself, and those of its storage.
EventKeys == {"name", "slug", "password", "live", "cache"}
StorageKeys(kind) ==
    CASE kind = "filesystem" -> {"directory"}
      [] kind = "s3" -> {"accessKey", "secretKey", "bucket", "region", "endpoint", "insecure"}
      [] kind = "googleDrive" -> {"folderId"}
      [] kind = "ftp" -> {"username", "password", "address", "directory"}

\* Every input gives one key, to the request or to the storage of the form.
LEMMA InputsGiveKeys ==
    ASSUME NEW kind \in Kinds
    PROVE  /\ Len(Inputs(kind)) \in Nat
           /\ DOMAIN Inputs(kind) = 1..Len(Inputs(kind))
           /\ ToSet(Inputs(kind)) = {<<k>> : k \in EventKeys} \cup {<<kind, k>> : k \in StorageKeys(kind)}
<1> DEFINE EventPaths == {<<k>> : k \in EventKeys}
           StoragePaths == {<<kind, k>> : k \in StorageKeys(kind)}
<1>1. EventInputs \in Seq(EventPaths) /\ ToSet(EventInputs) = EventPaths
  <2>1. EventPaths = {<<"name">>, <<"slug">>, <<"password">>, <<"live">>, <<"cache">>}
    BY DEF EventKeys
  <2>2. ToSet(EventInputs) = {<<"name">>, <<"slug">>, <<"password">>, <<"live">>, <<"cache">>}
    BY DEF EventInputs, ToSet
  <2>3. EventInputs \in Seq({<<"name">>, <<"slug">>, <<"password">>, <<"live">>, <<"cache">>})
    BY DEF EventInputs
  <2> QED
    BY <2>1, <2>2, <2>3
<1>2. StorageInputs(kind) \in Seq(StoragePaths) /\ ToSet(StorageInputs(kind)) = StoragePaths
  <2>1. CASE kind = "filesystem"
    <3> DEFINE s == << <<kind, "directory">> >>
    <3>1. StorageInputs(kind) = s
      BY <2>1 DEF StorageInputs
    <3>2. StoragePaths = {<<kind, "directory">>}
      BY <2>1 DEF StorageKeys
    <3>3. ToSet(s) = {<<kind, "directory">>}
      BY DEF ToSet
    <3>4. s \in Seq({<<kind, "directory">>})
      OBVIOUS
    <3> QED
      BY <3>1, <3>2, <3>3, <3>4
  <2>2. CASE kind = "s3"
    <3> DEFINE s == << <<kind, "accessKey">>, <<kind, "secretKey">>, <<kind, "bucket">>,
                       <<kind, "region">>, <<kind, "endpoint">>, <<kind, "insecure">> >>
               S == {<<kind, "accessKey">>, <<kind, "secretKey">>, <<kind, "bucket">>,
                     <<kind, "region">>, <<kind, "endpoint">>, <<kind, "insecure">>}
    <3>1. StorageInputs(kind) = s
      BY <2>2 DEF StorageInputs
    <3>2. StoragePaths = S
      BY <2>2 DEF StorageKeys
    <3>3. ToSet(s) = S
      BY DEF ToSet
    <3>4. s \in Seq(S)
      OBVIOUS
    <3> QED
      BY <3>1, <3>2, <3>3, <3>4
  <2>3. CASE kind = "googleDrive"
    <3> DEFINE s == << <<kind, "folderId">> >>
    <3>1. StorageInputs(kind) = s
      BY <2>3 DEF StorageInputs
    <3>2. StoragePaths = {<<kind, "folderId">>}
      BY <2>3 DEF StorageKeys
    <3>3. ToSet(s) = {<<kind, "folderId">>}
      BY DEF ToSet
    <3>4. s \in Seq({<<kind, "folderId">>})
      OBVIOUS
    <3> QED
      BY <3>1, <3>2, <3>3, <3>4
  <2>4. CASE kind = "ftp"
    <3> DEFINE s == << <<kind, "username">>, <<kind, "password">>, <<kind, "address">>, <<kind, "directory">> >>
               S == {<<kind, "username">>, <<kind, "password">>, <<kind, "address">>, <<kind, "directory">>}
    <3>1. StorageInputs(kind) = s
      BY <2>4 DEF StorageInputs
    <3>2. StoragePaths = S
      BY <2>4 DEF StorageKeys
    <3>3. ToSet(s) = S
      BY DEF ToSet
    <3>4. s \in Seq(S)
      OBVIOUS
    <3> QED
      BY <3>1, <3>2, <3>3, <3>4
  <2> QED
    BY <2>1, <2>2, <2>3, <2>4 DEF Kinds
<1>3. Inputs(kind) = EventInputs \o StorageInputs(kind)
  BY DEF Inputs
<1> DEFINE Paths == EventPaths \cup StoragePaths
<1> HIDE DEF EventPaths, StoragePaths
<1>0. EventInputs \in Seq(Paths) /\ StorageInputs(kind) \in Seq(Paths)
  BY <1>1, <1>2, SeqMonotonic
<1> HIDE DEF Paths
<1>4. /\ Len(EventInputs \o StorageInputs(kind)) = Len(EventInputs) + Len(StorageInputs(kind))
      /\ \A i \in 1..Len(EventInputs) + Len(StorageInputs(kind)) :
            (EventInputs \o StorageInputs(kind))[i] = IF i <= Len(EventInputs) THEN EventInputs[i] ELSE StorageInputs(kind)[i - Len(EventInputs)]
      /\ EventInputs \o StorageInputs(kind) \in Seq(Paths)
  BY <1>0, ConcatProperties
<1>5. Len(EventInputs) \in Nat /\ Len(StorageInputs(kind)) \in Nat
  BY <1>1, <1>2, LenProperties
<1>6. DOMAIN (EventInputs \o StorageInputs(kind)) = 1..Len(EventInputs) + Len(StorageInputs(kind))
  BY <1>4, LenProperties
<1>7. ToSet(EventInputs \o StorageInputs(kind)) = ToSet(EventInputs) \cup ToSet(StorageInputs(kind))
  <2>1. ASSUME NEW i \in 1..Len(EventInputs) PROVE (EventInputs \o StorageInputs(kind))[i] = EventInputs[i] /\ i \in 1..Len(EventInputs) + Len(StorageInputs(kind))
    BY <1>4, <1>5
  <2>2. ASSUME NEW i \in 1..Len(StorageInputs(kind))
        PROVE  /\ Len(EventInputs) + i \in 1..Len(EventInputs) + Len(StorageInputs(kind))
               /\ (EventInputs \o StorageInputs(kind))[Len(EventInputs) + i] = StorageInputs(kind)[i]
    BY <1>4, <1>5
  <2>3. ASSUME NEW i \in 1..Len(EventInputs) + Len(StorageInputs(kind))
        PROVE  \/ i \in 1..Len(EventInputs) /\ (EventInputs \o StorageInputs(kind))[i] = EventInputs[i]
               \/ i - Len(EventInputs) \in 1..Len(StorageInputs(kind)) /\ (EventInputs \o StorageInputs(kind))[i] = StorageInputs(kind)[i - Len(EventInputs)]
    BY <1>4, <1>5
  <2>4. DOMAIN EventInputs = 1..Len(EventInputs) /\ DOMAIN StorageInputs(kind) = 1..Len(StorageInputs(kind))
    BY <1>1, <1>2, LenProperties
  <2>5. ToSet(EventInputs \o StorageInputs(kind)) \subseteq ToSet(EventInputs) \cup ToSet(StorageInputs(kind))
    BY <1>6, <2>3, <2>4 DEF ToSet
  <2>6. ToSet(EventInputs) \subseteq ToSet(EventInputs \o StorageInputs(kind))
    BY <1>6, <2>1, <2>4 DEF ToSet
  <2>7. ToSet(StorageInputs(kind)) \subseteq ToSet(EventInputs \o StorageInputs(kind))
    BY <1>6, <2>2, <2>4 DEF ToSet
  <2> QED
    BY <2>5, <2>6, <2>7
<1> QED
  BY <1>1, <1>2, <1>3, <1>4, <1>5, <1>6, <1>7 DEF EventPaths, StoragePaths

\* The object the loop has made: plain are the keys of the request it has
\* come to, nested those of the storage.
Encodes(kind, object, plain, nested) ==
    /\ plain \subseteq EventKeys
    /\ DOMAIN object = plain \cup (IF nested = {} THEN {} ELSE {kind})
    /\ \A k \in plain : object[k] = EncodedValue(<<k>>)
    /\ nested # {} =>
          /\ DOMAIN object[kind] = nested
          /\ \A k \in nested : object[kind][k] = EncodedValue(<<kind, k>>)

LEMMA EventKeyIsSet ==
    ASSUME NEW kind \in Kinds, NEW object, NEW plain, NEW nested,
           Encodes(kind, object, plain, nested), NEW key \in EventKeys
    PROVE  Encodes(kind, SetValueFromPath(object, <<key>>, EncodedValue(<<key>>)),
                   plain \cup {key}, nested)
<1> DEFINE put == Put(object, key, EncodedValue(<<key>>))
<1>1. SetValueFromPath(object, <<key>>, EncodedValue(<<key>>)) = put
  BY DEF SetValueFromPath
<1>2. /\ DOMAIN put = DOMAIN object \cup {key}
      /\ put[key] = EncodedValue(<<key>>)
      /\ \A k \in DOMAIN object \ {key} : put[k] = object[k]
  BY DEF Put
<1>3. kind # key
  BY DEF Kinds, EventKeys
<1> HIDE DEF put
<1>4. Encodes(kind, put, plain \cup {key}, nested)
  BY <1>2, <1>3 DEF Encodes
<1> QED
  BY <1>1, <1>4

LEMMA StorageKeyIsSet ==
    ASSUME NEW kind \in Kinds, NEW object, NEW plain, NEW nested,
           Encodes(kind, object, plain, nested), NEW key
    PROVE  Encodes(kind, SetValueFromPath(object, <<kind, key>>, EncodedValue(<<kind, key>>)),
                   plain, nested \cup {key})
<1> DEFINE parent == IF kind \in DOMAIN object THEN object[kind] ELSE <<>>
           child == Put(parent, key, EncodedValue(<<kind, key>>))
           put == Put(object, kind, child)
<1>1. SetValueFromPath(object, <<kind, key>>, EncodedValue(<<kind, key>>)) = put
  BY DEF SetValueFromPath
<1>2. kind \notin EventKeys
  BY DEF Kinds, EventKeys
<1>3. /\ DOMAIN parent = nested
      /\ \A k \in nested : parent[k] = EncodedValue(<<kind, k>>)
  BY <1>2 DEF Encodes
<1> HIDE DEF parent
<1>4. /\ DOMAIN child = nested \cup {key}
      /\ \A k \in nested \cup {key} : child[k] = EncodedValue(<<kind, k>>)
  <2>1. /\ DOMAIN child = DOMAIN parent \cup {key}
        /\ child[key] = EncodedValue(<<kind, key>>)
        /\ \A k \in DOMAIN parent \ {key} : child[k] = parent[k]
    BY DEF Put
  <2> HIDE DEF child
  <2> QED
    BY <1>3, <2>1
<1> HIDE DEF child
<1>5. /\ DOMAIN put = DOMAIN object \cup {kind}
      /\ put[kind] = child
      /\ \A k \in DOMAIN object \ {kind} : put[k] = object[k]
  BY DEF Put
<1> HIDE DEF put
<1>6. Encodes(kind, put, plain, nested \cup {key})
  BY <1>2, <1>4, <1>5 DEF Encodes
<1> QED
  BY <1>1, <1>6

\* The loop is defined: there is a sequence of the objects it makes.
LEMMA EncodingIsDefined ==
    ASSUME NEW form, NEW n \in Nat
    PROVE  \E object : object = [i \in 0..n |->
              IF i = 0 THEN <<>> ELSE EncodeInput(form, object[i - 1], Inputs(form.kind)[i])]
<1> DEFINE Loop(m, object) == object = [i \in 0..m |->
              IF i = 0 THEN <<>> ELSE EncodeInput(form, object[i - 1], Inputs(form.kind)[i])]
           Undefined == {m \in Nat : ~ \E object : Loop(m, object)}
<1>1. Undefined = {}
  <2> SUFFICES ASSUME Undefined # {} PROVE FALSE
    OBVIOUS
  <2>1. PICK m \in Undefined : \A l \in Undefined : m <= l
    BY LeastExists
  <2>2. m # 0
    <3>1. Loop(0, [i \in {0} |-> <<>>])
      OBVIOUS
    <3> QED
      BY <2>1, <3>1
  <2>3. m - 1 \in Nat /\ m - 1 \notin Undefined
    BY <2>1, <2>2
  <2>4. PICK shorter : Loop(m - 1, shorter)
    BY <2>3
  <2> DEFINE longer == [i \in 0..m |-> IF i = m THEN EncodeInput(form, shorter[m - 1], Inputs(form.kind)[m])
                                       ELSE shorter[i]]
             following == [i \in 0..m |->
                IF i = 0 THEN <<>> ELSE EncodeInput(form, longer[i - 1], Inputs(form.kind)[i])]
  <2>5. ASSUME NEW i \in 0..m PROVE longer[i] = following[i]
    <3>1. CASE i = 0
      BY <2>2, <2>3, <2>4, <3>1
    <3>2. CASE i \in 1..m - 1
      <4>1. /\ longer[i - 1] = shorter[i - 1]
            /\ longer[i] = shorter[i]
            /\ i \in 0..m - 1
        BY <2>3, <3>2
      <4>2. shorter[i] = EncodeInput(form, shorter[i - 1], Inputs(form.kind)[i])
        BY <2>4, <3>2, <4>1
      <4> QED
        BY <3>2, <4>1, <4>2
    <3>3. CASE i = m
      <4>1. longer[m - 1] = shorter[m - 1]
        BY <2>2, <2>3
      <4> QED
        BY <2>2, <3>3, <4>1
    <3> QED
      BY <2>1, <3>1, <3>2, <3>3
  <2>6. longer = following
    BY <2>5, Zenon
  <2> QED
    BY <2>1, <2>6
<1> QED
  BY <1>1

LEMMA EncodingSteps ==
    ASSUME NEW form, Len(Inputs(form.kind)) \in Nat
    PROVE  \E object :
              /\ object[0] = <<>>
              /\ \A i \in 1..Len(Inputs(form.kind)) :
                    object[i] = EncodeInput(form, object[i - 1], Inputs(form.kind)[i])
              /\ EncodingAlgorithm(form) = object[Len(Inputs(form.kind))]
<1> DEFINE Loop(object) == object = [i \in 0..Len(Inputs(form.kind)) |->
              IF i = 0 THEN <<>> ELSE EncodeInput(form, object[i - 1], Inputs(form.kind)[i])]
           made == CHOOSE object : Loop(object)
<1>1. EncodingAlgorithm(form) = made[Len(Inputs(form.kind))]
  BY DEF EncodingAlgorithm
<1>2. Loop(made)
  <2>1. \E object : Loop(object)
    BY EncodingIsDefined
  <2> QED
    BY <2>1, Zenon
<1> HIDE DEF made
<1>3. made[0] = <<>>
  BY <1>2
<1>4. ASSUME NEW i \in 1..Len(Inputs(form.kind))
      PROVE  made[i] = EncodeInput(form, made[i - 1], Inputs(form.kind)[i])
  BY <1>2
<1> QED
  BY <1>1, <1>3, <1>4

\* The keys among the first n inputs of a form that are submitted.
EventKeysOf(form, n) ==
    {k \in EventKeys : Submitted(form, <<k>>) /\ \E i \in 1..n : Inputs(form.kind)[i] = <<k>>}
StorageKeysOf(form, n) ==
    {k \in StorageKeys(form.kind) :
        Submitted(form, <<form.kind, k>>) /\ \E i \in 1..n : Inputs(form.kind)[i] = <<form.kind, k>>}

LEMMA InputIsEncoded ==
    ASSUME NEW form, form.kind \in Kinds, NEW n \in 1..Len(Inputs(form.kind)), NEW object,
           Encodes(form.kind, object, EventKeysOf(form, n - 1), StorageKeysOf(form, n - 1))
    PROVE  Encodes(form.kind, EncodeInput(form, object, Inputs(form.kind)[n]),
                   EventKeysOf(form, n), StorageKeysOf(form, n))
<1> DEFINE path == Inputs(form.kind)[n]
<1>1. n \in Nat /\ \A i : i \in 1..n <=> i \in 1..n - 1 \/ i = n
  BY InputsGiveKeys
<1>2. \/ \E k \in EventKeys : path = <<k>>
      \/ \E k \in StorageKeys(form.kind) : path = <<form.kind, k>>
  <2>1. path \in ToSet(Inputs(form.kind))
    BY InputsGiveKeys DEF ToSet
  <2> QED
    BY <2>1, InputsGiveKeys
<1>3. ASSUME ~ Submitted(form, path)
      PROVE  EventKeysOf(form, n) = EventKeysOf(form, n - 1) /\ StorageKeysOf(form, n) = StorageKeysOf(form, n - 1)
  BY <1>1, <1>3 DEF EventKeysOf, StorageKeysOf
<1>4. ASSUME NEW k \in EventKeys, path = <<k>>, Submitted(form, path)
      PROVE  /\ EventKeysOf(form, n) = EventKeysOf(form, n - 1) \cup {k}
             /\ StorageKeysOf(form, n) = StorageKeysOf(form, n - 1)
  <2>1. \A x : <<x>> = path <=> x = k
    BY <1>4
  <2>2. \A x : <<form.kind, x>> # path
    BY <1>4
  <2> QED
    BY <1>1, <1>4, <2>1, <2>2 DEF EventKeysOf, StorageKeysOf
<1>5. ASSUME NEW k \in StorageKeys(form.kind), path = <<form.kind, k>>, Submitted(form, path)
      PROVE  /\ EventKeysOf(form, n) = EventKeysOf(form, n - 1)
             /\ StorageKeysOf(form, n) = StorageKeysOf(form, n - 1) \cup {k}
  <2>1. \A x : <<x>> # path
    BY <1>5
  <2>2. \A x : <<form.kind, x>> = path <=> x = k
    BY <1>5
  <2> QED
    BY <1>1, <1>5, <2>1, <2>2 DEF EventKeysOf, StorageKeysOf
<1>6. CASE ~ Submitted(form, path)
  BY <1>3, <1>6 DEF EncodeInput
<1>7. CASE Submitted(form, path)
  <2>1. EncodeInput(form, object, path) = SetValueFromPath(object, path, EncodedValue(path))
    BY <1>7 DEF EncodeInput
  <2> HIDE DEF path
  <2>2. ASSUME NEW k \in EventKeys, path = <<k>> 
        PROVE  Encodes(form.kind, EncodeInput(form, object, path), EventKeysOf(form, n), StorageKeysOf(form, n))
    BY <1>4, <1>7, <2>1, <2>2, EventKeyIsSet
  <2>3. ASSUME NEW k \in StorageKeys(form.kind), path = <<form.kind, k>> 
        PROVE  Encodes(form.kind, EncodeInput(form, object, path), EventKeysOf(form, n), StorageKeysOf(form, n))
    BY <1>5, <1>7, <2>1, <2>3, StorageKeyIsSet
  <2>4. Encodes(form.kind, EncodeInput(form, object, path), EventKeysOf(form, n), StorageKeysOf(form, n))
    BY <1>2, <2>2, <2>3
  <2> QED
    BY <2>4 DEF path
<1> QED
  BY <1>6, <1>7

\* The object holds every input that was submitted, and nothing else.
LEMMA FormIsEncoded ==
    ASSUME NEW form, form.kind \in Kinds
    PROVE  Encodes(form.kind, EncodingAlgorithm(form),
                   {k \in EventKeys : Submitted(form, <<k>>)},
                   {k \in StorageKeys(form.kind) : Submitted(form, <<form.kind, k>>)})
<1> DEFINE inputs == Inputs(form.kind)
<1>1. Len(inputs) \in Nat
  BY InputsGiveKeys
<1>2. PICK object : /\ object[0] = <<>>
                    /\ \A i \in 1..Len(inputs) : object[i] = EncodeInput(form, object[i - 1], inputs[i])
                    /\ EncodingAlgorithm(form) = object[Len(inputs)]
  BY <1>1, EncodingSteps
<1> DEFINE Good(n) == Encodes(form.kind, object[n], EventKeysOf(form, n), StorageKeysOf(form, n))
           Bad == {n \in 0..Len(inputs) : ~ Good(n)}
<1>3. Bad = {}
  <2> SUFFICES ASSUME Bad # {} PROVE FALSE
    OBVIOUS
  <2>1. PICK n \in Bad : \A m \in Bad : n <= m
    <3>1. Bad \subseteq Nat
      BY <1>1
    <3> QED
      BY <3>1, LeastExists
  <2>2. n # 0
    <3>1. EventKeysOf(form, 0) = {} /\ StorageKeysOf(form, 0) = {}
      BY DEF EventKeysOf, StorageKeysOf
    <3>2. Encodes(form.kind, object[0], {}, {})
      BY <1>2 DEF Encodes
    <3>3. Good(0)
      BY <3>1, <3>2
    <3> QED
      BY <2>1, <3>3
  <2>3. n \in 1..Len(inputs) /\ n - 1 \in 0..Len(inputs) /\ ~ n <= n - 1
    BY <1>1, <2>1, <2>2
  <2>4. Good(n - 1)
    BY <2>1, <2>3
  <2>5. Good(n)
    BY <1>2, <2>3, <2>4, InputIsEncoded
  <2> QED
    BY <2>1, <2>5
<1>4. Good(Len(inputs))
  BY <1>1, <1>3
<1>5. ASSUME NEW path \in ToSet(inputs) PROVE \E i \in 1..Len(inputs) : inputs[i] = path
  BY InputsGiveKeys DEF ToSet
<1>6. EventKeysOf(form, Len(inputs)) = {k \in EventKeys : Submitted(form, <<k>>)}
  <2>1. ASSUME NEW k \in EventKeys PROVE <<k>> \in ToSet(inputs)
    BY InputsGiveKeys
  <2> QED
    BY <1>5, <2>1 DEF EventKeysOf
<1>7. StorageKeysOf(form, Len(inputs)) = {k \in StorageKeys(form.kind) : Submitted(form, <<form.kind, k>>)}
  <2>1. ASSUME NEW k \in StorageKeys(form.kind) PROVE <<form.kind, k>> \in ToSet(inputs)
    BY InputsGiveKeys
  <2> QED
    BY <1>5, <2>1 DEF StorageKeysOf
<1> QED
  BY <1>2, <1>4, <1>6, <1>7

\* Whatever storage is chosen and whichever boxes are ticked, the row is that
\* of the form (json-enc-custom, protojson, CreateEvent).
THEOREM RowsAreAsIntended == \A form \in Forms : Stored(form) = Intended(form)
<1> SUFFICES ASSUME NEW form \in Forms PROVE Stored(form) = Intended(form)
  OBVIOUS
<1>1. /\ form.kind \in Kinds
      /\ form.ticked \subseteq Boxes \cap ToSet(Inputs(form.kind))
      /\ form = [kind |-> form.kind, ticked |-> form.ticked]
  BY DEF Forms
<1> DEFINE json == EncodingAlgorithm(form)
           plain == {k \in EventKeys : Submitted(form, <<k>>)}
           nested == {k \in StorageKeys(form.kind) : Submitted(form, <<form.kind, k>>)}
<1>2. Encodes(form.kind, json, plain, nested)
  BY <1>1, FormIsEncoded
<1> HIDE DEF json
<1>3. form.kind \notin EventKeys /\ EventKeys \cap Kinds = {}
  BY <1>1 DEF Kinds, EventKeys
<1>4. \E k \in StorageKeys(form.kind) : k # "insecure" /\ <<form.kind, k>> \notin Boxes
  BY <1>1 DEF Kinds, StorageKeys, Boxes
<1>5. nested # {}
  BY <1>4 DEF Submitted
<1>6. DOMAIN json \cap Kinds = {form.kind}
  BY <1>1, <1>2, <1>3, <1>5 DEF Encodes
<1>7. (CHOOSE k \in Kinds : DOMAIN json \cap Kinds = {k}) = form.kind
  BY <1>1, <1>6
<1>8. ASSUME NEW box \in {"live", "cache"}
      PROVE  (box \in DOMAIN json /\ json[box]) <=> <<box>> \in form.ticked
  <2>1. box \in EventKeys /\ <<box>> \in Boxes /\ box # form.kind
    BY <1>3 DEF EventKeys, Boxes
  <2>2. box \in DOMAIN json <=> <<box>> \in form.ticked
    BY <1>2, <2>1 DEF Encodes, Submitted
  <2>3. box \in DOMAIN json => json[box] = EncodedValue(<<box>>)
    BY <1>2, <2>1 DEF Encodes
  <2>4. EncodedValue(<<box>>) = TRUE
    BY <2>1 DEF EncodedValue, Parameter
  <2> QED
    BY <2>2, <2>3, <2>4
<1>9. ("insecure" \in DOMAIN json[form.kind] /\ json[form.kind]["insecure"]) <=> <<"s3", "insecure">> \in form.ticked
  <2>1. DOMAIN json[form.kind] = nested
    BY <1>2, <1>5 DEF Encodes
  <2>2. CASE form.kind = "s3"
    <3>1. "insecure" \in StorageKeys(form.kind) /\ <<form.kind, "insecure">> \in Boxes
      BY <2>2 DEF StorageKeys, Boxes
    <3>2. "insecure" \in nested <=> <<form.kind, "insecure">> \in form.ticked
      BY <3>1 DEF Submitted
    <3>3. "insecure" \in nested => json[form.kind]["insecure"] = EncodedValue(<<form.kind, "insecure">>)
      BY <1>2, <1>5 DEF Encodes
    <3>4. EncodedValue(<<form.kind, "insecure">>) = TRUE
      BY <3>1 DEF EncodedValue, Parameter
    <3> QED
      BY <2>1, <2>2, <3>2, <3>3, <3>4
  <2>3. CASE form.kind # "s3"
    <3>1. "insecure" \notin StorageKeys(form.kind)
      BY <1>1, <2>3 DEF Kinds, StorageKeys
    <3>2. <<"s3", "insecure">> \notin ToSet(Inputs(form.kind))
      BY <1>1, <2>3, InputsGiveKeys
    <3> QED
      BY <1>1, <2>1, <3>1, <3>2
  <2> QED
    BY <2>2, <2>3
<1>10. DOMAIN json[form.kind] \ {"insecure"}
       = {path[2] : path \in {p \in ToSet(Inputs(form.kind)) \ Boxes : Len(p) = 2}}
  <2>1. DOMAIN json[form.kind] = nested
    BY <1>2, <1>5 DEF Encodes
  <2>2. nested \ {"insecure"} = StorageKeys(form.kind) \ {"insecure"}
    BY <1>1 DEF Submitted, Boxes
  <2>3. {p \in ToSet(Inputs(form.kind)) \ Boxes : Len(p) = 2}
        = {<<form.kind, k>> : k \in StorageKeys(form.kind) \ {"insecure"}}
    <3>1. ToSet(Inputs(form.kind)) = {<<k>> : k \in EventKeys} \cup {<<form.kind, k>> : k \in StorageKeys(form.kind)}
      BY <1>1, InputsGiveKeys
    <3>2. \A k \in StorageKeys(form.kind) : <<form.kind, k>> \in Boxes <=> k = "insecure"
      BY <1>1 DEF Kinds, StorageKeys, Boxes
    <3> QED
      BY <3>1, <3>2
  <2> QED
    BY <2>1, <2>2, <2>3
<1>11. Stored(form) = CreateEventRequest(json)
  BY DEF Stored, json
<1>12. /\ ("live" \in DOMAIN json /\ json["live"]) = (<<"live">> \in form.ticked)
       /\ ("cache" \in DOMAIN json /\ json["cache"]) = (<<"cache">> \in form.ticked)
  BY <1>8
<1>13. ("insecure" \in DOMAIN json[form.kind] /\ json[form.kind]["insecure"]) = (<<"s3", "insecure">> \in form.ticked)
  BY <1>9
<1> QED
  BY <1>7, <1>10, <1>11, <1>12, <1>13, Zenon DEF Intended, CreateEventRequest

-----------------------------------------------------------------------------
(* The inductive invariant                                                 *)

OrganisersTypes ==
    /\ tokens \in [TokenIds -> Tokens]
    /\ events \in [EventIds -> Events]
    /\ request \in [Requests -> OrganiserRequests]
    /\ unlinked \subseteq UserIds

\* Ids are given in order, and a user's tokens are deleted together.
TokensAreKept ==
    /\ \A t, v \in TokenIds : v < t /\ tokens[t].status # "unborn" => tokens[v].status # "unborn"
    /\ \A t \in TokenIds : tokens[t].status = "deleted" => tokens[t].user \in unlinked
    /\ UnlinkingIsComplete

\* A user who has not unlinked Drive and had a token has one.
Linked(u) == u \notin unlinked => TokensOf(u) # {}

\* A request is that of the person whose cookie started it.
RequestIsTheirs(s) ==
    request[s].pc # "idle" =>
        /\ request[s].who \in People /\ request[s].user \in UserIds /\ Present(request[s].user)
        /\ users[request[s].user].owner = request[s].who \/ Restless(users[request[s].user].name)
        /\ request[s].linked => Linked(request[s].user)
        /\ request[s].pc = "authorized" =>
              /\ request[s].event \in EventIds /\ events[request[s].event].status # "unborn"
              /\ events[request[s].event].status = "present" =>
                    events[request[s].event].user = request[s].user

EventIsOwned(e) ==
    events[e].status = "present" =>
        /\ events[e].user \in UserIds /\ Present(events[e].user)
        /\ events[e].row.kind = "googleDrive" => Linked(events[e].user)

OrganisersInv ==
    /\ AccountsInv /\ OrganisersTypes /\ TokensAreKept
    /\ \A s \in Requests : RequestIsTheirs(s)
    /\ \A e \in EventIds : EventIsOwned(e)

LEMMA OrganisersInitInv == Init => OrganisersInv
<1> SUFFICES ASSUME Init PROVE OrganisersInv
  OBVIOUS
<1>1. AccountsInv
  BY AccountsInitInv DEF Init
<1>2. OrganisersTypes
  BY DEF Init, OrganisersTypes, NoToken, Tokens, NoEvent, Events, NoRequest, OrganiserRequests
<1>3. TokensAreKept
  BY DEF Init, TokensAreKept, UnlinkingIsComplete, NoToken
<1>4. \A s \in Requests : RequestIsTheirs(s)
  BY DEF Init, RequestIsTheirs, NoRequest
<1>5. \A e \in EventIds : EventIsOwned(e)
  BY DEF Init, EventIsOwned, NoEvent
<1> QED
  BY <1>1, <1>2, <1>3, <1>4, <1>5 DEF OrganisersInv

\* The part of a step the accounts see.
LEMMA StepsAccounts == [Next]_vars => AccountsStep
<1> SUFFICES ASSUME [Next]_vars PROVE AccountsStep
  OBVIOUS
<1>1. CASE AccountsNext({s \in Requests : request[s].pc = "idle"})
  <2>1. {s \in Requests : request[s].pc = "idle"} \in SUBSET Requests
    OBVIOUS
  <2> QED
    BY <1>1, <2>1 DEF AccountsStep
<1>2. ASSUME NEW s \in Requests,
             \/ \E p \in People : AuthRequired(s, p)
             \/ \E e \in EventIds : UserAuthorizedForEvent(s, e)
             \/ \E form \in Filled : CreateEvent(s, form)
             \/ Refused(s) \/ DeleteEvent(s) \/ HandleGoogleRedirect(s) \/ DeleteGoogleToken(s)
      PROVE  UNCHANGED accountVars
  BY <1>2 DEF AuthRequired, UserAuthorizedForEvent, CreateEvent, Refused, DeleteEvent, HandleGoogleRedirect,
              DeleteGoogleToken
<1>3. ASSUME NEW q \in Processes, Crash(q) PROVE AccountsStep
  BY <1>3 DEF Crash, AccountsStep
<1>4. CASE UNCHANGED vars
  BY <1>4 DEF vars, accountVars, AccountsStep
<1> QED
  BY <1>1, <1>2, <1>3, <1>4 DEF Next, AccountsStep

-----------------------------------------------------------------------------
(* The invariant is kept                                                   *)

\* The kinds of steps of one request.
Serves(s) ==
    \/ \E p \in People : AuthRequired(s, p)
    \/ \E e \in EventIds : UserAuthorizedForEvent(s, e)
    \/ \E form \in Filled : CreateEvent(s, form)
    \/ Refused(s) \/ DeleteEvent(s) \/ HandleGoogleRedirect(s) \/ DeleteGoogleToken(s)

\* Steps that are none of a request's.
Elsewhere ==
    /\ UNCHANGED <<tokens, events, unlinked>>
    /\ request' = request \/ request' = [s \in Requests |-> NoRequest]

LEMMA OrganiserSteps ==
    ASSUME [Next]_vars
    PROVE  Elsewhere \/ \E s \in Requests : Serves(s)
<1>1. ASSUME NEW q \in Processes, Crash(q) PROVE Elsewhere
  BY <1>1 DEF Crash, Elsewhere
<1> QED
  BY <1>1 DEF Next, Serves, Elsewhere, vars

LEMMA OrganisersTypesNext ==
    ASSUME OrganisersInv, [Next]_vars
    PROVE  OrganisersTypes'
<1>0. /\ OrganisersTypes
      /\ tokens \in [TokenIds -> Tokens] /\ events \in [EventIds -> Events]
      /\ request \in [Requests -> OrganiserRequests]
      /\ \A s \in Requests : RequestIsTheirs(s)
  BY DEF OrganisersInv, OrganisersTypes
<1>n. NoRequest \in OrganiserRequests /\ [NoEvent EXCEPT !.status = "deleted"] \in Events
  BY DEF NoRequest, OrganiserRequests, NoEvent, Events
<1>1. CASE Elsewhere
  BY <1>0, <1>1, <1>n DEF Elsewhere, OrganisersTypes
<1>f. ASSUME NEW s \in Requests, Finished(s) PROVE request' \in [Requests -> OrganiserRequests]
  BY <1>0, <1>f, <1>n DEF Finished
<1>2. ASSUME NEW s \in Requests, NEW p \in People, AuthRequired(s, p) PROVE OrganisersTypes'
  <2>1. GetUser(cookie[p]) \in UserIds
    BY <1>2, GetUserFinds DEF AuthRequired
  <2>2. [pc |-> "authenticated", who |-> p, user |-> GetUser(cookie[p]),
         linked |-> GoogleDriveToken(GetUser(cookie[p])) # None, event |-> None] \in OrganiserRequests
    BY <2>1 DEF OrganiserRequests
  <2> QED
    BY <1>0, <1>2, <2>2 DEF AuthRequired, OrganisersTypes
<1>3. ASSUME NEW s \in Requests, NEW e \in EventIds, UserAuthorizedForEvent(s, e) PROVE OrganisersTypes'
  <2>1. request' \in [Requests -> OrganiserRequests]
    <3> DEFINE r == [request[s] EXCEPT !.pc = "authorized", !.linked = FALSE, !.event = e]
    <3>1. r \in OrganiserRequests
      BY <1>0 DEF OrganiserRequests
    <3>2. request' = [request EXCEPT ![s] = r]
      BY <1>0, <1>3 DEF UserAuthorizedForEvent
    <3> QED
      BY <1>0, <3>1, <3>2
  <2> QED
    BY <1>0, <1>3, <2>1 DEF UserAuthorizedForEvent, OrganisersTypes
<1>4. ASSUME NEW s \in Requests, NEW form \in Filled, CreateEvent(s, form) PROVE OrganisersTypes'
  <2>1. request[s].user \in UserIds \cup {None}
    BY <1>0 DEF OrganiserRequests
  <2>2. [status |-> "present", user |-> request[s].user, row |-> StoredRow[form], form |-> form] \in Events
    BY <2>1 DEF Events
  <2>3. events' \in [EventIds -> Events]
    BY <1>0, <1>4, <2>2 DEF CreateEvent, Add
  <2> QED
    BY <1>0, <1>4, <1>f, <2>3 DEF CreateEvent, OrganisersTypes
<1>5. ASSUME NEW s \in Requests, Refused(s) \/ DeleteEvent(s) PROVE OrganisersTypes'
  <2>1. CASE Refused(s)
    BY <1>0, <1>f, <2>1 DEF Refused, OrganisersTypes
  <2>2. CASE DeleteEvent(s)
    BY <1>0, <1>f, <1>n, <2>2 DEF DeleteEvent, OrganisersTypes
  <2> QED
    BY <1>5, <2>1, <2>2
<1>6. ASSUME NEW s \in Requests, HandleGoogleRedirect(s) PROVE OrganisersTypes'
  <2>1. request[s].user \in UserIds \cup {None}
    BY <1>0 DEF OrganiserRequests
  <2>2. [status |-> "present", user |-> request[s].user] \in Tokens
    BY <2>1 DEF Tokens
  <2>3. tokens' \in [TokenIds -> Tokens]
    BY <1>0, <1>6, <2>2 DEF HandleGoogleRedirect
  <2> QED
    BY <1>0, <1>6, <1>f, <2>3 DEF HandleGoogleRedirect, OrganisersTypes
<1>7. ASSUME NEW s \in Requests, DeleteGoogleToken(s) PROVE OrganisersTypes'
  <2>1. request[s].user \in UserIds
    BY <1>0, <1>7 DEF DeleteGoogleToken, RequestIsTheirs
  <2>2. \A t \in TokenIds : [tokens[t] EXCEPT !.status = "deleted"] \in Tokens
    BY <1>0 DEF Tokens
  <2>3. tokens' \in [TokenIds -> Tokens]
    BY <1>0, <1>7, <2>2 DEF DeleteGoogleToken
  <2> QED
    BY <1>0, <1>7, <1>f, <2>1, <2>3 DEF DeleteGoogleToken, OrganisersTypes
<1> QED
  BY <1>1, <1>2, <1>3, <1>4, <1>5, <1>6, <1>7, OrganiserSteps DEF Serves

\* What a step may do to the tokens of the users.
LEMMA TokensNext ==
    ASSUME OrganisersInv, [Next]_vars
    PROVE  /\ TokensAreKept'
           /\ \A u \in UserIds : Linked(u) => Linked(u)'
<1>0. /\ tokens \in [TokenIds -> Tokens] /\ TokensAreKept
      /\ \A s \in Requests : RequestIsTheirs(s)
      /\ TokenIds \subseteq Nat
  BY OrganisersAssumption DEF OrganisersInv, OrganisersTypes
<1>1. CASE UNCHANGED <<tokens, unlinked>>
  BY <1>0, <1>1 DEF TokensAreKept, UnlinkingIsComplete, Linked, TokensOf
<1>2. ASSUME NEW s \in Requests, HandleGoogleRedirect(s)
      PROVE  TokensAreKept' /\ \A u \in UserIds : Linked(u) => Linked(u)'
  <2>1. PICK t \in NextId(tokens, TokenIds) :
            tokens' = [tokens EXCEPT ![t] = [status |-> "present", user |-> request[s].user]]
    BY <1>2 DEF HandleGoogleRedirect
  <2>2. /\ t \in TokenIds /\ tokens[t].status = "unborn"
        /\ \A v \in TokenIds : v < t => tokens[v].status # "unborn"
    BY <2>1 DEF NextId
  <2>3. /\ tokens'[t] = [status |-> "present", user |-> request[s].user]
        /\ \A v \in TokenIds \ {t} : tokens'[v] = tokens[v]
        /\ unlinked' = unlinked
    BY <1>0, <1>2, <2>1, <2>2 DEF HandleGoogleRedirect
  <2>4. ASSUME NEW v \in TokenIds, tokens[v].status # "unborn" PROVE v < t
    <3>1. v # t /\ ~(t < v)
      BY <1>0, <2>2, <2>4 DEF TokensAreKept
    <3> QED
      BY <1>0, <2>2, <3>1
  <2>5. \A v, w \in TokenIds : w < v /\ tokens'[v].status # "unborn" => tokens'[w].status # "unborn"
    BY <1>0, <2>2, <2>3 DEF TokensAreKept
  <2>6. \A v \in TokenIds : tokens'[v].status = "deleted" => tokens'[v].user \in unlinked'
    BY <1>0, <2>3 DEF TokensAreKept
  <2>7. UnlinkingIsComplete'
    <3> SUFFICES ASSUME NEW v \in TokenIds, NEW w \in TokenIds, tokens'[v].status = "deleted",
                        tokens'[w].status = "present", tokens'[v].user = tokens'[w].user
                 PROVE  v < w
      BY DEF UnlinkingIsComplete
    <3>1. v # t /\ tokens[v].status = "deleted" /\ tokens[v].user = tokens'[v].user
      BY <2>3
    <3>2. CASE w = t
      BY <2>4, <3>1, <3>2
    <3>3. CASE w # t
      BY <1>0, <2>3, <3>1, <3>3 DEF TokensAreKept, UnlinkingIsComplete
    <3> QED
      BY <3>2, <3>3
  <2>8. \A u : TokensOf(u) \subseteq TokensOf(u)'
    BY <2>2, <2>3 DEF TokensOf
  <2> QED
    BY <2>3, <2>5, <2>6, <2>7, <2>8 DEF TokensAreKept, Linked
<1>3. ASSUME NEW s \in Requests, DeleteGoogleToken(s)
      PROVE  TokensAreKept' /\ \A u \in UserIds : Linked(u) => Linked(u)'
  <2> DEFINE x == request[s].user
  <2>1. PICK z : z = x
    OBVIOUS
  <2>2. /\ unlinked' = unlinked \cup {z}
        /\ tokens' = [t \in TokenIds |->
              IF t \in TokensOf(z) THEN [tokens[t] EXCEPT !.status = "deleted"] ELSE tokens[t]]
    BY <1>3, <2>1 DEF DeleteGoogleToken
  <2>3. ASSUME NEW t \in TokenIds
        PROVE  /\ tokens'[t].user = tokens[t].user
               /\ t \in TokensOf(z) => tokens'[t].status = "deleted"
               /\ t \notin TokensOf(z) => tokens'[t].status = tokens[t].status
               /\ tokens'[t].status = "unborn" <=> tokens[t].status = "unborn"
    <3>1. tokens[t] \in Tokens
      BY <1>0
    <3>2. CASE t \in TokensOf(z)
      BY <2>2, <3>1, <3>2 DEF Tokens, TokensOf
    <3>3. CASE t \notin TokensOf(z)
      BY <2>2, <3>3
    <3> QED
      BY <3>2, <3>3
  <2>4. \A t, v \in TokenIds : v < t /\ tokens'[t].status # "unborn" => tokens'[v].status # "unborn"
    BY <1>0, <2>3 DEF TokensAreKept
  <2>5. \A t \in TokenIds : tokens'[t].status = "deleted" => tokens'[t].user \in unlinked'
    BY <1>0, <2>2, <2>3 DEF TokensAreKept, TokensOf
  <2>6. UnlinkingIsComplete'
    <3> SUFFICES ASSUME NEW v \in TokenIds, NEW w \in TokenIds, tokens'[v].status = "deleted",
                        tokens'[w].status = "present", tokens'[v].user = tokens'[w].user
                 PROVE  v < w
      BY DEF UnlinkingIsComplete
    <3>1. w \notin TokensOf(z) /\ tokens[w].status = "present" /\ tokens[v].user = tokens[w].user
      BY <2>3
    <3>2. tokens[w].user # z
      BY <3>1 DEF TokensOf
    <3>3. v \notin TokensOf(z)
      BY <3>1, <3>2 DEF TokensOf
    <3>4. tokens[v].status = "deleted"
      BY <2>3, <3>3
    <3> QED
      BY <1>0, <3>1, <3>4 DEF TokensAreKept, UnlinkingIsComplete
  <2>7. ASSUME NEW u \in UserIds, Linked(u) PROVE Linked(u)'
    <3>1. CASE u = z
      BY <2>2, <3>1 DEF Linked
    <3>2. CASE u # z
      <4>1. \A t \in TokensOf(u) : t \in TokenIds /\ t \notin TokensOf(z)
        BY <3>2 DEF TokensOf
      <4>2. TokensOf(u) \subseteq TokensOf(u)'
        BY <2>3, <4>1 DEF TokensOf
      <4> QED
        BY <2>2, <2>7, <4>2 DEF Linked
    <3> QED
      BY <3>1, <3>2
  <2> QED
    BY <2>4, <2>5, <2>6, <2>7 DEF TokensAreKept
<1>4. ASSUME NEW s \in Requests,
             \/ \E p \in People : AuthRequired(s, p)
             \/ \E e \in EventIds : UserAuthorizedForEvent(s, e)
             \/ \E form \in Filled : CreateEvent(s, form)
             \/ Refused(s) \/ DeleteEvent(s)
      PROVE  UNCHANGED <<tokens, unlinked>>
  BY <1>4 DEF AuthRequired, UserAuthorizedForEvent, CreateEvent, Refused, DeleteEvent
<1>5. CASE Elsewhere
  BY <1>1, <1>5 DEF Elsewhere
<1> QED
  BY <1>1, <1>2, <1>3, <1>4, <1>5, OrganiserSteps DEF Serves

\* What holds of a user of a request or of an event goes on to hold.
LEMMA UsersKept ==
    ASSUME OrganisersInv, [Next]_vars, NEW u \in UserIds, Present(u)
    PROVE  /\ Present(u)' /\ users'[u].owner = users[u].owner /\ users'[u].name = users[u].name
           /\ Linked(u) => Linked(u)'
           /\ Restless(users[u].name) => Restless(users[u].name)'
           /\ users'[u].owner = users[u].owner
<1>1. NamesStay
  BY StepsAccounts, NamesGrow DEF OrganisersInv
<1>2. Present(u)' /\ users'[u].owner = users[u].owner /\ users'[u].name = users[u].name
  BY <1>1 DEF NamesStay
<1>3. Restless(users[u].name) => Restless(users[u].name)'
  BY <1>1, <1>2 DEF NamesStay, Restless
<1> QED
  BY <1>2, <1>3, TokensNext

LEMMA EventsNext ==
    ASSUME OrganisersInv, [Next]_vars
    PROVE  \A e \in EventIds : EventIsOwned(e)'
<1>0. /\ events \in [EventIds -> Events]
      /\ \A s \in Requests : RequestIsTheirs(s)
      /\ \A e \in EventIds : EventIsOwned(e)
  BY DEF OrganisersInv, OrganisersTypes
<1>1. ASSUME NEW e \in EventIds, events'[e] = events[e] PROVE EventIsOwned(e)'
  BY <1>0, <1>1, UsersKept DEF EventIsOwned
<1>2. ASSUME NEW s \in Requests, NEW form \in Filled, CreateEvent(s, form)
      PROVE  \A e \in EventIds : EventIsOwned(e)'
  <2>1. PICK e \in EventIds :
            events' = [events EXCEPT ![e] = [status |-> "present", user |-> request[s].user,
                                             row |-> StoredRow[form], form |-> form]]
    BY <1>2 DEF CreateEvent, Add, NextId
  <2>2. /\ events'[e] = [status |-> "present", user |-> request[s].user, row |-> StoredRow[form], form |-> form]
        /\ \A d \in EventIds \ {e} : events'[d] = events[d]
    BY <1>0, <2>1
  <2>3. PICK u \in UserIds : u = request[s].user
    BY <1>0, <1>2 DEF CreateEvent, RequestIsTheirs
  <2>4. Present(u) /\ (StoredRow[form].kind = "googleDrive" => Linked(u))
    BY <1>0, <1>2, <2>3 DEF CreateEvent, RequestIsTheirs
  <2>5. Present(u)' /\ (StoredRow[form].kind = "googleDrive" => Linked(u)')
    BY <2>4, UsersKept
  <2>6. EventIsOwned(e)'
    <3>1. events'[e].user = u /\ events'[e].row = StoredRow[form]
      BY <2>2, <2>3
    <3> QED
      BY <2>5, <3>1 DEF EventIsOwned, Present, Linked, TokensOf
  <2> QED
    BY <1>1, <2>2, <2>6
<1>3. ASSUME NEW s \in Requests, DeleteEvent(s) PROVE \A e \in EventIds : EventIsOwned(e)'
  <2>1. request[s].event \in EventIds
    BY <1>0, <1>3 DEF DeleteEvent, RequestIsTheirs
  <2>2. /\ events'[request[s].event].status = "deleted"
        /\ \A d \in EventIds \ {request[s].event} : events'[d] = events[d]
    BY <1>0, <1>3, <2>1 DEF DeleteEvent, NoEvent
  <2>4. ASSUME NEW e \in EventIds PROVE EventIsOwned(e)'
    <3>1. CASE e = request[s].event
      BY <2>2, <3>1 DEF EventIsOwned
    <3>2. CASE e # request[s].event
      BY <1>1, <2>2, <3>2
    <3> QED
      BY <3>1, <3>2
  <2> QED
    BY <2>4
<1>4. ASSUME NEW s \in Requests,
             \/ \E p \in People : AuthRequired(s, p)
             \/ \E e \in EventIds : UserAuthorizedForEvent(s, e)
             \/ Refused(s) \/ HandleGoogleRedirect(s) \/ DeleteGoogleToken(s)
      PROVE  UNCHANGED events
  BY <1>4 DEF AuthRequired, UserAuthorizedForEvent, Refused, HandleGoogleRedirect, DeleteGoogleToken
<1>5. CASE UNCHANGED events
  BY <1>1, <1>5
<1> QED
  BY <1>2, <1>3, <1>4, <1>5, OrganiserSteps DEF Serves, Elsewhere

LEMMA RequestsNext ==
    ASSUME OrganisersInv, [Next]_vars
    PROVE  \A s \in Requests : RequestIsTheirs(s)'
<1>0. /\ events \in [EventIds -> Events] /\ request \in [Requests -> OrganiserRequests]
      /\ \A s \in Requests : RequestIsTheirs(s)
      /\ AccountsInv /\ cookie \in [People -> Names \cup {None}]
  BY DEF OrganisersInv, OrganisersTypes, AccountsInv, AccountsTypes
\* A request that stays, with its event or without.
<1>1. ASSUME NEW s \in Requests, request'[s] = request[s],
             request[s].pc = "authorized" => events'[request[s].event] = events[request[s].event]
                                             \/ events'[request[s].event].status = "deleted"
      PROVE  RequestIsTheirs(s)'
  <2>1. CASE request[s].pc = "idle"
    BY <1>1, <2>1 DEF RequestIsTheirs
  <2>2. CASE request[s].pc # "idle"
    <3>1. PICK u \in UserIds : u = request[s].user
      BY <1>0, <2>2 DEF RequestIsTheirs
    <3>2. /\ Present(u)' /\ users'[u].owner = users[u].owner
          /\ Linked(u) => Linked(u)'
          /\ Restless(users[u].name) => Restless(users[u].name)'
      BY <1>0, <2>2, <3>1, UsersKept DEF RequestIsTheirs
    <3>3. Present(u) /\ (users[u].owner = request[s].who \/ Restless(users[u].name))
          /\ (request[s].linked => Linked(u))
      BY <1>0, <2>2, <3>1 DEF RequestIsTheirs
    <3>4. request'[s].user = u /\ request[s].user = u
      BY <1>1, <3>1
    <3>5. request'[s].pc = "authorized" =>
              /\ request'[s].event \in EventIds /\ events'[request'[s].event].status # "unborn"
              /\ events'[request'[s].event].status = "present" =>
                    events'[request'[s].event].user = request'[s].user
      BY <1>0, <1>1, <2>2 DEF RequestIsTheirs
    <3>6. Present(request[s].user)' /\ (request'[s].linked => Linked(request[s].user)')
      BY <1>1, <3>2, <3>3, <3>4 DEF Present, Linked, TokensOf
    <3>7. users'[request'[s].user].owner = request'[s].who \/ Restless(users[request[s].user].name)'
      BY <1>1, <3>2, <3>3, <3>4 DEF Restless
    <3> QED
      BY <1>0, <1>1, <2>2, <3>4, <3>5, <3>6, <3>7 DEF RequestIsTheirs
  <2> QED
    BY <2>1, <2>2
<1>2. ASSUME NEW s \in Requests, request'[s] = NoRequest PROVE RequestIsTheirs(s)'
  BY <1>2 DEF RequestIsTheirs, NoRequest
<1>3. ASSUME NEW s \in Requests, NEW p \in People, AuthRequired(s, p)
      PROVE  \A t \in Requests : RequestIsTheirs(t)'
  <2>1. PICK u \in UserIds : u = GetUser(cookie[p])
    BY <1>3, GetUserFinds DEF AuthRequired
  <2>2. u \in Called(cookie[p])
    BY <1>3, <2>1, GetUserFinds DEF AuthRequired
  <2>3. Present(u) /\ users[u].name = cookie[p]
    BY <2>2 DEF Called, Present
  <2>4. users[u].owner = p \/ Restless(users[u].name)
    BY <1>0, <1>3, <2>1, <2>3 DEF AuthRequired, AccountsInv, CookiesMeanTheirUser
  <2>5. /\ request'[s] = [pc |-> "authenticated", who |-> p, user |-> u,
                          linked |-> GoogleDriveToken(u) # None, event |-> None]
        /\ \A t \in Requests \ {s} : request'[t] = request[t]
        /\ UNCHANGED <<users, driver, overlapped, tokens, events, unlinked>>
    BY <1>0, <1>3, <2>1 DEF AuthRequired, accountVars
  <2>6. request'[s].linked => TokensOf(u) # {}
    <3>1. request'[s].linked = (GoogleDriveToken(u) # None)
      BY <2>5
    <3> QED
      BY <3>1, TokenFinds
  <2>7. RequestIsTheirs(s)'
    <3>1. /\ request'[s].pc = "authenticated" /\ request'[s].who = p /\ request'[s].user = u
      BY <2>5
    <3>2. users'[u].owner = p \/ (driver' = "mysql" /\ users'[u].name \in overlapped')
      BY <2>4, <2>5 DEF Restless
    <3>3. u \in UserIds /\ users'[u].status = "present"
      BY <2>3, <2>5 DEF Present
    <3>4. request'[s].linked => TokensOf(request[s].user)' # {}
      BY <2>5, <2>6, <3>1 DEF TokensOf
    <3> QED
      BY <3>1, <3>2, <3>3, <3>4 DEF RequestIsTheirs, Present, Restless, Linked
  <2> QED
    BY <1>1, <2>5, <2>7
<1>4. ASSUME NEW s \in Requests, NEW e \in EventIds, UserAuthorizedForEvent(s, e)
      PROVE  \A t \in Requests : RequestIsTheirs(t)'
  <2>1. /\ request'[s].pc = "authorized" /\ request'[s].who = request[s].who
        /\ request'[s].user = request[s].user /\ request'[s].linked = FALSE /\ request'[s].event = e
        /\ \A t \in Requests \ {s} : request'[t] = request[t]
    BY <1>0, <1>4 DEF UserAuthorizedForEvent, OrganiserRequests
  <2>2. UNCHANGED <<users, driver, overlapped, tokens, events, unlinked>> /\ request[s].pc # "idle"
        /\ events[e].status = "present" /\ events[e].user = request[s].user
    BY <1>4 DEF UserAuthorizedForEvent, accountVars
  <2>3. RequestIsTheirs(s)'
    BY <1>0, <2>1, <2>2 DEF RequestIsTheirs, Present, Restless, Linked
  <2> QED
    BY <1>1, <2>1, <2>2, <2>3
<1>5. ASSUME NEW s \in Requests, Finished(s),
             \/ UNCHANGED events
             \/ \E form \in Filled : Add(s, form)
             \/ DeleteEvent(s)
      PROVE  \A t \in Requests : RequestIsTheirs(t)'
  <2>1. request'[s] = NoRequest /\ \A t \in Requests \ {s} : request'[t] = request[t]
    BY <1>0, <1>5 DEF Finished
  <2>2. ASSUME NEW e \in EventIds, events[e].status # "unborn"
        PROVE  events'[e] = events[e] \/ events'[e].status = "deleted"
    <3>1. CASE DeleteEvent(s)
      BY <1>0, <3>1 DEF DeleteEvent, NoEvent
    <3>2. CASE \E form \in Filled : Add(s, form)
      BY <1>0, <2>2, <3>2 DEF Add, NextId
    <3> QED
      BY <1>5, <3>1, <3>2
  <2>3. \A t \in Requests \ {s} : RequestIsTheirs(t)'
    BY <1>0, <1>1, <2>1, <2>2 DEF RequestIsTheirs
  <2> QED
    BY <1>2, <2>1, <2>3
<1>6. CASE Elsewhere
  <2>1. CASE request' = request
    BY <1>1, <1>6, <2>1 DEF Elsewhere
  <2>2. CASE request' = [s \in Requests |-> NoRequest]
    BY <1>2, <2>2
  <2> QED
    BY <1>6, <2>1, <2>2 DEF Elsewhere
<1>7. ASSUME NEW s \in Requests,
             \/ \E form \in Filled : CreateEvent(s, form)
             \/ Refused(s) \/ DeleteEvent(s) \/ HandleGoogleRedirect(s) \/ DeleteGoogleToken(s)
      PROVE  \A t \in Requests : RequestIsTheirs(t)'
  BY <1>5, <1>7 DEF CreateEvent, Refused, DeleteEvent, HandleGoogleRedirect, DeleteGoogleToken
<1> QED
  BY <1>3, <1>4, <1>6, <1>7, OrganiserSteps DEF Serves

-----------------------------------------------------------------------------
(* Theorems                                                                *)

LEMMA OrganisersInvariant == Spec => []OrganisersInv
<1>1. OrganisersInv /\ [Next]_vars => OrganisersInv'
  <2>1. OrganisersInv /\ [Next]_vars => AccountsInv'
    BY StepsAccounts, AccountsNextInv DEF OrganisersInv
  <2> QED
    BY <2>1, OrganisersTypesNext, TokensNext, EventsNext, RequestsNext DEF OrganisersInv
<1> QED
  BY <1>1, OrganisersInitInv, PTL DEF Spec

\* Users, slots, cookies, tokens, events and requests are well-typed, and a
\* request that is being served has a person and a user.
THEOREM OrganisersTypeCorrect == Spec => []OrganisersTypeOK
<1>1. OrganisersInv => OrganisersTypeOK
  <2> SUFFICES ASSUME OrganisersInv PROVE OrganisersTypeOK
    OBVIOUS
  <2>1. \A s \in Requests : request[s].pc # "idle" => request[s].who # None /\ request[s].user # None
    BY AccountsAssumption DEF OrganisersInv, RequestIsTheirs
  <2> QED
    BY <2>1 DEF OrganisersInv, OrganisersTypeOK, OrganisersTypes, AccountsInv, AccountsTypes
<1> QED
  BY <1>1, OrganisersInvariant, PTL

\* Two users have one name only if two requests or processes were creating it
\* at once, if a failed lookup took a name in use for an unused one, or if it is
\* the administrator's and a process has gone on with its start without there
\* being an administrator; on either driver (CreateUser, NewDb).
THEOREM NamesAreAlwaysUnique == Spec => []NamesAreUnique
<1>1. OrganisersInv => NamesAreUnique
  <2> SUFFICES ASSUME OrganisersInv, NEW n \in Names, n \notin overlapped, n \notin blind,
                      ~(n = Admin /\ headless)
               PROVE  \A u, v \in Called(n) : u = v
    BY DEF NamesAreUnique
  <2>1. n \notin Doubted
    BY DEF Doubted
  <2> QED
    BY <2>1 DEF OrganisersInv, AccountsInv, Careful
<1> QED
  BY <1>1, OrganisersInvariant, PTL

\* A session is its user's: always on SQLite, and on MySQL but for a name that
\* was being created twice at once (Login, AuthRequired, GetUser).
THEOREM SessionsAlwaysKeepTheirUser == Spec => []SessionsKeepTheirUser
<1>1. OrganisersInv => SessionsKeepTheirUser
  BY DEF OrganisersInv, AccountsInv, CookiesMeanTheirUser, SessionsKeepTheirUser, Restless, Unsettled
<1> QED
  BY <1>1, OrganisersInvariant, PTL

\* A name goes on to mean the user it means (First of GetUser): always on
\* SQLite, and on MySQL but for a name that was being created twice at once.
THEOREM NamesStayTheirs == Spec => NamesAreStable
<1>1. OrganisersInv /\ [Next]_vars =>
          [\A n \in Names : GetUser(n) # None => GetUser(n)' = GetUser(n) \/ Unsettled(n)]_vars
  BY StepsAccounts, NamesGrow DEF OrganisersInv, NamesStay, Restless, Unsettled
<1> QED
  BY <1>1, OrganisersInvariant, PTL DEF Spec, NamesAreStable

\* Only its owner's requests delete an event, but on MySQL for an owner whose name
\* was being created twice at once (AuthRequired, UserAuthorizedForEvent,
\* deleteEvent).
THEOREM OnlyOwnersDecide == Spec => OwnersDecide
<1>1. OrganisersInv /\ [Next]_vars => [Decided]_vars
  <2> SUFFICES ASSUME OrganisersInv, [Next]_vars, NEW e \in EventIds,
                      events[e].status = "present", events'[e] # events[e]
               PROVE  \/ Unsettled(users[events[e].user].name)
                      \/ \E s \in Requests : /\ request[s].event = e
                                             /\ request[s].who = users[events[e].user].owner
    BY DEF Decided
  <2>0. events \in [EventIds -> Events] /\ \A s \in Requests : RequestIsTheirs(s)
    BY DEF OrganisersInv, OrganisersTypes
  <2>1. PICK s \in Requests : DeleteEvent(s) \/ \E form \in Filled : CreateEvent(s, form)
    BY OrganiserSteps DEF Serves, Elsewhere, AuthRequired, UserAuthorizedForEvent, Refused,
                          HandleGoogleRedirect, DeleteGoogleToken
  <2>2. DeleteEvent(s) /\ request[s].event = e
    BY <2>0, <2>1 DEF DeleteEvent, CreateEvent, Add, NextId
  <2>3. events[e].user = request[s].user
        /\ (users[request[s].user].owner = request[s].who \/ Restless(users[request[s].user].name))
    BY <2>0, <2>2 DEF DeleteEvent, RequestIsTheirs
  <2> QED
    BY <2>2, <2>3 DEF Restless, Unsettled
<1> QED
  BY <1>1, OrganisersInvariant, PTL DEF Spec, OwnersDecide

\* A Drive event whose owner has never unlinked Drive has a token to work with
\* (createEvent, ExtractEventStorage).
THEOREM OnlyUnlinkingEverPanics == Spec => []OnlyUnlinkingPanics
<1>1. OrganisersInv => OnlyUnlinkingPanics
  BY TokenFinds DEF OrganisersInv, EventIsOwned, Linked, OnlyUnlinkingPanics, ExtractPanics
<1> QED
  BY <1>1, OrganisersInvariant, PTL

\* Unlinking takes every token (DeleteGoogleToken).
THEOREM UnlinkingIsAlwaysComplete == Spec => []UnlinkingIsComplete
<1>1. OrganisersInv => UnlinkingIsComplete
  BY DEF OrganisersInv, TokensAreKept
<1> QED
  BY <1>1, OrganisersInvariant, PTL

\* The row of an event that is there is that of its form.
RowsOfForms ==
    \A e \in EventIds : events[e].status = "present" =>
        events[e].form \in Filled /\ events[e].row = StoredRow[events[e].form]

LEMMA RowsStayOfForms == OrganisersInv /\ RowsOfForms /\ [Next]_vars => RowsOfForms'
<1> SUFFICES ASSUME OrganisersInv, RowsOfForms, [Next]_vars,
                    NEW e \in EventIds, events'[e].status = "present"
             PROVE  events'[e].form \in Filled /\ events'[e].row = StoredRow[events'[e].form]
  BY DEF RowsOfForms
<1>0. events \in [EventIds -> Events]
  BY DEF OrganisersInv, OrganisersTypes
<1>1. CASE events' = events
  BY <1>1 DEF RowsOfForms
<1>2. ASSUME NEW s \in Requests, NEW form \in Filled, CreateEvent(s, form)
      PROVE  events'[e].form \in Filled /\ events'[e].row = StoredRow[events'[e].form]
  <2>1. PICK i \in EventIds :
           events' = [events EXCEPT ![i] = [status |-> "present", user |-> request[s].user,
                                            row |-> StoredRow[form], form |-> form]]
    BY <1>2 DEF CreateEvent, Add, NextId
  <2>2. CASE e = i
    BY <1>0, <2>1, <2>2
  <2>3. CASE e # i
    BY <1>0, <2>1, <2>3 DEF RowsOfForms
  <2> QED
    BY <2>2, <2>3
<1>3. ASSUME NEW s \in Requests, DeleteEvent(s)
      PROVE  events'[e].form \in Filled /\ events'[e].row = StoredRow[events'[e].form]
  <2>1. e # request[s].event
    BY <1>0, <1>3 DEF DeleteEvent, NoEvent
  <2> QED
    BY <1>0, <1>3, <2>1 DEF DeleteEvent, RowsOfForms
<1> QED
  BY <1>1, <1>2, <1>3, OrganiserSteps DEF Serves, Elsewhere, AuthRequired, UserAuthorizedForEvent, Refused,
                                          HandleGoogleRedirect, DeleteGoogleToken

\* Every event is stored as its form was filled in (json-enc-custom,
\* createEvent, CreateEvent).
THEOREM EventsAreStoredAsIntended == Spec => []StoredAsIntended
<1>1. Init => RowsOfForms
  BY DEF Init, RowsOfForms, NoEvent
<1>2. RowsOfForms => StoredAsIntended
  <2>1. ASSUME NEW form \in Filled PROVE StoredRow[form] = Intended(form)
    BY RowsAreAsIntended, OrganisersAssumption DEF StoredRow
  <2> QED
    BY <2>1 DEF RowsOfForms, StoredAsIntended
<1> QED
  BY <1>1, <1>2, RowsStayOfForms, OrganisersInvariant, PTL DEF Spec
=============================================================================
