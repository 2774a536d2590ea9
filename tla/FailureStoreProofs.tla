------------------------- MODULE FailureStoreProofs -------------------------
(***************************************************************************)
(* The theorems about FailureStore: what load() accepts is all that save() *)
(* was given, with every recorded outcome as it was, and an undisturbed    *)
(* save is accepted.                                                       *)
(*                                                                         *)
(* The invariant compares the file with the store as it was when the last  *)
(* save began (source).  Whole, cut or damaged, the file only holds frames *)
(* of that save, none twice (Genuine), so that a file with as many frames  *)
(* as its header counts misses none of them.                               *)
(***************************************************************************)
EXTENDS FailureStore, OperationRuntimeProofs, SequenceTheorems, FiniteSetTheorems

-----------------------------------------------------------------------------
(* The frames of one kind in a file, and the identifiers they carry.       *)

Positions(s, kind) == {i \in DOMAIN s : s[i].kind = kind}

Ids(s, kind) == {s[i].id : i \in Positions(s, kind)}

Unique(s, kind) == \A i, j \in Positions(s, kind) : s[i].id = s[j].id => i = j

Frame ==
    [kind : {"HEADER"}, nfail : Nat, nop : Nat, nid : Nat]
    \cup [kind : {"FAIL"}, id : FailureIds, content : AuthorityEnvelope]
    \cup [kind : {"OP"}, id : Ops, content : Runtime]
    \cup [kind : {"ID"}, id : Keys, content : Entries]
    \cup [kind : {"OWN"}, ownership : Ownership(Boots \cup {NullId})]
    \cup {TornFrame}

-----------------------------------------------------------------------------
(* The inductive invariant.                                                *)

\* A finite map from some of the keys to values.
Table(f, K, V) ==
    /\ f \in [DOMAIN f -> V]
    /\ DOMAIN f \subseteq K
    /\ IsFiniteSet(DOMAIN f)

Tables(f, o, e) ==
    /\ Table(f, FailureIds, AuthorityEnvelope)
    /\ Table(o, Ops, Runtime)
    /\ Table(e, Keys, Entries)

Typed ==
    /\ Tables(failures, ops, entries)
    /\ Tables(source.failures, source.ops, source.entries)
    /\ ownership \in Ownership(Boots \cup {NullId})
    /\ pc \in {"idle", "failures", "list", "ops", "owner", "starting"}
    /\ saved \in BOOLEAN
    /\ file \in Seq(Frame)

SourceHeader ==
    [kind |-> "HEADER", nfail |-> Cardinality(DOMAIN source.failures),
     nop |-> Cardinality(DOMAIN source.ops),
     nid |-> Cardinality(DOMAIN source.entries)]

\* What a frame says of the store as it was when the save began.
Truthful(fr) ==
    /\ fr.kind = "FAIL" => /\ fr.id \in DOMAIN source.failures
                           /\ fr.content = source.failures[fr.id]
    /\ fr.kind = "OP" => /\ fr.id \in DOMAIN source.ops
                         /\ fr.content \in Runtime
                         /\ source.ops[fr.id].terminal_recorded
                                => fr.content = source.ops[fr.id]
    /\ fr.kind = "ID" => /\ fr.id \in DOMAIN source.entries
                         /\ fr.content = source.entries[fr.id]

\* Whole, cut or damaged, the file starts with the header of the last save and
\* holds nothing but frames of that save, none of them twice.
Genuine ==
    /\ \A i \in DOMAIN file : Truthful(file[i])
    /\ Unique(file, "FAIL") /\ Unique(file, "OP") /\ Unique(file, "ID")
    /\ file # <<>> => file[1] \in {SourceHeader, TornFrame}

\* A file with an ownership frame was written to its end, and holds everything
\* unless it was damaged since.
Closed ==
    \A i \in DOMAIN file : file[i].kind = "OWN" =>
        /\ pc \in {"idle", "starting"}
        /\ \/ \E j \in DOMAIN file : file[j].kind = "TORN"
           \/ /\ Ids(file, "FAIL") = DOMAIN source.failures
              /\ Ids(file, "OP") = DOMAIN source.ops
              /\ Ids(file, "ID") = DOMAIN source.entries

Saving == pc \in {"failures", "list", "ops", "owner"}

\* What a save under way has written, and that the store only moves on in
\* operations without a recorded outcome.
Written ==
    /\ file # <<>> /\ file[1] = SourceHeader
    /\ Ids(file, "FAIL") = (IF pc = "failures" THEN {} ELSE DOMAIN failures)
    /\ Ids(file, "OP") = (IF pc \in {"ops", "owner"} THEN DOMAIN ops \ todo ELSE {})
    /\ Ids(file, "ID") = (IF pc = "owner" THEN DOMAIN entries ELSE {})

Held ==
    /\ failures = source.failures /\ entries = source.entries
    /\ DOMAIN ops = DOMAIN source.ops
    /\ \A op \in DOMAIN ops : source.ops[op].terminal_recorded => ops[op] = source.ops[op]

\* What save() may see of the runtime it is reading.
Reading ==
    /\ pc # "ops" => todo = {} /\ reading = NoOp
    /\ todo \subseteq DOMAIN ops
    /\ reading \in todo \cup {NoOp}
    /\ seen \subseteq Runtime
    /\ reading # NoOp /\ source.ops[reading].terminal_recorded
           => seen \subseteq {source.ops[reading]}

IInv ==
    /\ Typed /\ Genuine /\ Closed /\ Reading
    /\ Saving => Written /\ Held

-----------------------------------------------------------------------------
(* Files as sequences of frames.                                           *)

\* Every element of a concatenation is one of the two parts'.
LEMMA ConcatElement ==
    ASSUME NEW S, NEW s \in Seq(S), NEW t \in Seq(S)
    PROVE  /\ s \o t \in Seq(S)
           /\ Len(s \o t) = Len(s) + Len(t)
           /\ \A i \in DOMAIN s : i \in DOMAIN (s \o t) /\ (s \o t)[i] = s[i]
           /\ \A j \in DOMAIN t : /\ Len(s) + j \in DOMAIN (s \o t)
                                  /\ (s \o t)[Len(s) + j] = t[j]
           /\ \A i \in DOMAIN (s \o t) :
                  i \in DOMAIN s \/ \E j \in DOMAIN t : i = Len(s) + j
<1>1. /\ s \o t \in Seq(S)
      /\ Len(s \o t) = Len(s) + Len(t)
  OBVIOUS
<1>2. /\ DOMAIN s = 1..Len(s) /\ DOMAIN t = 1..Len(t)
      /\ DOMAIN (s \o t) = 1..(Len(s) + Len(t))
      /\ Len(s) \in Nat /\ Len(t) \in Nat
  BY <1>1
<1>3. \A i \in DOMAIN s : i \in DOMAIN (s \o t) /\ (s \o t)[i] = s[i]
  BY <1>2
<1>4. \A j \in DOMAIN t : /\ Len(s) + j \in DOMAIN (s \o t)
                          /\ (s \o t)[Len(s) + j] = t[j]
  BY <1>2
<1>5. ASSUME NEW i \in DOMAIN (s \o t), i \notin DOMAIN s
      PROVE  \E j \in DOMAIN t : i = Len(s) + j
  <2>1. i \in Nat /\ i > Len(s) /\ i <= Len(s) + Len(t)
    BY <1>2, <1>5
  <2>2. i - Len(s) \in 1..Len(t) /\ i = Len(s) + (i - Len(s))
    BY <2>1, <1>2
  <2> QED BY <2>2, <1>2
<1> QED BY <1>1, <1>3, <1>4, <1>5

\* A concatenation carries the identifiers of both parts.
LEMMA ConcatIds ==
    ASSUME NEW S, NEW s \in Seq(S), NEW t \in Seq(S), NEW kind
    PROVE  Ids(s \o t, kind) = Ids(s, kind) \cup Ids(t, kind)
<1> DEFINE c == s \o t
<1>0. /\ \A i \in DOMAIN s : i \in DOMAIN c /\ c[i] = s[i]
      /\ \A j \in DOMAIN t : Len(s) + j \in DOMAIN c /\ c[Len(s) + j] = t[j]
      /\ \A i \in DOMAIN c : i \in DOMAIN s \/ \E j \in DOMAIN t : i = Len(s) + j
  BY ConcatElement
<1> HIDE DEF c
<1>1. ASSUME NEW x \in Ids(c, kind)
      PROVE  x \in Ids(s, kind) \cup Ids(t, kind)
  <2>1. PICK i \in DOMAIN c : c[i].kind = kind /\ x = c[i].id
    BY <1>1 DEF Ids, Positions
  <2>2. CASE i \in DOMAIN s
    <3>1. c[i] = s[i]
      BY <1>0, <2>2
    <3>2. i \in Positions(s, kind)
      BY <2>1, <2>2, <3>1 DEF Positions
    <3> QED BY <2>1, <3>1, <3>2 DEF Ids
  <2>3. CASE \E j \in DOMAIN t : i = Len(s) + j
    <3>1. PICK j \in DOMAIN t : i = Len(s) + j
      BY <2>3
    <3>2. c[i] = t[j]
      BY <1>0, <3>1
    <3>3. j \in Positions(t, kind)
      BY <2>1, <3>2 DEF Positions
    <3> QED BY <2>1, <3>2, <3>3 DEF Ids
  <2> QED BY <1>0, <2>2, <2>3
<1>2. ASSUME NEW x \in Ids(s, kind)
      PROVE  x \in Ids(c, kind)
  <2>1. PICK i \in DOMAIN s : s[i].kind = kind /\ x = s[i].id
    BY <1>2 DEF Ids, Positions
  <2>2. i \in Positions(c, kind) /\ c[i].id = x
    BY <1>0, <2>1 DEF Positions
  <2> QED BY <2>2 DEF Ids
<1>3. ASSUME NEW x \in Ids(t, kind)
      PROVE  x \in Ids(c, kind)
  <2>1. PICK j \in DOMAIN t : t[j].kind = kind /\ x = t[j].id
    BY <1>3 DEF Ids, Positions
  <2>2. Len(s) + j \in Positions(c, kind) /\ c[Len(s) + j].id = x
    BY <1>0, <2>1 DEF Positions
  <2> QED BY <2>2 DEF Ids
<1>4. Ids(c, kind) = Ids(s, kind) \cup Ids(t, kind)
  BY <1>1, <1>2, <1>3
<1> QED BY <1>4 DEF c

\* A concatenation of parts that share no identifier carries none twice.
LEMMA ConcatUnique ==
    ASSUME NEW S, NEW s \in Seq(S), NEW t \in Seq(S), NEW kind,
           Unique(s, kind), Unique(t, kind),
           Ids(s, kind) \cap Ids(t, kind) = {}
    PROVE  Unique(s \o t, kind)
<1> DEFINE c == s \o t
<1>0. /\ \A i \in DOMAIN s : i \in DOMAIN c /\ c[i] = s[i]
      /\ \A j \in DOMAIN t : Len(s) + j \in DOMAIN c /\ c[Len(s) + j] = t[j]
      /\ \A i \in DOMAIN c : i \in DOMAIN s \/ \E j \in DOMAIN t : i = Len(s) + j
  BY ConcatElement
<1> HIDE DEF c
<1>a. ASSUME NEW i \in Positions(c, kind)
      PROVE  \/ i \in Positions(s, kind) /\ c[i].id = s[i].id
             \/ \E j \in Positions(t, kind) : i = Len(s) + j /\ c[i].id = t[j].id
  <2>1. i \in DOMAIN c /\ c[i].kind = kind
    BY <1>a DEF Positions
  <2>2. CASE i \in DOMAIN s
    BY <2>1, <2>2, <1>0 DEF Positions
  <2>3. CASE \E j \in DOMAIN t : i = Len(s) + j
    BY <2>1, <2>3, <1>0 DEF Positions
  <2> QED BY <2>1, <2>2, <2>3, <1>0
<1>b. ASSUME NEW i \in Positions(s, kind), NEW j \in Positions(t, kind)
      PROVE  s[i].id # t[j].id
  BY <1>b DEF Ids
<1>1. ASSUME NEW i \in Positions(c, kind), NEW j \in Positions(c, kind),
             c[i].id = c[j].id
      PROVE  i = j
  <2>1. CASE i \in Positions(s, kind) /\ c[i].id = s[i].id
    <3>1. CASE j \in Positions(s, kind) /\ c[j].id = s[j].id
      BY <1>1, <2>1, <3>1 DEF Unique
    <3>2. CASE \E l \in Positions(t, kind) : j = Len(s) + l /\ c[j].id = t[l].id
      BY <1>1, <1>b, <2>1, <3>2
    <3> QED BY <1>a, <3>1, <3>2
  <2>2. CASE \E l \in Positions(t, kind) : i = Len(s) + l /\ c[i].id = t[l].id
    <3>1. CASE j \in Positions(s, kind) /\ c[j].id = s[j].id
      BY <1>1, <1>b, <2>2, <3>1
    <3>2. CASE \E l \in Positions(t, kind) : j = Len(s) + l /\ c[j].id = t[l].id
      BY <1>1, <2>2, <3>2 DEF Unique
    <3> QED BY <1>a, <3>1, <3>2
  <2> QED BY <1>a, <2>1, <2>2
<1>2. Unique(c, kind)
  BY <1>1 DEF Unique
<1> QED BY <1>2 DEF c

\* A part of a file, possibly followed by a torn frame, carries no identifier
\* the file does not, and none twice.
LEMMA PartOfFile ==
    ASSUME NEW s, NEW c, NEW kind, kind # "TORN",
           \A i \in DOMAIN c : (i \in DOMAIN s /\ c[i] = s[i]) \/ c[i] = TornFrame
    PROVE  /\ Ids(c, kind) \subseteq Ids(s, kind)
           /\ Unique(s, kind) => Unique(c, kind)
<1>1. \A i \in Positions(c, kind) : i \in Positions(s, kind) /\ c[i] = s[i]
  BY DEF Positions, TornFrame
<1>2. Ids(c, kind) \subseteq Ids(s, kind)
  BY <1>1 DEF Ids
<1>3. Unique(s, kind) => Unique(c, kind)
  BY <1>1 DEF Unique
<1> QED BY <1>2, <1>3

\* What a crash or a full disk leaves: a prefix and perhaps a torn frame.
LEMMA CutFile ==
    ASSUME file \in Seq(Frame), NEW n \in 0..Len(file), NEW torn \in BOOLEAN
    PROVE  /\ Cut(n, torn) \in Seq(Frame)
           /\ \A i \in DOMAIN Cut(n, torn) :
                  \/ i \in DOMAIN file /\ Cut(n, torn)[i] = file[i]
                  \/ Cut(n, torn)[i] = TornFrame
           /\ ~torn /\ n = Len(file) => Cut(n, torn) = file
<1> DEFINE p == SubSeq(file, 1, n)
           t == IF torn THEN <<TornFrame>> ELSE <<>>
<1>1. /\ p \in Seq(Frame) /\ Len(p) = n
      /\ \A i \in DOMAIN p : i \in DOMAIN file /\ p[i] = file[i]
  OBVIOUS
<1>2. t \in Seq(Frame) /\ (torn => Len(t) = 1 /\ t[1] = TornFrame) /\ (~torn => t = <<>>)
  <2>1. CASE torn
    <3>1. t = <<TornFrame>> /\ TornFrame \in Frame
      BY <2>1 DEF Frame
    <3> HIDE DEF t
    <3> QED BY <2>1, <3>1
  <2>2. CASE ~torn
    <3>1. t = <<>>
      BY <2>2
    <3> HIDE DEF t
    <3> QED BY <2>2, <3>1
  <2> QED BY <2>1, <2>2
<1>3. \A j \in DOMAIN t : t[j] = TornFrame
  BY <1>2
<1>4. Cut(n, torn) = p \o t
  BY DEF Cut
<1>5. ~torn /\ n = Len(file) => p \o t = file
  BY <1>2
<1> HIDE DEF p, t
<1>6. /\ p \o t \in Seq(Frame)
      /\ \A i \in DOMAIN p : (p \o t)[i] = p[i]
      /\ \A j \in DOMAIN t : (p \o t)[Len(p) + j] = t[j]
      /\ \A i \in DOMAIN (p \o t) : i \in DOMAIN p \/ \E j \in DOMAIN t : i = Len(p) + j
  <2>1. p \in Seq(Frame) /\ t \in Seq(Frame)
    BY <1>1, <1>2
  <2> QED BY <2>1, ConcatElement
<1>7. \A i \in DOMAIN (p \o t) : (i \in DOMAIN file /\ (p \o t)[i] = file[i])
                                 \/ (p \o t)[i] = TornFrame
  BY <1>1, <1>3, <1>6
<1> QED BY <1>4, <1>5, <1>6, <1>7

\* A file that carries no identifier twice has as many frames of a kind as
\* identifiers.
LEMMA CountIds ==
    ASSUME NEW S, NEW s \in Seq(S), NEW kind, Unique(s, kind)
    PROVE  Cardinality(Positions(s, kind)) = Cardinality(Ids(s, kind))
<1> DEFINE P == Positions(s, kind)
           b == [i \in P |-> s[i].id]
<1>1. IsFiniteSet(P)
  <2>1. Len(s) \in Nat /\ P \subseteq 1..Len(s)
    BY DEF Positions
  <2>2. IsFiniteSet(1..Len(s))
    BY <2>1, FS_Interval
  <2> HIDE DEF P
  <2> QED BY <2>1, <2>2, FS_Subset
<1>2. \A i, j \in P : s[i].id = s[j].id => i = j
  BY DEF Unique
<1>3. Ids(s, kind) = {s[i].id : i \in P}
  BY DEF Ids
<1> HIDE DEF P
<1>4. b \in Bijection(P, Ids(s, kind))
  <2>1. b \in [P -> Ids(s, kind)]
    BY <1>3
  <2>2. \A i, j \in DOMAIN b : b[i] = b[j] => i = j
    BY <1>2
  <2>3. \A x \in Ids(s, kind) : \E i \in P : b[i] = x
    BY <1>3
  <2> HIDE DEF b
  <2> QED BY <2>1, <2>2, <2>3 DEF Bijection, Injection, Surjection, IsInjective
<1> HIDE DEF b
<1>5. ExistsBijection(P, Ids(s, kind))
  BY <1>4 DEF ExistsBijection
<1>6. Cardinality(Ids(s, kind)) = Cardinality(P)
  BY <1>1, <1>5, FS_Bijection
<1> QED BY <1>6 DEF P

\* The frames written for a map: one for each key, in some order.
LEMMA FramesOfMap ==
    ASSUME NEW kind, NEW f, IsFiniteSet(DOMAIN f), NEW keys \in Orders(DOMAIN f),
           \A x \in DOMAIN f : [kind |-> kind, id |-> x, content |-> f[x]] \in Frame
    PROVE  /\ Frames(kind, f, keys) \in Seq(Frame)
           /\ \A i \in DOMAIN Frames(kind, f, keys) :
                  \E x \in DOMAIN f : Frames(kind, f, keys)[i] =
                                          [kind |-> kind, id |-> x, content |-> f[x]]
           /\ Ids(Frames(kind, f, keys), kind) = DOMAIN f
           /\ Unique(Frames(kind, f, keys), kind)
<1> DEFINE n == Cardinality(DOMAIN f)
           F(x) == [kind |-> kind, id |-> x, content |-> f[x]]
           fs == Frames(kind, f, keys)
<1>1. n \in Nat
  BY FS_CardinalityType
<1>2. /\ keys \in [1..n -> DOMAIN f]
      /\ \A i, j \in 1..n : keys[i] = keys[j] => i = j
      /\ \A x \in DOMAIN f : \E i \in 1..n : keys[i] = x
  BY DEF Orders, Bijection, Injection, Surjection, IsInjective
<1>3. fs = [i \in 1..n |-> F(keys[i])]
  BY <1>2 DEF Frames
<1>a. \A x : F(x).kind = kind /\ F(x).id = x
  OBVIOUS
<1>b. \A x \in DOMAIN f : F(x) \in Frame
  OBVIOUS
<1> HIDE DEF fs, n, F
<1>4. DOMAIN fs = 1..n /\ \A i \in 1..n : fs[i] = F(keys[i]) /\ keys[i] \in DOMAIN f
  BY <1>2, <1>3
<1>5. fs \in Seq(Frame)
  <2>1. fs \in [1..n -> Frame]
    BY <1>2, <1>3, <1>b
  <2> QED BY <1>1, <2>1
<1>6. Positions(fs, kind) = 1..n
  BY <1>4, <1>a DEF Positions
<1>7. Ids(fs, kind) = DOMAIN f
  <2>1. \A i \in 1..n : fs[i].id = keys[i]
    BY <1>4, <1>a
  <2>2. Ids(fs, kind) = {fs[i].id : i \in 1..n}
    BY <1>6 DEF Ids
  <2>3. \A x \in Ids(fs, kind) : x \in DOMAIN f
    BY <2>1, <2>2, <1>4
  <2>4. \A x \in DOMAIN f : x \in Ids(fs, kind)
    BY <2>1, <2>2, <1>2
  <2> QED BY <2>3, <2>4
<1>8. Unique(fs, kind)
  BY <1>2, <1>4, <1>6, <1>a DEF Unique
<1>9. \A i \in DOMAIN fs : \E x \in DOMAIN f : fs[i] = F(x)
  BY <1>4
<1> QED BY <1>5, <1>7, <1>8, <1>9 DEF fs, F

\* A part all of whose frames are of one kind has no identifiers of another.
LEMMA OtherKinds ==
    ASSUME NEW s, NEW kind, NEW other, kind # other,
           \A i \in DOMAIN s : s[i].kind = kind
    PROVE  Ids(s, other) = {} /\ Unique(s, other)
<1>1. Positions(s, other) = {}
  BY DEF Positions
<1> QED BY <1>1 DEF Ids, Unique

-----------------------------------------------------------------------------
(* Maps.                                                                   *)

\* The empty map is a table.
LEMMA EmptyTable ==
    ASSUME NEW K, NEW V
    PROVE  Table(Empty, K, V) /\ DOMAIN Empty = {}
<1>1. DOMAIN Empty = {} /\ Empty \in [{} -> V]
  BY DEF Empty
<1> QED BY <1>1, FS_EmptySet DEF Table

\* A table stays one when a key is put into it.
LEMMA PutTable ==
    ASSUME NEW K, NEW V, NEW f, Table(f, K, V), NEW k \in K, NEW v \in V
    PROVE  /\ Table(Put(f, k, v), K, V)
           /\ DOMAIN Put(f, k, v) = DOMAIN f \cup {k}
           /\ \A x \in DOMAIN f : x # k => Put(f, k, v)[x] = f[x]
           /\ Put(f, k, v)[k] = v
<1> DEFINE D == DOMAIN f \cup {k}
<1>1. IsFiniteSet(D)
  <2>1. IsFiniteSet(DOMAIN f)
    BY DEF Table
  <2> QED BY <2>1, FS_AddElement
<1>2. D \subseteq K /\ f \in [DOMAIN f -> V]
  BY DEF Table
<1>3. Put(f, k, v) \in [D -> V] /\ DOMAIN Put(f, k, v) = D
  BY <1>2 DEF Put
<1>4. /\ \A x \in DOMAIN f : x # k => Put(f, k, v)[x] = f[x]
      /\ Put(f, k, v)[k] = v
  BY DEF Put
<1>5. Table(Put(f, k, v), K, V)
  BY <1>1, <1>2, <1>3 DEF Table
<1> QED BY <1>3, <1>4, <1>5

\* A table stays one when the value of a key changes.
LEMMA ExceptTable ==
    ASSUME NEW K, NEW V, NEW f, Table(f, K, V), NEW k \in DOMAIN f, NEW v \in V
    PROVE  /\ Table([f EXCEPT ![k] = v], K, V)
           /\ DOMAIN [f EXCEPT ![k] = v] = DOMAIN f
           /\ \A x \in DOMAIN f : [f EXCEPT ![k] = v][x] = IF x = k THEN v ELSE f[x]
BY DEF Table

-----------------------------------------------------------------------------
(* What load() accepts.                                                    *)

\* The operators of load() on the file.
LEMMA OfKindPositions ==
    ASSUME NEW kind
    PROVE  /\ OfKind(kind) = Positions(file, kind)
           /\ Distinct(kind) <=> Unique(file, kind)
BY DEF OfKind, Positions, Distinct, Unique

\* A table read back from a file that carries all its keys, each once and with
\* its value.
LEMMA RestoredTable ==
    ASSUME NEW kind, NEW f, NEW V, f \in [DOMAIN f -> V],
           Ids(file, kind) = DOMAIN f,
           \A i \in Positions(file, kind) : file[i].content = f[file[i].id]
    PROVE  Restored(kind) = f
<1> DEFINE At(id) == CHOOSE i \in OfKind(kind) : file[i].id = id
<1>1. Restored(kind) = [id \in {file[i].id : i \in OfKind(kind)} |-> file[At(id)].content]
  BY DEF Restored
<1>2. {file[i].id : i \in OfKind(kind)} = DOMAIN f
  BY OfKindPositions DEF Ids
<1>3. ASSUME NEW x \in DOMAIN f
      PROVE  file[At(x)].content = f[x]
  <2>1. \E i \in OfKind(kind) : file[i].id = x
    BY <1>2, <1>3
  <2>2. At(x) \in OfKind(kind) /\ file[At(x)].id = x
    BY <2>1
  <2> HIDE DEF At
  <2> QED BY <2>2, OfKindPositions
<1> HIDE DEF At
<1>4. Restored(kind) = [x \in DOMAIN f |-> file[At(x)].content]
  BY <1>1, <1>2
<1>5. f = [x \in DOMAIN f |-> f[x]]
  OBVIOUS
<1> QED BY <1>3, <1>4, <1>5

\* The operations read back have the identifiers of the file, and each the
\* content of a frame that carries its identifier.
LEMMA RestoredContent ==
    ASSUME NEW kind
    PROVE  /\ DOMAIN Restored(kind) = Ids(file, kind)
           /\ \A x \in Ids(file, kind) : \E i \in Positions(file, kind) :
                  file[i].id = x /\ Restored(kind)[x] = file[i].content
           /\ Restored(kind) = [x \in Ids(file, kind) |-> Restored(kind)[x]]
<1> DEFINE At(id) == CHOOSE i \in OfKind(kind) : file[i].id = id
<1>1. Restored(kind) = [id \in {file[i].id : i \in OfKind(kind)} |-> file[At(id)].content]
  BY DEF Restored
<1>2. {file[i].id : i \in OfKind(kind)} = Ids(file, kind)
  BY OfKindPositions DEF Ids
<1>3. ASSUME NEW x \in Ids(file, kind)
      PROVE  At(x) \in Positions(file, kind) /\ file[At(x)].id = x
  <2>1. \E i \in OfKind(kind) : file[i].id = x
    BY <1>2, <1>3
  <2>2. At(x) \in OfKind(kind) /\ file[At(x)].id = x
    BY <2>1
  <2> HIDE DEF At
  <2> QED BY <2>2, OfKindPositions
<1> HIDE DEF At
<1>4. Restored(kind) = [x \in Ids(file, kind) |-> file[At(x)].content]
  BY <1>1, <1>2
<1> QED BY <1>3, <1>4

\* A file that parses and carries, of each kind, as many identifiers as the
\* header says carries all of them: none is there twice, and none is there
\* that the store did not have.
LEMMA AcceptedCarriesAll ==
    ASSUME Typed, Genuine, Accepted
    PROVE  /\ Ids(file, "FAIL") = DOMAIN source.failures
           /\ Ids(file, "OP") = DOMAIN source.ops
           /\ Ids(file, "ID") = DOMAIN source.entries
<1>1. file[1] = SourceHeader
  <2>1. file # <<>> /\ 1 \in DOMAIN file
    BY DEF Accepted, Parses, Typed
  <2>2. file[1].kind # "TORN"
    BY <2>1 DEF Accepted, Parses, Decodes
  <2> QED BY <2>1, <2>2 DEF Genuine, TornFrame
<1>2. /\ Cardinality(Positions(file, "FAIL")) = Cardinality(DOMAIN source.failures)
      /\ Cardinality(Positions(file, "OP")) = Cardinality(DOMAIN source.ops)
      /\ Cardinality(Positions(file, "ID")) = Cardinality(DOMAIN source.entries)
  BY <1>1, OfKindPositions DEF Accepted, CountsMatch, SourceHeader
<1>3. /\ Cardinality(Positions(file, "FAIL")) = Cardinality(Ids(file, "FAIL"))
      /\ Cardinality(Positions(file, "OP")) = Cardinality(Ids(file, "OP"))
      /\ Cardinality(Positions(file, "ID")) = Cardinality(Ids(file, "ID"))
  <2>1. file \in Seq(Frame) /\ Unique(file, "FAIL") /\ Unique(file, "OP") /\ Unique(file, "ID")
    BY DEF Typed, Genuine
  <2> QED BY <2>1, CountIds
<1>4. /\ Ids(file, "FAIL") \in SUBSET DOMAIN source.failures
      /\ Ids(file, "OP") \in SUBSET DOMAIN source.ops
      /\ Ids(file, "ID") \in SUBSET DOMAIN source.entries
  BY DEF Genuine, Truthful, Ids, Positions
<1>5. /\ IsFiniteSet(DOMAIN source.failures)
      /\ IsFiniteSet(DOMAIN source.ops)
      /\ IsFiniteSet(DOMAIN source.entries)
  BY DEF Typed, Tables, Table
<1>6. Ids(file, "FAIL") = DOMAIN source.failures
  BY <1>2, <1>3, <1>4, <1>5, FS_Subset
<1>7. Ids(file, "OP") = DOMAIN source.ops
  BY <1>2, <1>3, <1>4, <1>5, FS_Subset
<1>8. Ids(file, "ID") = DOMAIN source.entries
  BY <1>2, <1>3, <1>4, <1>5, FS_Subset
<1> QED BY <1>6, <1>7, <1>8

\* And a file that parses and carries all of them is accepted.
LEMMA WholeIsAccepted ==
    ASSUME Typed, Genuine, Parses,
           Ids(file, "FAIL") = DOMAIN source.failures,
           Ids(file, "OP") = DOMAIN source.ops,
           Ids(file, "ID") = DOMAIN source.entries
    PROVE  Accepted
<1>1. file[1] = SourceHeader
  <2>1. file # <<>> /\ 1 \in DOMAIN file
    BY DEF Parses, Typed
  <2>2. file[1].kind # "TORN"
    BY <2>1 DEF Parses, Decodes
  <2> QED BY <2>1, <2>2 DEF Genuine, TornFrame
<1>2. file \in Seq(Frame) /\ Unique(file, "FAIL") /\ Unique(file, "OP") /\ Unique(file, "ID")
  BY DEF Typed, Genuine
<1>3. /\ Cardinality(Positions(file, "FAIL")) = Cardinality(Ids(file, "FAIL"))
      /\ Cardinality(Positions(file, "OP")) = Cardinality(Ids(file, "OP"))
      /\ Cardinality(Positions(file, "ID")) = Cardinality(Ids(file, "ID"))
  BY <1>2, CountIds
<1>4. CountsMatch
  BY <1>1, <1>3, OfKindPositions DEF CountsMatch, SourceHeader
<1> QED BY <1>2, <1>4, OfKindPositions DEF Accepted

\* The files a save leaves: accepted, they are all the store held.
LEMMA AcceptedMeansWhole ==
    ASSUME Typed, Genuine
    PROVE  AcceptedFileIsWhole /\ RecordedOutcomeSurvives
<1> SUFFICES ASSUME Accepted
             PROVE  /\ Restored("FAIL") = source.failures
                    /\ DOMAIN Restored("OP") = DOMAIN source.ops
                    /\ Restored("ID") = source.entries
                    /\ \A op \in DOMAIN source.ops :
                           source.ops[op].terminal_recorded
                               => Restored("OP")[op] = source.ops[op]
  BY DEF AcceptedFileIsWhole, RecordedOutcomeSurvives
<1>1. /\ Ids(file, "FAIL") = DOMAIN source.failures
      /\ Ids(file, "OP") = DOMAIN source.ops
      /\ Ids(file, "ID") = DOMAIN source.entries
  BY AcceptedCarriesAll
<1>2. /\ source.failures \in [DOMAIN source.failures -> AuthorityEnvelope]
      /\ source.entries \in [DOMAIN source.entries -> Entries]
  BY DEF Typed, Tables, Table
<1>3. /\ \A i \in Positions(file, "FAIL") : file[i].content = source.failures[file[i].id]
      /\ \A i \in Positions(file, "ID") : file[i].content = source.entries[file[i].id]
      /\ \A i \in Positions(file, "OP") :
             source.ops[file[i].id].terminal_recorded
                 => file[i].content = source.ops[file[i].id]
  BY DEF Genuine, Truthful, Positions
<1>4. Restored("FAIL") = source.failures
  <2> DEFINE f == source.failures
  <2>1. /\ f \in [DOMAIN f -> AuthorityEnvelope]
        /\ Ids(file, "FAIL") = DOMAIN f
        /\ \A i \in Positions(file, "FAIL") : file[i].content = f[file[i].id]
    BY <1>1, <1>2, <1>3
  <2> HIDE DEF f
  <2>2. Restored("FAIL") = f
    BY <2>1, RestoredTable
  <2> QED BY <2>2 DEF f
<1>5. Restored("ID") = source.entries
  <2> DEFINE f == source.entries
  <2>1. /\ f \in [DOMAIN f -> Entries]
        /\ Ids(file, "ID") = DOMAIN f
        /\ \A i \in Positions(file, "ID") : file[i].content = f[file[i].id]
    BY <1>1, <1>2, <1>3
  <2> HIDE DEF f
  <2>2. Restored("ID") = f
    BY <2>1, RestoredTable
  <2> QED BY <2>2 DEF f
<1>6. /\ DOMAIN Restored("OP") = DOMAIN source.ops
      /\ \A op \in DOMAIN source.ops : source.ops[op].terminal_recorded
             => Restored("OP")[op] = source.ops[op]
  <2>1. /\ DOMAIN Restored("OP") = Ids(file, "OP")
        /\ \A x \in Ids(file, "OP") : \E i \in Positions(file, "OP") :
               file[i].id = x /\ Restored("OP")[x] = file[i].content
    BY RestoredContent
  <2> QED BY <1>1, <1>3, <2>1
<1> QED BY <1>4, <1>5, <1>6

\* What is accepted restores tables.
LEMMA RestoredTyped ==
    ASSUME Typed, Genuine, Accepted
    PROVE  Tables(Restored("FAIL"), Restored("OP"), Restored("ID"))
<1>1. Restored("FAIL") = source.failures /\ Restored("ID") = source.entries
  BY AcceptedMeansWhole DEF AcceptedFileIsWhole
<1>2. /\ DOMAIN Restored("OP") = DOMAIN source.ops
      /\ Restored("OP") \in [DOMAIN source.ops -> Runtime]
  <2>1. Ids(file, "OP") = DOMAIN source.ops
    BY AcceptedCarriesAll
  <2>2. \A i \in Positions(file, "OP") : file[i].content \in Runtime
    BY DEF Genuine, Truthful, Positions
  <2>3. /\ DOMAIN Restored("OP") = Ids(file, "OP")
        /\ \A x \in Ids(file, "OP") : \E i \in Positions(file, "OP") :
               file[i].id = x /\ Restored("OP")[x] = file[i].content
        /\ Restored("OP") = [x \in Ids(file, "OP") |-> Restored("OP")[x]]
    BY RestoredContent
  <2>4. \A x \in Ids(file, "OP") : Restored("OP")[x] \in Runtime
    BY <2>2, <2>3
  <2> QED BY <2>1, <2>3, <2>4
<1>3. Tables(source.failures, source.ops, source.entries)
  BY DEF Typed
<1> QED BY <1>1, <1>2, <1>3 DEF Tables, Table

\* What load() adopts while it parses is the ownership of a frame, or the old one.
LEMMA AdoptedType ==
    ASSUME Typed
    PROVE  AdoptedWhileParsing \in Ownership(Boots \cup {NullId})
<1> DEFINE own(i) == file[i].kind = "OWN" /\ \A j \in 1..i : Decodes(file[j])
           at == CHOOSE i \in DOMAIN file : own(i)
<1>1. CASE \E i \in DOMAIN file : own(i)
  <2>1. at \in DOMAIN file /\ file[at].kind = "OWN"
    BY <1>1
  <2>2. AdoptedWhileParsing = adopt(ownership, file[at].ownership.owner,
                                    file[at].ownership.generation,
                                    file[at].ownership.boot)
    BY <1>1 DEF AdoptedWhileParsing
  <2> HIDE DEF at
  <2>3. file[at] \in Frame
    BY <2>1 DEF Typed
  <2>4. file[at].ownership \in Ownership(Boots \cup {NullId})
    BY <2>1, <2>3 DEF Frame, TornFrame
  <2> QED BY <2>2, <2>4 DEF adopt, Ownership, Typed
<1>2. CASE ~ \E i \in DOMAIN file : own(i)
  <2>1. AdoptedWhileParsing = ownership
    BY <1>2 DEF AdoptedWhileParsing
  <2> QED BY <2>1 DEF Typed
<1> QED BY <1>1, <1>2

-----------------------------------------------------------------------------
(* Every step preserves the invariant.                                     *)

NoOwnership(s) == \A i \in DOMAIN s : s[i].kind # "OWN"

\* Frames of the save under way are handed to the stream.
LEMMA AppendToFile ==
    ASSUME Typed, Genuine, file # <<>>, NEW t \in Seq(Frame),
           file' = file \o t, source' = source,
           \A i \in DOMAIN t : Truthful(t[i]),
           \A kind \in {"FAIL", "OP", "ID"} :
               Unique(t, kind) /\ Ids(file, kind) \cap Ids(t, kind) = {}
    PROVE  /\ file' \in Seq(Frame) /\ file' # <<>> /\ file'[1] = file[1]
           /\ Len(file') = Len(file) + Len(t)
           /\ Genuine'
           /\ \A kind : Ids(file', kind) = Ids(file, kind) \cup Ids(t, kind)
           /\ NoOwnership(file) /\ NoOwnership(t) => NoOwnership(file')
<1>0. file \in Seq(Frame)
  BY DEF Typed
<1>1. /\ file' \in Seq(Frame)
      /\ Len(file') = Len(file) + Len(t)
      /\ \A i \in DOMAIN file : i \in DOMAIN file' /\ file'[i] = file[i]
      /\ \A j \in DOMAIN t : Len(file) + j \in DOMAIN file' /\ file'[Len(file) + j] = t[j]
      /\ \A i \in DOMAIN file' : i \in DOMAIN file \/ \E j \in DOMAIN t : i = Len(file) + j
  BY <1>0, ConcatElement
<1>2. file' # <<>> /\ file'[1] = file[1]
  <2>1. 1 \in DOMAIN file /\ 1 \in DOMAIN file'
    BY <1>0, <1>1
  <2> QED BY <1>1, <2>1
<1>3. \A kind : Ids(file', kind) = Ids(file, kind) \cup Ids(t, kind)
  BY <1>0, ConcatIds
<1>4. Unique(file', "FAIL") /\ Unique(file', "OP") /\ Unique(file', "ID")
  <2>1. Unique(file, "FAIL") /\ Unique(file, "OP") /\ Unique(file, "ID")
    BY DEF Genuine
  <2> QED BY <1>0, <2>1, ConcatUnique
<1>5. \A i \in DOMAIN file' : Truthful(file'[i])
  <2>1. \A i \in DOMAIN file : Truthful(file[i])
    BY DEF Genuine
  <2> QED BY <1>1, <2>1
<1>6. Genuine'
  <2>1. \A i \in DOMAIN file' : Truthful(file[i])'
    BY <1>5 DEF Truthful
  <2>2. file'[1] \in {SourceHeader', TornFrame}
    BY <1>2 DEF Genuine, SourceHeader
  <2> QED BY <1>4, <2>1, <2>2 DEF Genuine, TornFrame
<1>7. NoOwnership(file) /\ NoOwnership(t) => NoOwnership(file')
  BY <1>1 DEF NoOwnership
<1> QED BY <1>1, <1>2, <1>3, <1>6, <1>7

\* The file keeps only frames it had, at their places, and torn ones.
LEMMA PartStays ==
    ASSUME Typed, Genuine, source' = source, file' \in Seq(Frame),
           \A i \in DOMAIN file' : \/ i \in DOMAIN file /\ file'[i] = file[i]
                                   \/ file'[i] = TornFrame
    PROVE  /\ Genuine'
           /\ NoOwnership(file) => NoOwnership(file')
<1>0. /\ file' \in Seq(Frame) /\ file \in Seq(Frame)
      /\ \A i \in DOMAIN file' : \/ i \in DOMAIN file /\ file'[i] = file[i]
                                 \/ file'[i] = TornFrame
  BY DEF Typed
<1>2. Unique(file', "FAIL") /\ Unique(file', "OP") /\ Unique(file', "ID")
  <2>1. Unique(file, "FAIL") /\ Unique(file, "OP") /\ Unique(file, "ID")
    BY DEF Genuine
  <2> QED BY <1>0, <2>1, PartOfFile
<1>3. \A i \in DOMAIN file' : Truthful(file[i])'
  <2>1. \A i \in DOMAIN file : Truthful(file[i])
    BY DEF Genuine
  <2>2. Truthful(TornFrame)
    BY DEF Truthful, TornFrame
  <2>3. \A i \in DOMAIN file' : Truthful(file'[i])
    BY <1>0, <2>1, <2>2
  <2> QED BY <2>3 DEF Truthful
<1>4. file' # <<>> => file'[1] \in {SourceHeader', TornFrame}
  <2> SUFFICES ASSUME file' # <<>> PROVE file'[1] \in {SourceHeader', TornFrame}
    OBVIOUS
  <2>1. 1 \in DOMAIN file'
    BY <1>0
  <2>2. CASE 1 \in DOMAIN file /\ file'[1] = file[1]
    <3>1. file # <<>>
      BY <2>2
    <3> QED BY <2>2, <3>1 DEF Genuine, SourceHeader
  <2>3. CASE file'[1] = TornFrame
    BY <2>3
  <2> QED BY <1>0, <2>1, <2>2, <2>3
<1>5. Genuine'
  BY <1>2, <1>3, <1>4 DEF Genuine, TornFrame
<1>6. NoOwnership(file) => NoOwnership(file')
  BY <1>0 DEF NoOwnership, TornFrame
<1> QED BY <1>5, <1>6

\* The file is cut off.
LEMMA CutOff ==
    ASSUME Typed, Genuine, NEW n \in 0..Len(file), NEW torn \in BOOLEAN,
           file' = Cut(n, torn), source' = source
    PROVE  /\ file' \in Seq(Frame)
           /\ Genuine'
           /\ NoOwnership(file) => NoOwnership(file')
           /\ ~torn /\ n = Len(file) => file' = file
<1>1. /\ file' \in Seq(Frame)
      /\ \A i \in DOMAIN file' : \/ i \in DOMAIN file /\ file'[i] = file[i]
                                 \/ file'[i] = TornFrame
      /\ ~torn /\ n = Len(file) => file' = file
  BY CutFile DEF Typed
<1> QED BY <1>1, PartStays

\* The initial state.
LEMMA InitIInv == Init => IInv
<1> SUFFICES ASSUME Init PROVE IInv
  OBVIOUS
<1>1. Tables(Empty, Empty, Empty) /\ DOMAIN Empty = {}
  BY EmptyTable DEF Tables
<1>2. ownership \in Ownership(Boots \cup {NullId})
  BY DEF Init, Ownership, Unassigned, RecoveryOwners
<1>3. file = <<>> /\ DOMAIN file = {} /\ file \in Seq(Frame)
  BY DEF Init
<1>4. Typed
  BY <1>1, <1>2, <1>3 DEF Init, Typed
<1>5. Genuine /\ Closed
  BY <1>3 DEF Genuine, Closed, Unique, Positions
<1>6. Reading /\ ~Saving
  BY DEF Init, Reading, Saving
<1> QED BY <1>4, <1>5, <1>6 DEF IInv

\* A step that leaves the file alone while no save is under way: it may change
\* the store in any way that keeps it well formed.
LEMMA StoreStep ==
    ASSUME IInv, ~Saving, pc' \in {"idle", "starting"},
           UNCHANGED <<file, todo, reading, seen, source, saved>>,
           Tables(failures', ops', entries'),
           ownership' \in Ownership(Boots \cup {NullId})
    PROVE  IInv'
<1>1. pc \in {"idle", "starting"} /\ todo = {} /\ reading = NoOp
  BY DEF IInv, Typed, Reading, Saving
<1>2. Typed'
  BY DEF IInv, Typed
<1>3. Genuine'
  BY DEF IInv, Genuine, Truthful, SourceHeader
<1>4. Closed'
  BY DEF IInv, Closed
<1>5. Reading'
  BY <1>1 DEF IInv, Reading
<1>6. ~Saving'
  BY DEF Saving
<1> QED BY <1>2, <1>3, <1>4, <1>5, <1>6 DEF IInv

\* A call to the registry, also while a save reads the runtime it changes: an
\* operation with a recorded outcome does not change.
LEMMA RegistryStep ==
    ASSUME IInv, NEW op, NEW r, NEW e, op \in DOMAIN ops,
           Effect(ops[op], e, r), Update(op, r)
    PROVE  IInv'
<1> USE DEF Update
<1>1. r \in Runtime /\ ~ops[op].terminal_recorded
  BY DEF Effect, Binds, Moves
<1>2. /\ Table(ops', Ops, Runtime)
      /\ DOMAIN ops' = DOMAIN ops
      /\ \A x \in DOMAIN ops : ops'[x] = IF x = op THEN r ELSE ops[x]
  <2>1. Table(ops, Ops, Runtime)
    BY DEF IInv, Typed, Tables
  <2> QED BY <1>1, <2>1, ExceptTable
<1>3. Typed'
  BY <1>2 DEF IInv, Typed, Tables
<1>4. Genuine'
  BY DEF IInv, Genuine, Truthful, SourceHeader
<1>5. Closed'
  BY DEF IInv, Closed
<1>6. ASSUME Saving
      PROVE  Written' /\ Held'
  <2>1. Written /\ Held
    BY <1>6 DEF IInv
  <2>2. Written'
    BY <1>2, <2>1 DEF Written, SourceHeader
  <2>3. Held'
    <3>1. source.ops[op].terminal_recorded => FALSE
      BY <1>1, <2>1 DEF Held
    <3> QED BY <1>2, <2>1, <3>1 DEF Held
  <2> QED BY <2>2, <2>3
<1>7. Reading'
  <2>1. Reading
    BY DEF IInv
  <2>2. seen' \subseteq Runtime
    BY <1>1, <2>1 DEF Reading
  <2>3. ASSUME reading # NoOp, source.ops[reading].terminal_recorded
        PROVE  seen' \subseteq {source.ops[reading]}
    <3>1. Saving /\ reading \in DOMAIN ops
      BY <2>1, <2>3 DEF Reading, Saving
    <3>2. ops[reading] = source.ops[reading]
      BY <2>3, <3>1 DEF IInv, Held
    <3>3. reading # op
      BY <1>1, <2>3, <3>2
    <3> QED BY <2>1, <2>3, <3>3 DEF Reading
  <2> QED BY <1>2, <2>1, <2>2, <2>3 DEF Reading
<1>8. Saving' <=> Saving
  BY DEF Saving
<1> QED BY <1>3, <1>4, <1>5, <1>6, <1>7, <1>8 DEF IInv

\* The calls of the coordinator's handlers on one operation.
LEMMA CallStep ==
    ASSUME IInv, NEW op \in Ops, NEW e \in Envelopes, Call(op, e)
    PROVE  IInv'
<1>0. e \in AuthorityEnvelope
  BY StoreConstants
<1>1. CASE Create(op, e)
  <2>1. /\ ~Saving /\ pc' \in {"idle", "starting"}
        /\ UNCHANGED <<file, todo, reading, seen, source, saved>>
        /\ UNCHANGED <<failures, entries, ownership>>
        /\ ops' = Put(ops, op, NewRuntime(e))
    BY <1>1 DEF Create, MutexFree, Saving, saver
  <2>2. NewRuntime(e) \in Runtime
    BY <1>0, NewRuntimeType
  <2>3. Table(ops, Ops, Runtime)
    BY DEF IInv, Typed, Tables
  <2>4. Table(ops', Ops, Runtime)
    BY <2>1, <2>2, <2>3, PutTable
  <2>5. Tables(failures', ops', entries') /\ ownership' \in Ownership(Boots \cup {NullId})
    BY <2>1, <2>4 DEF IInv, Typed, Tables
  <2> QED BY <2>1, <2>5, StoreStep
<1>2. ASSUME op \in DOMAIN ops
      PROVE  ops[op] \in Runtime
  BY <1>2 DEF IInv, Typed, Tables, Table
<1>3. CASE Dispatch(op, e)
  <2>1. op \in DOMAIN ops /\ Update(op, dispatch(ops[op], e))
    BY <1>3 DEF Dispatch
  <2>2. Effect(ops[op], e, dispatch(ops[op], e))
    BY <1>0, <1>2, <2>1, EffectOfDispatch
  <2> QED BY <2>1, <2>2, RegistryStep
<1>4. CASE Run(op, e)
  <2>1. op \in DOMAIN ops /\ Update(op, run(ops[op], e))
    BY <1>4 DEF Run
  <2>2. Effect(ops[op], e, run(ops[op], e))
    BY <1>0, <1>2, <2>1, EffectOfMove, NoEffect DEF run, accepts_run
  <2> QED BY <2>1, <2>2, RegistryStep
<1>5. CASE ReportCompletion(op, e)
  <2>1. op \in DOMAIN ops /\ Update(op, report_completion(ops[op], e, FALSE))
    BY <1>5 DEF ReportCompletion
  <2>2. Effect(ops[op], e, report_completion(ops[op], e, FALSE))
    BY <1>0, <1>2, <2>1, EffectOfReportCompletion
  <2> QED BY <2>1, <2>2, RegistryStep
<1>6. CASE ConfirmCompletion(op, e)
  <2>1. op \in DOMAIN ops /\ Update(op, confirm_completion(ops[op], e))
    BY <1>6 DEF ConfirmCompletion
  <2>2. Effect(ops[op], e, confirm_completion(ops[op], e))
    BY <1>0, <1>2, <2>1, EffectOfConfirmCompletion
  <2> QED BY <2>1, <2>2, RegistryStep
<1>7. ASSUME NEW ambiguous \in BOOLEAN, ReportFailure(op, e, ambiguous)
      PROVE  IInv'
  <2>1. op \in DOMAIN ops /\ Update(op, report_failure(ops[op], e, ambiguous))
    BY <1>7 DEF ReportFailure
  <2>2. Effect(ops[op], e, report_failure(ops[op], e, ambiguous))
    BY <1>0, <1>2, <2>1, EffectOfMove, NoEffect DEF report_failure, accepts_report_failure
  <2> QED BY <2>1, <2>2, RegistryStep
<1> QED BY <1>1, <1>3, <1>4, <1>5, <1>6, <1>7 DEF Call

\* The other calls on the store.
LEMMA OtherCallStep ==
    ASSUME IInv,
           \/ \E id \in FailureIds, e \in Envelopes : append_failure(id, e)
           \/ \E k \in Keys, e \in Entries : PutEntry(k, e)
           \/ \E b \in Boots : Transfer(b)
           \/ clear
    PROVE  IInv'
<1>0. /\ Table(failures, FailureIds, AuthorityEnvelope)
      /\ Table(ops, Ops, Runtime)
      /\ Table(entries, Keys, Entries)
      /\ ownership \in Ownership(Boots \cup {NullId})
  BY DEF IInv, Typed, Tables
<1>1. ASSUME NEW id \in FailureIds, NEW e \in Envelopes, append_failure(id, e)
      PROVE  IInv'
  <2>1. /\ ~Saving /\ pc' \in {"idle", "starting"}
        /\ UNCHANGED <<file, todo, reading, seen, source, saved>>
        /\ UNCHANGED <<ops, entries, ownership>>
        /\ failures' = Put(failures, id, e)
    BY <1>1 DEF append_failure, MutexFree, Saving, saver
  <2>2. Table(failures', FailureIds, AuthorityEnvelope)
    BY <1>0, <2>1, PutTable, StoreConstants
  <2>3. Tables(failures', ops', entries') /\ ownership' \in Ownership(Boots \cup {NullId})
    BY <1>0, <2>1, <2>2 DEF Tables
  <2> QED BY <2>1, <2>3, StoreStep
<1>2. ASSUME NEW k \in Keys, NEW e \in Entries, PutEntry(k, e)
      PROVE  IInv'
  <2>1. /\ ~Saving /\ pc' \in {"idle", "starting"}
        /\ UNCHANGED <<file, todo, reading, seen, source, saved>>
        /\ UNCHANGED <<failures, ops, ownership>>
        /\ entries' = Put(entries, k, e)
    BY <1>2 DEF PutEntry, MutexFree, Saving, saver
  <2>2. Table(entries', Keys, Entries)
    BY <1>0, <2>1, PutTable
  <2>3. Tables(failures', ops', entries') /\ ownership' \in Ownership(Boots \cup {NullId})
    BY <1>0, <2>1, <2>2 DEF Tables
  <2> QED BY <2>1, <2>3, StoreStep
<1>3. ASSUME NEW b \in Boots, Transfer(b)
      PROVE  IInv'
  <2>1. /\ ~Saving /\ pc' \in {"idle", "starting"}
        /\ UNCHANGED <<file, todo, reading, seen, source, saved>>
        /\ UNCHANGED <<failures, ops, entries>>
        /\ ownership' = transfer(ownership, "REPLACEMENT_WORKER",
                                 ownership.generation + 1, b)
    BY <1>3 DEF Transfer, MutexFree, Saving, saver
  <2>2. ownership' \in Ownership(Boots \cup {NullId})
    BY <1>0, <2>1 DEF transfer, Ownership, RecoveryOwners
  <2>3. Tables(failures', ops', entries')
    BY <1>0, <2>1 DEF Tables
  <2> QED BY <2>1, <2>2, <2>3, StoreStep
<1>4. CASE clear
  <2>1. /\ ~Saving /\ pc' \in {"idle", "starting"}
        /\ UNCHANGED <<file, todo, reading, seen, source, saved>>
        /\ failures' = Empty /\ ops' = Empty /\ entries' = Empty
        /\ ownership' = Unassigned(NullId)
    BY <1>4 DEF clear, MutexFree, Saving, saver
  <2>2. ownership' \in Ownership(Boots \cup {NullId})
    BY <2>1 DEF Unassigned, Ownership, RecoveryOwners
  <2>3. Tables(failures', ops', entries')
    BY <2>1, EmptyTable DEF Tables
  <2> QED BY <2>1, <2>2, <2>3, StoreStep
<1> QED BY <1>1, <1>2, <1>3, <1>4

\* load() restores well-formed tables or leaves the store alone.
LEMMA LoadStep ==
    ASSUME IInv, load
    PROVE  IInv'
<1>1. /\ ~Saving /\ pc' \in {"idle", "starting"}
      /\ UNCHANGED <<file, todo, reading, seen, source, saved>>
  BY DEF load, Saving
<1>2. Typed /\ Genuine /\ Closed
  BY DEF IInv
<1>3. CASE Accepted
  <2>1. /\ failures' = Restored("FAIL") /\ ops' = Restored("OP")
        /\ entries' = Restored("ID") /\ ownership' = Unassigned(NullId)
    BY <1>3 DEF load
  <2>2. ownership' \in Ownership(Boots \cup {NullId})
    BY <2>1 DEF Unassigned, Ownership, RecoveryOwners
  <2>3. Tables(failures', ops', entries')
    BY <1>2, <1>3, <2>1, RestoredTyped
  <2> QED BY <1>1, <2>2, <2>3, StoreStep
<1>4. CASE ~Accepted
  <2>1. ownership' = AdoptedWhileParsing /\ UNCHANGED <<failures, ops, entries>>
    BY <1>4 DEF load
  <2>2. ownership' \in Ownership(Boots \cup {NullId})
    BY <1>2, <2>1, AdoptedType
  <2>3. /\ Tables(failures', ops', entries')
        /\ ownership' \in Ownership(Boots \cup {NullId})
    BY <1>2, <2>1, <2>2 DEF Typed
  <2> QED BY <1>1, <2>3, StoreStep
<1> QED BY <1>3, <1>4

\* A save begins: the file is the header of what the store holds now.
LEMMA WriteHeaderStep ==
    ASSUME IInv, WriteHeader
    PROVE  IInv'
<1> DEFINE D == [failures |-> failures, ops |-> ops, entries |-> entries]
<1>1. /\ UNCHANGED <<failures, ops, entries, ownership, todo, reading, seen>>
      /\ pc = "idle" /\ pc' = "failures" /\ saved' = TRUE
      /\ file' = <<Header>> /\ source' = D
  BY DEF WriteHeader, store
<1>2. source'.failures = failures /\ source'.ops = ops /\ source'.entries = entries
  BY <1>1
<1>3. /\ Tables(failures, ops, entries) /\ ownership \in Ownership(Boots \cup {NullId})
      /\ todo = {} /\ reading = NoOp /\ seen \subseteq Runtime
  BY <1>1 DEF IInv, Typed, Reading
<1> HIDE DEF D
<1>4. Header \in Frame /\ Header.kind = "HEADER" /\ Header = SourceHeader'
  <2>1. /\ Cardinality(DOMAIN failures) \in Nat
        /\ Cardinality(DOMAIN ops) \in Nat
        /\ Cardinality(DOMAIN entries) \in Nat
    BY <1>3, FS_CardinalityType DEF Tables, Table
  <2>2. Header \in Frame /\ Header.kind = "HEADER"
    BY <2>1 DEF Header, Frame
  <2>3. Header = SourceHeader'
    BY <1>2 DEF Header, SourceHeader
  <2> QED BY <2>2, <2>3
<1>5. /\ file' \in Seq(Frame) /\ file' # <<>> /\ DOMAIN file' = {1}
      /\ file'[1] = SourceHeader' /\ file'[1].kind = "HEADER"
  <2> DEFINE h == Header
  <2>1. h \in Frame /\ file' = <<h>>
    BY <1>1, <1>4
  <2> HIDE DEF h
  <2>2. file' \in Seq(Frame) /\ file' # <<>> /\ DOMAIN file' = {1} /\ file'[1] = h
    BY <2>1
  <2> QED BY <1>4, <2>2 DEF h
<1>6. Typed'
  BY <1>1, <1>2, <1>3, <1>5 DEF Typed
<1>7. /\ Ids(file', "FAIL") = {} /\ Ids(file', "OP") = {} /\ Ids(file', "ID") = {}
      /\ Unique(file', "FAIL") /\ Unique(file', "OP") /\ Unique(file', "ID")
  BY <1>5, OtherKinds
<1>8. Genuine'
  <2>1. \A i \in DOMAIN file' : Truthful(file[i])'
    BY <1>5 DEF Truthful
  <2> QED BY <1>5, <1>7, <2>1 DEF Genuine
<1>9. Closed'
  BY <1>5 DEF Closed
<1>10. Reading'
  BY <1>1, <1>3 DEF Reading
<1>11. Written'
  BY <1>1, <1>5, <1>7 DEF Written
<1>12. Held'
  BY <1>1, <1>2 DEF Held
<1> QED BY <1>6, <1>8, <1>9, <1>10, <1>11, <1>12 DEF IInv

\* The failures are written, one frame each.
LEMMA WriteFailuresStep ==
    ASSUME IInv, WriteFailures
    PROVE  IInv'
<1>1. /\ UNCHANGED <<failures, ops, entries, ownership, todo, reading, seen, source, saved>>
      /\ pc = "failures" /\ pc' = "list"
  BY DEF WriteFailures, store
<1>2. Typed /\ Genuine /\ Closed /\ Reading /\ Written /\ Held
  BY <1>1 DEF IInv, Saving
<1>3. PICK keys \in Orders(DOMAIN failures) :
          file' = file \o Frames("FAIL", failures, keys)
  BY DEF WriteFailures
<1> DEFINE t == Frames("FAIL", failures, keys)
<1>4. /\ t \in Seq(Frame)
      /\ \A i \in DOMAIN t : \E x \in DOMAIN failures :
             t[i] = [kind |-> "FAIL", id |-> x, content |-> failures[x]]
      /\ Ids(t, "FAIL") = DOMAIN failures
      /\ Unique(t, "FAIL")
  <2>1. IsFiniteSet(DOMAIN failures)
    BY <1>2 DEF Typed, Tables, Table
  <2>2. \A x \in DOMAIN failures :
            [kind |-> "FAIL", id |-> x, content |-> failures[x]] \in Frame
    BY <1>2 DEF Typed, Tables, Table, Frame
  <2> QED BY <2>1, <2>2, FramesOfMap
<1>5. file' = file \o t
  BY <1>3
<1> HIDE DEF t
<1>6. \A i \in DOMAIN t : t[i].kind = "FAIL" /\ Truthful(t[i])
  BY <1>2, <1>4 DEF Truthful, Held
<1>7. /\ Ids(t, "OP") = {} /\ Unique(t, "OP")
      /\ Ids(t, "ID") = {} /\ Unique(t, "ID")
  BY <1>6, OtherKinds
<1>8. Ids(file, "FAIL") = {} /\ Ids(file, "OP") = {} /\ Ids(file, "ID") = {}
  BY <1>1, <1>2 DEF Written
<1>9. /\ file' \in Seq(Frame) /\ file' # <<>> /\ file'[1] = file[1]
      /\ Genuine'
      /\ \A kind : Ids(file', kind) = Ids(file, kind) \cup Ids(t, kind)
      /\ NoOwnership(file) /\ NoOwnership(t) => NoOwnership(file')
  <2>1. \A kind \in {"FAIL", "OP", "ID"} :
            Unique(t, kind) /\ Ids(file, kind) \cap Ids(t, kind) = {}
    BY <1>4, <1>7, <1>8
  <2>2. source' = source /\ file # <<>>
    BY <1>1, <1>2 DEF Written
  <2> QED BY <1>2, <1>4, <1>5, <1>6, <2>1, <2>2, AppendToFile
<1>10. Closed'
  <2>1. NoOwnership(file) /\ NoOwnership(t)
    BY <1>1, <1>2, <1>6 DEF Closed, NoOwnership
  <2> QED BY <1>9, <2>1 DEF Closed, NoOwnership
<1>11. Typed'
  BY <1>1, <1>2, <1>9 DEF Typed
<1>12. Reading'
  BY <1>1, <1>2 DEF Reading
<1>13. Held'
  BY <1>1, <1>2 DEF Held
<1>14. Written'
  <2>1. /\ Ids(file', "FAIL") = DOMAIN failures
        /\ Ids(file', "OP") = {} /\ Ids(file', "ID") = {}
    BY <1>4, <1>7, <1>8, <1>9
  <2> QED BY <1>1, <1>2, <1>9, <2>1 DEF Written, SourceHeader
<1> QED BY <1>9, <1>10, <1>11, <1>12, <1>13, <1>14 DEF IInv

\* The operations are listed, and one of them is looked up.
LEMMA ListAndFindStep ==
    ASSUME IInv, ListOperations \/ \E op \in Ops : FindOperation(op)
    PROVE  IInv'
<1>1. /\ UNCHANGED <<failures, ops, entries, ownership, file, source, saved>>
      /\ pc \in {"list", "ops"} /\ pc' = "ops"
  BY DEF ListOperations, FindOperation, store
<1>2. Typed /\ Genuine /\ Closed /\ Reading /\ Written /\ Held
  BY <1>1 DEF IInv, Saving
<1>3. Typed' /\ Genuine' /\ Closed' /\ Held'
  <2>1. Typed' /\ Held'
    BY <1>1, <1>2 DEF Typed, Held
  <2>2. Genuine'
    BY <1>1, <1>2 DEF Genuine, Truthful, SourceHeader
  <2>3. Closed'
    BY <1>1, <1>2 DEF Closed
  <2> QED BY <2>1, <2>2, <2>3
<1>4. CASE ListOperations
  <2>1. /\ pc = "list" /\ todo' = DOMAIN ops
        /\ reading' = reading /\ seen' = seen /\ reading = NoOp
    BY <1>2, <1>4 DEF ListOperations, Reading
  <2>2. Reading'
    BY <1>1, <1>2, <2>1 DEF Reading
  <2>3. Written'
    BY <1>1, <1>2, <2>1 DEF Written, SourceHeader
  <2> QED BY <1>2, <1>3, <2>2, <2>3 DEF IInv
<1>5. ASSUME NEW op \in Ops, FindOperation(op)
      PROVE  IInv'
  <2>1. /\ pc = "ops" /\ op \in todo /\ op \in DOMAIN ops
        /\ todo' = todo /\ reading' = op /\ seen' = {ops[op]}
    BY <1>2, <1>5 DEF FindOperation, Reading
  <2>2. Written'
    BY <1>1, <1>2, <2>1 DEF Written, SourceHeader
  <2>3. ops[op] \in Runtime
    BY <1>2, <2>1 DEF Typed, Tables, Table
  <2>4. source.ops[op].terminal_recorded => ops[op] = source.ops[op]
    BY <1>2, <2>1 DEF Held
  <2>5. Reading'
    BY <1>1, <1>2, <2>1, <2>3, <2>4 DEF Reading
  <2> QED BY <1>3, <2>2, <2>5 DEF IInv
<1> QED BY <1>4, <1>5

\* A runtime is written as it was seen, field by field.
LEMMA WriteOperationStep ==
    ASSUME IInv, NEW r \in TornRuntimes(seen), WriteOperation(r)
    PROVE  IInv'
<1>1. /\ UNCHANGED <<failures, ops, entries, ownership, source>>
      /\ pc = "ops" /\ pc' = "ops" /\ reading # NoOp
      /\ file' = Append(file, OpFrame(reading, r))
      /\ saved' = (saved /\ r \in seen)
      /\ todo' = todo \ {reading} /\ reading' = NoOp /\ seen' = {}
  BY DEF WriteOperation, store
<1>2. Typed /\ Genuine /\ Closed /\ Reading /\ Written /\ Held
  BY <1>1 DEF IInv, Saving
<1>3. reading \in todo /\ reading \in DOMAIN ops /\ reading \in DOMAIN source.ops
      /\ reading \in Ops
  BY <1>1, <1>2 DEF Reading, Held, Typed, Tables, Table
<1>4. r \in Runtime /\ (source.ops[reading].terminal_recorded => r = source.ops[reading])
  <2>1. seen \in SUBSET Runtime
    BY <1>2 DEF Reading
  <2>2. r \in Runtime /\ \A q \in seen : seen = {q} => r = q
    BY <2>1, TornRuntime
  <2>3. ASSUME source.ops[reading].terminal_recorded
        PROVE  r = source.ops[reading]
    <3>1. seen \subseteq {source.ops[reading]}
      BY <1>1, <1>2, <2>3 DEF Reading
    <3>2. seen # {}
      BY DEF TornRuntimes
    <3> QED BY <2>2, <3>1, <3>2
  <2> QED BY <2>2, <2>3
<1> DEFINE fr == OpFrame(reading, r)
           t == <<fr>>
<1>5. fr \in Frame /\ fr.kind = "OP" /\ fr.id = reading /\ Truthful(fr)
  <2>1. fr \in Frame /\ fr.kind = "OP" /\ fr.id = reading /\ fr.content = r
    BY <1>3, <1>4 DEF OpFrame, Frame
  <2> HIDE DEF fr
  <2> QED BY <1>3, <1>4, <2>1 DEF Truthful
<1> HIDE DEF fr
<1>6. t \in Seq(Frame) /\ DOMAIN t = {1} /\ t[1] = fr
  BY <1>5
<1>7. file' = file \o t
  <2>1. file \in Seq(Frame) /\ file' = Append(file, fr)
    BY <1>1, <1>2 DEF Typed, fr
  <2> QED BY <1>5, <2>1
<1> HIDE DEF t
<1>8. \A i \in DOMAIN t : t[i].kind = "OP" /\ Truthful(t[i])
  BY <1>5, <1>6
<1>9. /\ Ids(t, "FAIL") = {} /\ Unique(t, "FAIL")
      /\ Ids(t, "ID") = {} /\ Unique(t, "ID")
  BY <1>8, OtherKinds
<1>10. Ids(t, "OP") = {reading} /\ Unique(t, "OP")
  <2>1. Positions(t, "OP") = {1} /\ t[1].id = reading
    BY <1>5, <1>6 DEF Positions
  <2> QED BY <2>1 DEF Ids, Unique
<1>11. /\ Ids(file, "FAIL") = DOMAIN failures /\ Ids(file, "OP") = DOMAIN ops \ todo
       /\ Ids(file, "ID") = {}
  BY <1>1, <1>2 DEF Written
<1>12. /\ file' \in Seq(Frame) /\ file' # <<>> /\ file'[1] = file[1]
       /\ Genuine'
       /\ \A kind : Ids(file', kind) = Ids(file, kind) \cup Ids(t, kind)
       /\ NoOwnership(file) /\ NoOwnership(t) => NoOwnership(file')
  <2>1. \A kind \in {"FAIL", "OP", "ID"} :
            Unique(t, kind) /\ Ids(file, kind) \cap Ids(t, kind) = {}
    BY <1>3, <1>9, <1>10, <1>11
  <2>2. source' = source /\ file # <<>>
    BY <1>1, <1>2 DEF Written
  <2> QED BY <1>2, <1>6, <1>7, <1>8, <2>1, <2>2, AppendToFile
<1>13. Closed'
  <2>1. NoOwnership(file) /\ NoOwnership(t)
    BY <1>1, <1>2, <1>8 DEF Closed, NoOwnership
  <2> QED BY <1>12, <2>1 DEF Closed, NoOwnership
<1>14. Typed'
  <2>1. saved' \in BOOLEAN
    BY <1>1
  <2> QED BY <1>1, <1>2, <1>12, <2>1 DEF Typed
<1>15. Reading'
  BY <1>1, <1>2 DEF Reading
<1>16. Held'
  BY <1>1, <1>2 DEF Held
<1>17. Written'
  <2>1. /\ Ids(file', "FAIL") = DOMAIN failures
        /\ Ids(file', "OP") = DOMAIN ops \ (todo \ {reading})
        /\ Ids(file', "ID") = {}
    BY <1>3, <1>9, <1>10, <1>11, <1>12
  <2> QED BY <1>1, <1>2, <1>12, <2>1 DEF Written, SourceHeader
<1> QED BY <1>12, <1>13, <1>14, <1>15, <1>16, <1>17 DEF IInv

\* The idempotency entries are written, one frame each.
LEMMA WriteEntriesStep ==
    ASSUME IInv, WriteEntries
    PROVE  IInv'
<1>1. /\ UNCHANGED <<failures, ops, entries, ownership, todo, reading, seen, source, saved>>
      /\ pc = "ops" /\ pc' = "owner" /\ reading = NoOp /\ todo = {}
  BY DEF WriteEntries, store
<1>2. Typed /\ Genuine /\ Closed /\ Reading /\ Written /\ Held
  BY <1>1 DEF IInv, Saving
<1>3. PICK keys \in Orders(DOMAIN entries) :
          file' = file \o Frames("ID", entries, keys)
  BY DEF WriteEntries
<1> DEFINE t == Frames("ID", entries, keys)
<1>4. /\ t \in Seq(Frame)
      /\ \A i \in DOMAIN t : \E x \in DOMAIN entries :
             t[i] = [kind |-> "ID", id |-> x, content |-> entries[x]]
      /\ Ids(t, "ID") = DOMAIN entries
      /\ Unique(t, "ID")
  <2>1. IsFiniteSet(DOMAIN entries)
    BY <1>2 DEF Typed, Tables, Table
  <2>2. \A x \in DOMAIN entries :
            [kind |-> "ID", id |-> x, content |-> entries[x]] \in Frame
    BY <1>2 DEF Typed, Tables, Table, Frame
  <2> QED BY <2>1, <2>2, FramesOfMap
<1>5. file' = file \o t
  BY <1>3
<1> HIDE DEF t
<1>6. \A i \in DOMAIN t : t[i].kind = "ID" /\ Truthful(t[i])
  BY <1>2, <1>4 DEF Truthful, Held
<1>7. /\ Ids(t, "FAIL") = {} /\ Unique(t, "FAIL")
      /\ Ids(t, "OP") = {} /\ Unique(t, "OP")
  BY <1>6, OtherKinds
<1>8. /\ Ids(file, "FAIL") = DOMAIN failures /\ Ids(file, "OP") = DOMAIN ops
      /\ Ids(file, "ID") = {}
  BY <1>1, <1>2 DEF Written
<1>9. /\ file' \in Seq(Frame) /\ file' # <<>> /\ file'[1] = file[1]
      /\ Genuine'
      /\ \A kind : Ids(file', kind) = Ids(file, kind) \cup Ids(t, kind)
      /\ NoOwnership(file) /\ NoOwnership(t) => NoOwnership(file')
  <2>1. \A kind \in {"FAIL", "OP", "ID"} :
            Unique(t, kind) /\ Ids(file, kind) \cap Ids(t, kind) = {}
    BY <1>4, <1>7, <1>8
  <2>2. source' = source /\ file # <<>>
    BY <1>1, <1>2 DEF Written
  <2> QED BY <1>2, <1>4, <1>5, <1>6, <2>1, <2>2, AppendToFile
<1>10. Closed'
  <2>1. NoOwnership(file) /\ NoOwnership(t)
    BY <1>1, <1>2, <1>6 DEF Closed, NoOwnership
  <2> QED BY <1>9, <2>1 DEF Closed, NoOwnership
<1>11. Typed'
  BY <1>1, <1>2, <1>9 DEF Typed
<1>12. Reading'
  BY <1>1, <1>2 DEF Reading
<1>13. Held'
  BY <1>1, <1>2 DEF Held
<1>14. Written'
  <2>1. /\ Ids(file', "FAIL") = DOMAIN failures
        /\ Ids(file', "OP") = DOMAIN ops \ todo
        /\ Ids(file', "ID") = DOMAIN entries
    BY <1>1, <1>4, <1>7, <1>8, <1>9
  <2> QED BY <1>1, <1>2, <1>9, <2>1 DEF Written, SourceHeader
<1> QED BY <1>9, <1>10, <1>11, <1>12, <1>13, <1>14 DEF IInv

\* The ownership is written, after everything else.
LEMMA WriteOwnershipStep ==
    ASSUME IInv, WriteOwnership
    PROVE  IInv'
<1>1. /\ UNCHANGED <<failures, ops, entries, ownership, todo, reading, seen, source, saved>>
      /\ pc = "owner" /\ pc' = "idle" /\ file' = Append(file, OwnerFrame)
  BY DEF WriteOwnership, store
<1>2. Typed /\ Genuine /\ Closed /\ Reading /\ Written /\ Held
  BY <1>1 DEF IInv, Saving
<1> DEFINE fr == OwnerFrame
           t == <<fr>>
<1>3. fr \in Frame /\ fr.kind = "OWN" /\ Truthful(fr)
  BY <1>2 DEF OwnerFrame, Frame, Typed, Truthful
<1>a. fr = OwnerFrame
  OBVIOUS
<1> HIDE DEF fr
<1>4. t \in Seq(Frame) /\ DOMAIN t = {1} /\ t[1] = fr /\ Len(t) = 1
  BY <1>3
<1>5. file' = file \o t
  <2>1. file \in Seq(Frame) /\ file' = Append(file, fr)
    BY <1>1, <1>2, <1>a DEF Typed
  <2> QED BY <1>3, <2>1
<1> HIDE DEF t
<1>6. \A i \in DOMAIN t : t[i].kind = "OWN" /\ Truthful(t[i])
  BY <1>3, <1>4
<1>7. \A kind \in {"FAIL", "OP", "ID"} : Ids(t, kind) = {} /\ Unique(t, kind)
  <2>1. \A kind : kind # "OWN" => Ids(t, kind) = {} /\ Unique(t, kind)
    BY <1>6, OtherKinds
  <2> QED BY <2>1
<1>8. /\ Ids(file, "FAIL") = DOMAIN source.failures
      /\ Ids(file, "OP") = DOMAIN source.ops
      /\ Ids(file, "ID") = DOMAIN source.entries
  BY <1>1, <1>2 DEF Written, Held, Reading
<1>9. /\ file' \in Seq(Frame) /\ Len(file') = Len(file) + Len(t)
      /\ Genuine'
      /\ \A kind : Ids(file', kind) = Ids(file, kind) \cup Ids(t, kind)
  <2>1. \A kind \in {"FAIL", "OP", "ID"} :
            Unique(t, kind) /\ Ids(file, kind) \cap Ids(t, kind) = {}
    BY <1>7
  <2>2. source' = source /\ file # <<>>
    BY <1>1, <1>2 DEF Written
  <2> QED BY <1>2, <1>4, <1>5, <1>6, <2>1, <2>2, AppendToFile
<1>10. Closed'
  <2>1. \A i \in DOMAIN file' : file'[i].kind = "OWN" => i = Len(file')
    <3>1. \A i \in DOMAIN file : file[i].kind # "OWN"
      BY <1>1, <1>2 DEF Closed
    <3>2. /\ file \in Seq(Frame) /\ Len(file) \in Nat /\ Len(file') = Len(file) + 1
          /\ \A i \in DOMAIN file : file'[i] = file[i]
          /\ \A i \in DOMAIN file' : i \in DOMAIN file \/ \E j \in DOMAIN t : i = Len(file) + j
      BY <1>2, <1>4, <1>5, <1>9, ConcatElement DEF Typed
    <3> QED BY <1>4, <3>1, <3>2
  <2>2. /\ Ids(file', "FAIL") = DOMAIN source.failures
        /\ Ids(file', "OP") = DOMAIN source.ops
        /\ Ids(file', "ID") = DOMAIN source.entries
    BY <1>7, <1>8, <1>9
  <2> QED BY <1>1, <2>1, <2>2 DEF Closed
<1>11. Typed'
  BY <1>1, <1>2, <1>9 DEF Typed
<1>12. Reading'
  BY <1>1, <1>2 DEF Reading
<1>13. ~Saving'
  BY <1>1 DEF Saving
<1> QED BY <1>9, <1>10, <1>11, <1>12, <1>13 DEF IInv

\* A full disk or a crash cuts the file of a save under way.
LEMMA CutStep ==
    ASSUME IInv, NEW n \in 0..Len(file), NEW torn \in BOOLEAN,
           DiskFull(n, torn) \/ Crash(n, torn)
    PROVE  IInv'
<1>1. /\ file' = Cut(n, torn) /\ source' = source
      /\ pc' \in {"idle", "starting"} /\ pc # "starting"
      /\ pc = "idle" => n = Len(file) /\ ~torn
      /\ saved' \in BOOLEAN
  BY DEF DiskFull, Crash
<1>2. Typed /\ Genuine /\ Closed /\ Reading
  BY DEF IInv
<1>3. /\ file' \in Seq(Frame)
      /\ Genuine'
      /\ NoOwnership(file) => NoOwnership(file')
      /\ ~torn /\ n = Len(file) => file' = file
  BY <1>1, <1>2, CutOff
<1>4. Closed'
  <2>1. CASE pc = "idle"
    BY <1>1, <1>2, <1>3, <2>1 DEF Closed
  <2>2. CASE pc # "idle"
    <3>1. NoOwnership(file)
      BY <1>1, <1>2, <2>2 DEF Closed, NoOwnership
    <3> QED BY <1>3, <3>1 DEF Closed, NoOwnership
  <2> QED BY <2>1, <2>2
<1>5. /\ Tables(failures', ops', entries') /\ ownership' \in Ownership(Boots \cup {NullId})
      /\ todo' = {} /\ reading' = NoOp /\ seen' \subseteq Runtime
  <2>1. CASE DiskFull(n, torn)
    BY <1>2, <2>1 DEF DiskFull, store, Typed, Reading
  <2>2. CASE Crash(n, torn)
    <3>1. /\ failures' = Empty /\ ops' = Empty /\ entries' = Empty
          /\ ownership' = Unassigned(NullId)
          /\ todo' = {} /\ reading' = NoOp /\ seen' = {}
      BY <2>2 DEF Crash
    <3>2. ownership' \in Ownership(Boots \cup {NullId})
      BY <3>1 DEF Unassigned, Ownership, RecoveryOwners
    <3>3. Tables(failures', ops', entries')
      BY <3>1, EmptyTable DEF Tables
    <3> QED BY <3>1, <3>2, <3>3
  <2> QED BY <2>1, <2>2
<1>6. Typed'
  BY <1>1, <1>2, <1>3, <1>5 DEF Typed
<1>7. Reading' /\ ~Saving'
  BY <1>1, <1>5 DEF Reading, Saving
<1> QED BY <1>3, <1>4, <1>6, <1>7 DEF IInv

\* The file is damaged at one place.
LEMMA DamageStep ==
    ASSUME IInv, NEW n \in 1..(Len(file) + 1), Damage(n)
    PROVE  IInv'
<1> DEFINE len == IF n > Len(file) THEN n ELSE Len(file)
<1>1. /\ pc = "starting" /\ saved' = FALSE
      /\ file' = [i \in 1..len |-> IF i = n THEN TornFrame ELSE file[i]]
      /\ UNCHANGED <<failures, ops, entries, ownership, pc, todo, reading, seen, source>>
  BY DEF Damage, store
<1>2. Typed /\ Genuine /\ Reading
  BY DEF IInv
<1>3. file \in Seq(Frame) /\ Len(file) \in Nat /\ DOMAIN file = 1..Len(file)
  BY <1>2 DEF Typed
<1>4. len \in Nat /\ n \in 1..len /\ \A i \in 1..len : i # n => i \in DOMAIN file
  BY <1>3
<1> HIDE DEF len
<1>5. /\ DOMAIN file' = 1..len /\ n \in DOMAIN file' /\ file'[n] = TornFrame
      /\ \A i \in DOMAIN file' : \/ i \in DOMAIN file /\ file'[i] = file[i]
                                 \/ file'[i] = TornFrame
  BY <1>1, <1>4
<1>6. file' \in Seq(Frame)
  <2>1. TornFrame \in Frame
    BY Zenon DEF Frame
  <2>2. \A i \in DOMAIN file : file[i] \in Frame
    BY <1>3
  <2>3. \A i \in 1..len : (IF i = n THEN TornFrame ELSE file[i]) \in Frame
    BY <1>4, <2>1, <2>2
  <2>4. file' \in [1..len -> Frame]
    BY <1>1, <2>3
  <2> QED BY <1>4, <2>4, SeqDef
<1>7. Genuine'
  BY <1>1, <1>2, <1>5, <1>6, PartStays
<1>8. Closed'
  <2>1. file'[n].kind = "TORN"
    BY <1>5 DEF TornFrame
  <2> QED BY <1>1, <1>5, <2>1 DEF Closed
<1>9. Typed' /\ Reading' /\ ~Saving'
  BY <1>1, <1>2, <1>6 DEF Typed, Reading, Saving
<1> QED BY <1>7, <1>8, <1>9 DEF IInv

\* The invariant is inductive.
LEMMA NextIInv == IInv /\ [Next]_vars => IInv'
<1> SUFFICES ASSUME IInv, [Next]_vars PROVE IInv'
  OBVIOUS
<1>1. CASE \E op \in Ops, e \in Envelopes : Call(op, e)
  BY <1>1, CallStep
<1>2. CASE \/ \E id \in FailureIds, e \in Envelopes : append_failure(id, e)
           \/ \E k \in Keys, e \in Entries : PutEntry(k, e)
           \/ \E b \in Boots : Transfer(b)
           \/ clear
  BY <1>2, OtherCallStep
<1>3. CASE Save
  <2>1. CASE ListOperations \/ \E op \in Ops : FindOperation(op)
    BY <2>1, ListAndFindStep
  <2>2. CASE \E r \in TornRuntimes(seen) : WriteOperation(r)
    BY <2>2, WriteOperationStep
  <2> QED BY <1>3, <2>1, <2>2, WriteHeaderStep, WriteFailuresStep, WriteEntriesStep,
             WriteOwnershipStep DEF Save
<1>4. CASE load
  BY <1>4, LoadStep
<1>5. CASE \E n \in 0..Len(file), torn \in BOOLEAN : DiskFull(n, torn) \/ Crash(n, torn)
  BY <1>5, CutStep
<1>6. CASE \E n \in 1..(Len(file) + 1) : Damage(n)
  BY <1>6, DamageStep
<1>7. CASE UNCHANGED vars
  <2>1. UNCHANGED <<failures, ops, entries, ownership, file, pc, todo, reading, seen,
                    source, saved>>
    BY <1>7 DEF vars, store, saver
  <2>2. Typed' /\ Reading'
    BY <2>1 DEF IInv, Typed, Reading
  <2>3. Genuine' /\ Closed'
    BY <2>1 DEF IInv, Genuine, Truthful, SourceHeader, Closed
  <2>4. Saving' => Written' /\ Held'
    BY <2>1 DEF IInv, Saving, Written, SourceHeader, Held
  <2> QED BY <2>2, <2>3, <2>4 DEF IInv
<1> QED BY <1>1, <1>2, <1>3, <1>4, <1>5, <1>6, <1>7 DEF Next

\* Every reachable state satisfies the invariant.
THEOREM SaveInvariant == Spec => []IInv
BY InitIInv, NextIInv, PTL DEF Spec

\* The store is well formed at every moment, also after it was loaded from a
\* file that a crash or a full disk cut, or that was damaged.
THEOREM TypeCorrect == Spec => []TypeOK
<1>1. IInv => TypeOK
  <2> SUFFICES ASSUME IInv PROVE TypeOK
    OBVIOUS
  <2>1. /\ Table(failures, FailureIds, AuthorityEnvelope)
        /\ Table(ops, Ops, Runtime)
        /\ Table(entries, Keys, Entries)
        /\ ownership \in Ownership(Boots \cup {NullId})
    BY DEF IInv, Typed, Tables
  <2>2. todo \subseteq Ops /\ reading \in Ops \cup {NoOp}
    BY <2>1 DEF IInv, Reading, Table
  <2> QED BY <2>1, <2>2 DEF TypeOK, Table
<1> QED BY <1>1, SaveInvariant, PTL

\* FailureStore::load accepts a file only if it holds every failure, operation
\* and idempotency entry that the store had when the save began, wherever a
\* crash or a full disk cut, or damage hit, what FailureStore::save wrote.
THEOREM AcceptedIsWhole == Spec => []AcceptedFileIsWhole
<1>1. IInv => AcceptedFileIsWhole
  BY AcceptedMeansWhole DEF IInv
<1> QED BY <1>1, SaveInvariant, PTL

\* A recorded outcome is in every accepted file as it was recorded, although
\* FailureStore::save reads runtimes while other threads change them.
THEOREM OutcomesSurviveSaves == Spec => []RecordedOutcomeSurvives
<1>1. IInv => RecordedOutcomeSurvives
  BY AcceptedMeansWhole DEF IInv
<1> QED BY <1>1, SaveInvariant, PTL

-----------------------------------------------------------------------------
(* The registry does not validate the envelopes it is given, but load()    *)
(* does: what follows is about callers that pass valid ones.               *)

ValidEnvelopes == \A e \in Envelopes : validate_authority(e)

ValidRuntime(r) == validate_authority(r.authority) /\ validate_authority(r.terminal)

ValidStore ==
    /\ \A id \in DOMAIN failures : validate_authority(failures[id])
    /\ \A op \in DOMAIN ops : ValidRuntime(ops[op])
    /\ \A r \in seen : ValidRuntime(r)

\* Nothing was cut off or torn: every frame decodes, and the last frame is
\* there once the save is over.
Undisturbed ==
    saved => /\ \A i \in DOMAIN file : Decodes(file[i])
             /\ ~Saving => \E i \in DOMAIN file : file[i].kind = "OWN"

\* The envelopes of a new runtime are valid, and stay so.
LEMMA CallsKeepValid ==
    ASSUME NEW r \in Runtime, NEW e \in AuthorityEnvelope, validate_authority(e)
    PROVE  /\ ValidRuntime(NewRuntime(e))
           /\ ValidRuntime(r) =>
                  /\ ValidRuntime(dispatch(r, e))
                  /\ ValidRuntime(run(r, e))
                  /\ ValidRuntime(report_completion(r, e, FALSE))
                  /\ ValidRuntime(confirm_completion(r, e))
                  /\ \A ambiguous : ValidRuntime(report_failure(r, e, ambiguous))
<1>1. ValidRuntime(NewRuntime(e))
  BY DEF ValidRuntime, NewRuntime, UnsetEnvelope, validate_authority
<1> SUFFICES ASSUME ValidRuntime(r)
             PROVE  /\ ValidRuntime(dispatch(r, e))
                    /\ ValidRuntime(run(r, e))
                    /\ ValidRuntime(report_completion(r, e, FALSE))
                    /\ ValidRuntime(confirm_completion(r, e))
                    /\ \A ambiguous : ValidRuntime(report_failure(r, e, ambiguous))
  BY <1>1
<1>2. ASSUME NEW to
      PROVE  /\ MoveTo(r, to).authority = r.authority
             /\ MoveTo(r, to).terminal = r.terminal
  BY DEF MoveTo, Runtime
<1>3. \A to : ValidRuntime(MoveTo(r, to))
  BY <1>2 DEF ValidRuntime
<1>4. ValidRuntime(run(r, e))
  BY <1>3 DEF run
<1>5. ValidRuntime(report_completion(r, e, FALSE))
  BY <1>3 DEF report_completion
<1>6. \A ambiguous : ValidRuntime(report_failure(r, e, ambiguous))
  BY <1>3 DEF report_failure
<1>7. ValidRuntime(confirm_completion(r, e))
  <2>1. ASSUME NEW to, NEW o
        PROVE  /\ Conclude(r, to, e, o).authority = r.authority
               /\ Conclude(r, to, e, o).terminal = e
    BY DEF Conclude, Runtime
  <2> QED BY <2>1 DEF confirm_completion, ValidRuntime
<1>8. ValidRuntime(dispatch(r, e))
  <2>1. \/ dispatch(r, e) = r
        \/ dispatch(r, e).authority = e /\ dispatch(r, e).terminal = r.terminal
    BY DEF dispatch, Runtime
  <2> QED BY <2>1 DEF ValidRuntime
<1> QED BY <1>4, <1>5, <1>6, <1>7, <1>8

\* A step of the callers keeps the store valid.
LEMMA ValidCalls ==
    ASSUME ValidEnvelopes, IInv, ValidStore,
           \/ \E op \in Ops, e \in Envelopes : Call(op, e)
           \/ \E id \in FailureIds, e \in Envelopes : append_failure(id, e)
           \/ \E k \in Keys, e \in Entries : PutEntry(k, e)
           \/ \E b \in Boots : Transfer(b)
           \/ clear
    PROVE  ValidStore' /\ UNCHANGED <<file, pc, saved>>
<1>1. ASSUME NEW op \in Ops, NEW e \in Envelopes, Call(op, e)
      PROVE  ValidStore' /\ UNCHANGED <<file, pc, saved>>
  <2>0. e \in AuthorityEnvelope /\ validate_authority(e) /\ Table(ops, Ops, Runtime)
    BY StoreConstants DEF ValidEnvelopes, IInv, Typed, Tables
  <2>1. ASSUME NEW r, op \in DOMAIN ops, ValidRuntime(r), Update(op, r)
        PROVE  ValidStore' /\ UNCHANGED <<file, pc, saved>>
    <3>1. /\ UNCHANGED <<failures, file, pc, saved>>
          /\ DOMAIN ops' = DOMAIN ops
          /\ \A x \in DOMAIN ops : ops'[x] = IF x = op THEN r ELSE ops[x]
          /\ \A q \in seen' : q \in seen \/ q = r
      BY <2>0, <2>1 DEF Update, Table
    <3> QED BY <2>1, <3>1 DEF ValidStore
  <2>2. CASE Create(op, e)
    <3>1. /\ UNCHANGED <<failures, seen, file, pc, saved>>
          /\ ops' = Put(ops, op, NewRuntime(e))
      BY <2>2 DEF Create, saver
    <3>2. ValidRuntime(NewRuntime(e)) /\ NewRuntime(e) \in Runtime
      <4>1. NewRuntime(e) \in Runtime
        BY <2>0, NewRuntimeType
      <4> QED BY <4>1, <2>0, CallsKeepValid
    <3>3. /\ DOMAIN ops' = DOMAIN ops \cup {op}
          /\ \A x \in DOMAIN ops : x # op => ops'[x] = ops[x]
          /\ ops'[op] = NewRuntime(e)
      BY <3>1 DEF Put
    <3> QED BY <3>1, <3>2, <3>3 DEF ValidStore
  <2>3. ASSUME op \in DOMAIN ops
        PROVE  /\ ValidRuntime(dispatch(ops[op], e))
               /\ ValidRuntime(run(ops[op], e))
               /\ ValidRuntime(report_completion(ops[op], e, FALSE))
               /\ ValidRuntime(confirm_completion(ops[op], e))
               /\ \A ambiguous : ValidRuntime(report_failure(ops[op], e, ambiguous))
    <3>1. ops[op] \in Runtime /\ ValidRuntime(ops[op])
      BY <2>0, <2>3 DEF Table, ValidStore
    <3> QED BY <2>0, <3>1, CallsKeepValid
  <2>4. CASE Dispatch(op, e)
    BY <2>1, <2>3, <2>4 DEF Dispatch
  <2>5. CASE Run(op, e)
    BY <2>1, <2>3, <2>5 DEF Run
  <2>6. CASE ReportCompletion(op, e)
    BY <2>1, <2>3, <2>6 DEF ReportCompletion
  <2>7. CASE ConfirmCompletion(op, e)
    BY <2>1, <2>3, <2>7 DEF ConfirmCompletion
  <2>8. CASE \E ambiguous \in BOOLEAN : ReportFailure(op, e, ambiguous)
    BY <2>1, <2>3, <2>8 DEF ReportFailure
  <2> QED BY <1>1, <2>2, <2>4, <2>5, <2>6, <2>7, <2>8 DEF Call
<1>2. ASSUME NEW id \in FailureIds, NEW e \in Envelopes, append_failure(id, e)
      PROVE  ValidStore' /\ UNCHANGED <<file, pc, saved>>
  <2>1. /\ UNCHANGED <<ops, seen, file, pc, saved>>
        /\ failures' = Put(failures, id, e) /\ validate_authority(e)
    BY <1>2 DEF append_failure, saver
  <2>2. /\ DOMAIN failures' = DOMAIN failures \cup {id}
        /\ \A x \in DOMAIN failures : x # id => failures'[x] = failures[x]
        /\ failures'[id] = e
    BY <2>1 DEF Put
  <2> QED BY <2>1, <2>2 DEF ValidStore
<1>3. CASE \/ \E k \in Keys, e \in Entries : PutEntry(k, e)
           \/ \E b \in Boots : Transfer(b)
  <2>1. UNCHANGED <<failures, ops, seen, file, pc, saved>>
    BY <1>3 DEF PutEntry, Transfer, saver
  <2> QED BY <2>1 DEF ValidStore
<1>4. CASE clear
  <2>1. failures' = Empty /\ ops' = Empty /\ UNCHANGED <<seen, file, pc, saved>>
    BY <1>4 DEF clear, saver
  <2>2. DOMAIN Empty = {}
    BY EmptyTable
  <2> QED BY <2>1, <2>2 DEF ValidStore
<1> QED BY <1>1, <1>2, <1>3, <1>4

\* What load() accepts was validated frame by frame.
LEMMA ValidLoad ==
    ASSUME IInv, ValidStore, load
    PROVE  ValidStore' /\ UNCHANGED <<file, saved>> /\ ~Saving /\ ~Saving'
<1>1. UNCHANGED <<file, seen, saved>> /\ ~Saving /\ ~Saving'
  BY DEF load, Saving
<1>2. CASE Accepted
  <2>1. failures' = Restored("FAIL") /\ ops' = Restored("OP")
    BY <1>2 DEF load
  <2>2. /\ \A i \in Positions(file, "FAIL") : validate_authority(file[i].content)
        /\ \A i \in Positions(file, "OP") : ValidRuntime(file[i].content)
    BY <1>2 DEF Accepted, Parses, Decodes, Positions, ValidRuntime
  <2>3. ASSUME NEW kind
        PROVE  /\ DOMAIN Restored(kind) = Ids(file, kind)
               /\ \A x \in Ids(file, kind) : \E i \in Positions(file, kind) :
                      Restored(kind)[x] = file[i].content
    BY RestoredContent
  <2>4. \A id \in DOMAIN failures' : validate_authority(failures'[id])
    BY <2>1, <2>2, <2>3
  <2>5. \A op \in DOMAIN ops' : ValidRuntime(ops'[op])
    BY <2>1, <2>2, <2>3
  <2> QED BY <1>1, <2>4, <2>5 DEF ValidStore
<1>3. CASE ~Accepted
  <2>1. UNCHANGED <<failures, ops>>
    BY <1>3 DEF load
  <2> QED BY <1>1, <2>1 DEF ValidStore
<1> QED BY <1>1, <1>2, <1>3

\* A step of save() keeps the store valid, and what it writes decodes.
LEMMA ValidSave ==
    ASSUME IInv, ValidStore, Undisturbed, Save
    PROVE  ValidStore' /\ Undisturbed'
<1>0. file \in Seq(Frame) /\ failures \in [DOMAIN failures -> AuthorityEnvelope]
  BY DEF IInv, Typed, Tables, Table
<1>1. UNCHANGED <<failures, ops>>
  BY DEF Save, WriteHeader, WriteFailures, ListOperations, FindOperation,
         WriteOperation, WriteEntries, WriteOwnership, store
<1>2. ASSUME NEW t \in Seq(Frame), file' = file \o t,
             \A i \in DOMAIN t : Decodes(t[i]), saved
      PROVE  \A i \in DOMAIN file' : Decodes(file'[i])
  <2>1. \A i \in DOMAIN file : Decodes(file[i])
    BY <1>2 DEF Undisturbed
  <2>2. /\ \A i \in DOMAIN file : file'[i] = file[i]
        /\ \A j \in DOMAIN t : file'[Len(file) + j] = t[j]
        /\ \A i \in DOMAIN file' : i \in DOMAIN file \/ \E j \in DOMAIN t : i = Len(file) + j
    BY <1>0, <1>2, ConcatElement
  <2> QED BY <1>2, <2>1, <2>2
<1>3. CASE WriteHeader
  <2>1. seen' = seen /\ pc' = "failures" /\ file' = <<Header>> /\ Header.kind = "HEADER"
    BY <1>3 DEF WriteHeader, Header
  <2>2. \A i \in DOMAIN file' : Decodes(file'[i])
    BY <2>1 DEF Decodes
  <2>3. ValidStore'
    BY <1>1, <2>1 DEF ValidStore
  <2>4. Undisturbed'
    BY <2>1, <2>2 DEF Undisturbed, Saving, Decodes
  <2> QED BY <2>3, <2>4
<1>4. CASE WriteFailures
  <2>1. seen' = seen /\ saved' = saved /\ pc' = "list"
    BY <1>4 DEF WriteFailures
  <2>2. PICK keys \in Orders(DOMAIN failures) :
            file' = file \o Frames("FAIL", failures, keys)
    BY <1>4 DEF WriteFailures
  <2> DEFINE t == Frames("FAIL", failures, keys)
  <2>3. /\ t \in Seq(Frame)
        /\ \A i \in DOMAIN t : \E x \in DOMAIN failures :
               t[i] = [kind |-> "FAIL", id |-> x, content |-> failures[x]]
    <3>1. /\ IsFiniteSet(DOMAIN failures)
          /\ \A x \in DOMAIN failures :
                 [kind |-> "FAIL", id |-> x, content |-> failures[x]] \in Frame
      BY DEF IInv, Typed, Tables, Table, Frame
    <3> QED BY <3>1, FramesOfMap
  <2>4. file' = file \o t
    BY <2>2
  <2> HIDE DEF t
  <2>5. \A i \in DOMAIN t : Decodes(t[i])
    BY <2>3 DEF Decodes, ValidStore
  <2>6. saved => \A i \in DOMAIN file' : Decodes(file'[i])
    BY <1>2, <2>3, <2>4, <2>5
  <2>7. ValidStore'
    BY <1>1, <2>1 DEF ValidStore
  <2>8. Undisturbed'
    BY <2>1, <2>6 DEF Undisturbed, Saving, Decodes
  <2> QED BY <2>7, <2>8
<1>5. CASE ListOperations \/ \E op \in Ops : FindOperation(op)
  <2>1. UNCHANGED <<file, saved>> /\ pc' = "ops"
    BY <1>5 DEF ListOperations, FindOperation
  <2>2. \A r \in seen' : r \in seen \/ \E op \in DOMAIN ops : r = ops[op]
    BY <1>5 DEF ListOperations, FindOperation, IInv, Reading
  <2>3. ValidStore'
    BY <1>1, <2>2 DEF ValidStore
  <2>4. Undisturbed'
    BY <2>1 DEF Undisturbed, Saving, Decodes
  <2> QED BY <2>3, <2>4
<1>6. ASSUME NEW r \in TornRuntimes(seen), WriteOperation(r)
      PROVE  ValidStore' /\ Undisturbed'
  <2>1. /\ file' = Append(file, OpFrame(reading, r)) /\ pc' = "ops" /\ seen' = {}
        /\ saved' => saved /\ r \in seen
    BY <1>6 DEF WriteOperation
  <2>2. ValidStore'
    BY <1>1, <2>1 DEF ValidStore
  <2>3. ASSUME saved'
        PROVE  \A i \in DOMAIN file' : Decodes(file'[i])
    <3> DEFINE fr == OpFrame(reading, r)
               t == <<fr>>
    <3>1. saved /\ r \in seen /\ ValidRuntime(r) /\ r \in Runtime /\ reading \in Ops
      BY <1>6, <2>1, <2>3 DEF ValidStore, IInv, Reading, WriteOperation, Typed, Tables, Table
    <3>2. fr \in Frame /\ Decodes(fr)
      BY <3>1 DEF OpFrame, Frame, Decodes, ValidRuntime
    <3>3. file' = Append(file, fr)
      BY <2>1
    <3> HIDE DEF fr
    <3>4. t \in Seq(Frame) /\ file' = file \o t /\ DOMAIN t = {1} /\ t[1] = fr
      BY <1>0, <3>2, <3>3
    <3> HIDE DEF t
    <3>5. \A i \in DOMAIN t : Decodes(t[i])
      BY <3>2, <3>4
    <3> QED BY <1>2, <3>1, <3>4, <3>5
  <2>4. Undisturbed'
    BY <2>1, <2>3 DEF Undisturbed, Saving, Decodes
  <2> QED BY <2>2, <2>4
<1>7. CASE WriteEntries
  <2>1. seen' = seen /\ saved' = saved /\ pc' = "owner"
    BY <1>7 DEF WriteEntries
  <2>2. PICK keys \in Orders(DOMAIN entries) :
            file' = file \o Frames("ID", entries, keys)
    BY <1>7 DEF WriteEntries
  <2> DEFINE t == Frames("ID", entries, keys)
  <2>3. /\ t \in Seq(Frame)
        /\ \A i \in DOMAIN t : \E x \in DOMAIN entries :
               t[i] = [kind |-> "ID", id |-> x, content |-> entries[x]]
    <3>1. /\ IsFiniteSet(DOMAIN entries)
          /\ \A x \in DOMAIN entries :
                 [kind |-> "ID", id |-> x, content |-> entries[x]] \in Frame
      BY DEF IInv, Typed, Tables, Table, Frame
    <3> QED BY <3>1, FramesOfMap
  <2>4. file' = file \o t
    BY <2>2
  <2> HIDE DEF t
  <2>5. \A i \in DOMAIN t : Decodes(t[i])
    BY <2>3 DEF Decodes
  <2>6. saved => \A i \in DOMAIN file' : Decodes(file'[i])
    BY <1>2, <2>3, <2>4, <2>5
  <2>7. ValidStore'
    BY <1>1, <2>1 DEF ValidStore
  <2>8. Undisturbed'
    BY <2>1, <2>6 DEF Undisturbed, Saving, Decodes
  <2> QED BY <2>7, <2>8
<1>8. CASE WriteOwnership
  <2>1. file' = Append(file, OwnerFrame) /\ UNCHANGED <<seen, saved>>
    BY <1>8 DEF WriteOwnership
  <2> DEFINE fr == OwnerFrame
             t == <<fr>>
  <2>2. fr \in Frame /\ Decodes(fr) /\ fr.kind = "OWN"
    BY DEF OwnerFrame, Frame, Decodes, IInv, Typed
  <2>3. file' = Append(file, fr)
    BY <2>1
  <2> HIDE DEF fr
  <2>4. /\ t \in Seq(Frame) /\ file' = file \o t /\ DOMAIN t = {1} /\ t[1] = fr
        /\ Len(file) + 1 \in DOMAIN file' /\ file'[Len(file) + 1] = fr
    BY <1>0, <2>2, <2>3
  <2> HIDE DEF t
  <2>5. \A i \in DOMAIN t : Decodes(t[i])
    BY <2>2, <2>4
  <2>6. saved => \A i \in DOMAIN file' : Decodes(file'[i])
    BY <1>2, <2>4, <2>5
  <2>7. ValidStore'
    BY <1>1, <2>1 DEF ValidStore
  <2>8. Undisturbed'
    BY <2>1, <2>2, <2>4, <2>6 DEF Undisturbed, Decodes
  <2> QED BY <2>7, <2>8
<1> QED BY <1>3, <1>4, <1>5, <1>6, <1>7, <1>8 DEF Save

\* A crash while no save is under way leaves the file alone; any other crash,
\* and a full disk, disturb the save.
LEMMA ValidCut ==
    ASSUME IInv, ValidStore, Undisturbed, NEW n \in 0..Len(file), NEW torn \in BOOLEAN,
           DiskFull(n, torn) \/ Crash(n, torn)
    PROVE  ValidStore' /\ Undisturbed'
<1>1. CASE DiskFull(n, torn)
  <2>1. UNCHANGED <<failures, ops, seen>> /\ saved' = FALSE
    BY <1>1 DEF DiskFull, store
  <2> QED BY <2>1 DEF ValidStore, Undisturbed
<1>2. CASE Crash(n, torn)
  <2>1. /\ failures' = Empty /\ ops' = Empty /\ seen' = {}
        /\ saved' => saved /\ pc = "idle" /\ n = Len(file) /\ ~torn
        /\ file' = Cut(n, torn) /\ source' = source
    BY <1>2 DEF Crash
  <2>2. DOMAIN Empty = {}
    BY EmptyTable
  <2>3. saved' => file' = file
    BY <2>1, CutFile DEF IInv, Typed
  <2>4. ValidStore'
    BY <2>1, <2>2 DEF ValidStore
  <2>5. Undisturbed'
    BY <2>1, <2>3 DEF Undisturbed, Saving, Decodes
  <2> QED BY <2>4, <2>5
<1> QED BY <1>1, <1>2

\* If the callers only pass envelopes that validate_authority accepts, a save
\* that ends undisturbed, no runtime torn by a completion that was reported or
\* confirmed while it was read, leaves a file FailureStore::load accepts.
THEOREM UndisturbedSavesLoad ==
    ASSUME ValidEnvelopes
    PROVE  Spec => []UndisturbedSaveLoads
<1> DEFINE J == ValidStore /\ Undisturbed
<1>1. Init => J
  <2> SUFFICES ASSUME Init PROVE J
    OBVIOUS
  <2>1. failures = Empty /\ ops = Empty /\ seen = {} /\ saved = FALSE
    BY DEF Init
  <2>2. DOMAIN Empty = {}
    BY EmptyTable
  <2> QED BY <2>1, <2>2 DEF ValidStore, Undisturbed
<1>2. IInv /\ J /\ [Next]_vars => J'
  <2> SUFFICES ASSUME IInv, ValidStore, Undisturbed, [Next]_vars
               PROVE  ValidStore' /\ Undisturbed'
    OBVIOUS
  <2>1. ASSUME \/ \E op \in Ops, e \in Envelopes : Call(op, e)
               \/ \E id \in FailureIds, e \in Envelopes : append_failure(id, e)
               \/ \E k \in Keys, e \in Entries : PutEntry(k, e)
               \/ \E b \in Boots : Transfer(b)
               \/ clear
        PROVE  ValidStore' /\ Undisturbed'
    <3>1. ValidStore' /\ UNCHANGED <<file, pc, saved>>
      BY <2>1, ValidCalls
    <3> QED BY <3>1 DEF Undisturbed, Saving, Decodes
  <2>2. CASE Save
    BY <2>2, ValidSave
  <2>3. CASE load
    <3>1. ValidStore' /\ UNCHANGED <<file, saved>> /\ ~Saving /\ ~Saving'
      BY <2>3, ValidLoad
    <3> QED BY <3>1 DEF Undisturbed, Decodes
  <2>4. CASE \E n \in 0..Len(file), torn \in BOOLEAN : DiskFull(n, torn) \/ Crash(n, torn)
    BY <2>4, ValidCut
  <2>5. CASE \E n \in 1..(Len(file) + 1) : Damage(n)
    <3>1. UNCHANGED <<failures, ops, seen>> /\ saved' = FALSE
      BY <2>5 DEF Damage, store
    <3> QED BY <3>1 DEF ValidStore, Undisturbed
  <2>6. CASE UNCHANGED vars
    <3>1. UNCHANGED <<failures, ops, seen, file, pc, saved>>
      BY <2>6 DEF vars, store, saver
    <3> QED BY <3>1 DEF ValidStore, Undisturbed, Saving, Decodes
  <2> QED BY <2>1, <2>2, <2>3, <2>4, <2>5, <2>6 DEF Next
<1>3. IInv /\ J => UndisturbedSaveLoads
  <2> SUFFICES ASSUME IInv, Undisturbed, pc = "idle", saved
               PROVE  Accepted
    BY DEF UndisturbedSaveLoads
  <2>1. PICK i \in DOMAIN file : file[i].kind = "OWN"
    BY DEF Undisturbed, Saving
  <2>2. /\ Ids(file, "FAIL") = DOMAIN source.failures
        /\ Ids(file, "OP") = DOMAIN source.ops
        /\ Ids(file, "ID") = DOMAIN source.entries
    BY <2>1 DEF IInv, Closed, Undisturbed, Decodes
  <2>3. Parses
    <3>1. file # <<>>
      BY <2>1
    <3> QED BY <3>1 DEF Parses, Undisturbed
  <2> QED BY <2>2, <2>3, WholeIsAccepted DEF IInv
<1> HIDE DEF J
<1>4. Spec => []J
  BY <1>1, <1>2, SaveInvariant, PTL DEF Spec
<1> QED BY <1>3, <1>4, SaveInvariant, PTL

=============================================================================
