--------------------------- MODULE StorageProofs ----------------------------
(***************************************************************************)
(* What is on disk and in the schema after writers, faults and crashes,    *)
(* for every number of them: published versions of artifacts, datasets of  *)
(* the preparation commands, the version that a database says it has, and  *)
(* a job row that several sessions write.  And what the gates let pass,    *)
(* for every data set.  SourceProofs has what is stored of a source.       *)
(*                                                                         *)
(* The components share no state; each theorem is about one of them.       *)
(***************************************************************************)
EXTENDS StorageWork, SourceProofs

-----------------------------------------------------------------------------
(* Artifact stores.                                                        *)

\* The first n files of kind k, all of writer w.
FilesOf(k, n, w) == {<< Store!Files(k)[i], w >> : i \in 1..n}

Owns(w) == writer[w].pc \in {"writing", "cleaning", "emptied"}

StoreTyped ==
    /\ DOMAIN destination = ArtifactKinds /\ DOMAIN staging = Store!Processes \X ArtifactKinds
    /\ DOMAIN writer = Writers
    /\ \A w \in Writers :
        \/ writer[w] = Store!Idle
        \/ /\ writer[w] \in [pc : {"checked", "writing", "cleaning", "emptied", "published"},
                             kind : ArtifactKinds, written : Nat]
           /\ writer[w].written <= Len(Store!Files(writer[w].kind))
           /\ writer[w].pc = "checked" => writer[w].written = 0
    /\ audited \subseteq ArtifactKinds /\ crashes \in 0..Crashes

\* While a writer writes, its staging directory holds what it wrote so far.
WritesOwnFiles ==
    \A w \in Writers : writer[w].pc = "writing" =>
        staging[Store!Place(w)] =
            [present |-> TRUE, files |-> FilesOf(writer[w].kind, writer[w].written, w)]

\* A staging directory is there for one writer at most.
OwnersAreAlone ==
    /\ \A w \in Writers : Owns(w) => staging[Store!Place(w)] # Store!Absent
    /\ \A v, w \in Writers : Owns(v) /\ Owns(w) /\ Store!Place(v) = Store!Place(w) => v = w

\* A staging directory found in the way of a mkdir is never one that the handler of
\* that mkdir would remove.
NothingForeignToRemove ==
    \A w \in Writers : writer[w].pc = "checked" /\ writer[w].kind \in Store!CleansAfterMkdir
        => staging[Store!Place(w)] = Store!Absent

StoreInv ==
    /\ StoreTyped /\ WritesOwnFiles /\ OwnersAreAlone /\ NothingForeignToRemove
    /\ \A w \in Writers : writer[w].pc = "published" =>
            destination[writer[w].kind] # Store!Absent
    /\ Store!PublishedVerifies

LEMMA StoreCardinality == \A S : Store!Cardinality(S) = Cardinality(S)
BY DEF Store!Cardinality, Cardinality

LEMMA FilesAreNamed ==
    ASSUME NEW k \in Store!AllKinds
    PROVE  /\ DOMAIN Store!Files(k) = 1..Len(Store!Files(k))
           /\ Len(Store!Files(k)) \in Nat /\ Len(Store!Files(k)) > 0
<1>1. \/ Store!Files(k) = << "model", "manifest", "model_card", "checksums" >>
      \/ Store!Files(k) = << "manifest", "model_card", "checksums" >>
      \/ Store!Files(k) = << "payload", "manifest", "checksums" >>
  BY DEF Store!AllKinds, Store!Files, Store!SupervisedFiles, Store!AnomalyFiles,
         Store!PolicyFiles, Store!ExplanationFiles, Store!DataFiles
<1>2. /\ DOMAIN << "model", "manifest", "model_card", "checksums" >> = 1..4
      /\ Len(<< "model", "manifest", "model_card", "checksums" >>) = 4
  OBVIOUS
<1>3. /\ DOMAIN << "manifest", "model_card", "checksums" >> = 1..3
      /\ Len(<< "manifest", "model_card", "checksums" >>) = 3
  OBVIOUS
<1>4. /\ DOMAIN << "payload", "manifest", "checksums" >> = 1..3
      /\ Len(<< "payload", "manifest", "checksums" >>) = 3
  OBVIOUS
<1>5. CASE Store!Files(k) = << "model", "manifest", "model_card", "checksums" >>
  BY <1>2, <1>5
<1>6. CASE Store!Files(k) = << "manifest", "model_card", "checksums" >>
  BY <1>3, <1>6
<1>7. CASE Store!Files(k) = << "payload", "manifest", "checksums" >>
  BY <1>4, <1>7
<1> QED BY <1>1, <1>5, <1>6, <1>7

\* All files of one writer are what the loaders accept.
LEMMA WholeVerifies ==
    ASSUME NEW k \in Store!AllKinds, NEW w, NEW d,
           d.files = FilesOf(k, Len(Store!Files(k)), w)
    PROVE  Store!Verifies(k, d)
<1> DEFINE F == Store!Files(k)
<1>1. Len(F) > 0 /\ DOMAIN F = 1..Len(F) /\ Len(F) \in Nat
  BY FilesAreNamed
<1>2. d.files = {<< F[i], w >> : i \in 1..Len(F)}
  BY DEF FilesOf
<1> HIDE DEF F
<1>3. {e[1] : e \in d.files} = {F[i] : i \in 1..Len(F)}
  <2>1. ASSUME NEW x \in {e[1] : e \in d.files} PROVE x \in {F[i] : i \in 1..Len(F)}
    <3>1. PICK e \in d.files : x = e[1]
      OBVIOUS
    <3>2. PICK i \in 1..Len(F) : e = << F[i], w >>
      BY <1>2
    <3> QED BY <3>1, <3>2
  <2>2. ASSUME NEW i \in 1..Len(F) PROVE F[i] \in {e[1] : e \in d.files}
    <3>1. << F[i], w >> \in d.files
      BY <1>2
    <3>2. << F[i], w >>[1] = F[i]
      OBVIOUS
    <3> QED BY <3>1, <3>2
  <2> QED BY <2>1, <2>2
<1>4. {e[2] : e \in d.files} = {w}
  <2>1. \A e \in d.files : e[2] = w
    BY <1>2
  <2>2. << F[1], w >> \in d.files
    BY <1>1, <1>2
  <2> HIDE DEF F
  <2> QED BY <2>1, <2>2
<1>5. Cardinality({w}) = 1
  BY FS_Singleton
<1>6. Store!ToSet(Store!Files(k)) = {F[i] : i \in 1..Len(F)}
  BY <1>1 DEF Store!ToSet, F
<1> QED BY <1>3, <1>4, <1>5, <1>6, StoreCardinality DEF Store!Verifies

\* Writing the next file adds it.
LEMMA PutAdds ==
    ASSUME NEW k \in Store!AllKinds, NEW n \in Nat, NEW w, n + 1 <= Len(Store!Files(k)),
           NEW d, d = [present |-> TRUE, files |-> FilesOf(k, n, w)]
    PROVE  Store!Put(d, Store!Files(k)[n + 1], w)
            = [present |-> TRUE, files |-> FilesOf(k, n + 1, w)]
<1> DEFINE f == Store!Files(k)[n + 1]
<1>1. 1..(n + 1) = (1..n) \union {n + 1}
  OBVIOUS
<1>2. FilesOf(k, n + 1, w) = FilesOf(k, n, w) \union {<< f, w >>}
  BY <1>1 DEF FilesOf
<1>3. {e \in FilesOf(k, n, w) : e[1] # f} \union {<< f, w >>} = FilesOf(k, n, w) \union {<< f, w >>}
  BY DEF FilesOf
<1>4. Store!Put(d, f, w) = [d EXCEPT !.files = {e \in d.files : e[1] # f} \union {<< f, w >>}]
  BY DEF Store!Put
<1>5. d.files = FilesOf(k, n, w)
  OBVIOUS
<1> HIDE DEF f
<1>6. ASSUME NEW S, NEW old
      PROVE  [[present |-> TRUE, files |-> old] EXCEPT !.files = S] = [present |-> TRUE, files |-> S]
  OBVIOUS
<1>7. Store!Put(d, f, w) = [present |-> TRUE, files |-> FilesOf(k, n + 1, w)]
  BY <1>2, <1>3, <1>4, <1>5, <1>6
<1> QED BY <1>7 DEF f

LEMMA StoreInit == StoreAssumption /\ Store!Init => StoreInv
<1> SUFFICES ASSUME StoreAssumption, Store!Init PROVE StoreInv
  OBVIOUS
<1>1. \A w \in Writers : writer[w] = Store!Idle /\ writer[w].pc = "idle"
  BY DEF Store!Init, Store!Idle
<1>2. StoreTyped
  BY <1>1 DEF Store!Init, StoreTyped, StoreAssumption
<1>3. Store!PublishedVerifies
  BY DEF Store!Init, Store!PublishedVerifies
<1> QED BY <1>1, <1>2, <1>3
        DEF StoreInv, Owns, OwnersAreAlone, WritesOwnFiles, NothingForeignToRemove

\* What a writer that is not idle looks like, and which kinds clean up.
LEMMA WriterAt ==
    ASSUME StoreAssumption, StoreInv, NEW w \in Writers, writer[w].pc # "idle"
    PROVE  /\ writer[w].kind \in ArtifactKinds /\ writer[w].kind \in Store!AllKinds
           /\ writer[w].written \in Nat
           /\ writer[w].written <= Len(Store!Files(writer[w].kind))
           /\ Store!Place(w) \in DOMAIN staging /\ writer[w] # Store!Idle
           /\ writer[w] \in [pc : {"checked", "writing", "cleaning", "emptied", "published"},
                             kind : ArtifactKinds, written : Nat]
BY DEF StoreInv, StoreTyped, StoreAssumption, Store!Idle, Store!Place, Store!Processes

LEMMA EmptyIsNotAbsent == Store!Empty # Store!Absent /\ Store!Idle.pc = "idle"
BY DEF Store!Empty, Store!Absent, Store!Idle

LEMMA StoreBegin ==
    ASSUME StoreAssumption, StoreInv, NEW w \in Writers, NEW k \in ArtifactKinds, Store!Begin(w, k)
    PROVE  StoreInv'
<1> USE DEF Store!Begin
<1>1. writer' = [writer EXCEPT ![w] = [pc |-> "checked", kind |-> k, written |-> 0]]
  OBVIOUS
<1>2. DOMAIN writer = Writers
  BY DEF StoreInv, StoreTyped
<1>3. writer'[w] = [pc |-> "checked", kind |-> k, written |-> 0]
        /\ \A v \in Writers : v # w => writer'[v] = writer[v]
  BY <1>1, <1>2
<1>4. Len(Store!Files(k)) > 0
  BY FilesAreNamed DEF StoreAssumption
<1>5. StoreTyped'
  BY <1>1, <1>2, <1>3, <1>4 DEF StoreInv, StoreTyped
<1>6. \A v \in Writers : v # w => Store!Place(v)' = Store!Place(v)
  BY <1>3 DEF Store!Place
<1>7. WritesOwnFiles'
  BY <1>3, <1>6 DEF StoreInv, WritesOwnFiles
<1>8. OwnersAreAlone'
  BY <1>3, <1>6 DEF StoreInv, OwnersAreAlone, Owns
<1>9. (\A v \in Writers : writer[v].pc = "published" =>
            destination[writer[v].kind] # Store!Absent)'
  BY <1>3 DEF StoreInv
<1>10. Store!PublishedVerifies'
  BY DEF StoreInv, Store!PublishedVerifies
<1>11. NothingForeignToRemove'
  <2> SUFFICES ASSUME NEW v \in Writers, writer'[v].pc = "checked",
                      writer'[v].kind \in Store!CleansAfterMkdir
               PROVE  staging'[Store!Place(v)'] = Store!Absent
    BY DEF NothingForeignToRemove, Store!Absent, Store!CleansAfterMkdir
  <2>1. CASE v = w
    BY <1>3, <2>1 DEF Store!Place
  <2>2. CASE v # w
    BY <1>3, <1>6, <2>2 DEF StoreInv, NothingForeignToRemove
  <2> QED BY <2>1, <2>2
<1> QED BY <1>5, <1>7, <1>8, <1>9, <1>10, <1>11 DEF StoreInv

\* A step of w that leaves staging alone, or changes it at the place of w only,
\* with w alone there, leaves what the others hold alone.
LEMMA OthersKeepTheirs ==
    ASSUME StoreAssumption, StoreInv, NEW w \in Writers, NEW x,
           writer[w].pc # "idle",
           writer' = [writer EXCEPT ![w] = x],
           \/ UNCHANGED staging
           \/ /\ Owns(w) \/ staging[Store!Place(w)] = Store!Absent
              /\ \E y : staging' = [staging EXCEPT ![Store!Place(w)] = y]
    PROVE  /\ writer'[w] = x
           /\ DOMAIN writer' = Writers /\ DOMAIN staging' = DOMAIN staging
           /\ \A v \in Writers : v # w =>
                /\ writer'[v] = writer[v] /\ Store!Place(v)' = Store!Place(v)
                /\ Owns(v)' <=> Owns(v)
                /\ Owns(v) => staging'[Store!Place(v)] = staging[Store!Place(v)]
                /\ writer[v].pc = "checked" /\ writer[v].kind \in Store!CleansAfterMkdir
                    => staging'[Store!Place(v)] = staging[Store!Place(v)]
<1>1. DOMAIN writer = Writers
  BY DEF StoreInv, StoreTyped
<1>2. \A v \in Writers : v # w => writer'[v] = writer[v]
  BY <1>1
<1>3. ASSUME NEW v \in Writers, v # w,
             \/ Owns(v)
             \/ writer[v].pc = "checked" /\ writer[v].kind \in Store!CleansAfterMkdir
      PROVE  staging'[Store!Place(v)] = staging[Store!Place(v)]
  <2>1. CASE UNCHANGED staging
    BY <2>1
  <2>2. CASE /\ Owns(w) \/ staging[Store!Place(w)] = Store!Absent
             /\ \E y : staging' = [staging EXCEPT ![Store!Place(w)] = y]
    <3>1. CASE Owns(v)
      <4>1. Store!Place(v) # Store!Place(w)
        BY <1>3, <2>2, <3>1 DEF StoreInv, OwnersAreAlone
      <4> QED BY <2>2, <4>1
    <3>2. CASE ~Owns(v)
      <4>1. writer[v].kind \in ArtifactKinds /\ writer[v].kind \in Store!CleansAfterMkdir
        BY <1>3, <3>2, WriterAt
      <4>2. ProcessOf[v] # ProcessOf[w]
        BY <1>3, <4>1 DEF StoreAssumption
      <4>3. Store!Place(v) # Store!Place(w)
        BY <4>2 DEF Store!Place
      <4> QED BY <2>2, <4>3
    <3> QED BY <3>1, <3>2
  <2> QED BY <2>1, <2>2
<1>4. \A v \in Writers : v # w => Store!Place(v)' = Store!Place(v) /\ (Owns(v)' <=> Owns(v))
  BY <1>2 DEF Store!Place, Owns
<1>5. writer'[w] = x /\ DOMAIN writer' = Writers /\ DOMAIN staging' = DOMAIN staging
  BY <1>1
<1>6. ASSUME NEW v \in Writers, v # w
      PROVE  /\ writer'[v] = writer[v] /\ Store!Place(v)' = Store!Place(v)
             /\ Owns(v)' <=> Owns(v)
             /\ Owns(v) => staging'[Store!Place(v)] = staging[Store!Place(v)]
             /\ writer[v].pc = "checked" /\ writer[v].kind \in Store!CleansAfterMkdir
                  => staging'[Store!Place(v)] = staging[Store!Place(v)]
  <2>1. writer'[v] = writer[v] /\ Store!Place(v)' = Store!Place(v)
    BY <1>2, <1>4, <1>6
  <2>2. Owns(v)' <=> Owns(v)
    BY <1>2, <1>6 DEF Owns
  <2>3. ASSUME Owns(v) PROVE staging'[Store!Place(v)] = staging[Store!Place(v)]
    BY <1>3, <1>6, <2>3, Zenon
  <2>4. ASSUME writer[v].pc = "checked", writer[v].kind \in Store!CleansAfterMkdir
        PROVE  staging'[Store!Place(v)] = staging[Store!Place(v)]
    BY <1>3, <1>6, <2>4, Zenon
  <2> QED BY <2>1, <2>2, <2>3, <2>4, Zenon
<1> QED BY <1>5, <1>6, Zenon

\* The invariant after such a step, from what it says of w alone.
LEMMA StoreStepOf ==
    ASSUME StoreAssumption, StoreInv, NEW w \in Writers, NEW x,
           writer[w].pc # "idle",
           writer' = [writer EXCEPT ![w] = x],
           \/ UNCHANGED staging
           \/ /\ Owns(w) \/ staging[Store!Place(w)] = Store!Absent
              /\ \E y : staging' = [staging EXCEPT ![Store!Place(w)] = y],
           \/ x = Store!Idle
           \/ /\ x \in [pc : {"writing", "cleaning", "emptied", "published"},
                        kind : {writer[w].kind}, written : Nat]
              /\ x.written <= Len(Store!Files(writer[w].kind))
              /\ x.pc \in {"writing", "cleaning", "emptied"} =>
                    /\ staging'[Store!Place(w)] # Store!Absent
                    /\ ~Owns(w) => staging[Store!Place(w)] = Store!Absent
              /\ x.pc = "writing" => staging'[Store!Place(w)] =
                    [present |-> TRUE, files |-> FilesOf(writer[w].kind, x.written, w)]
              /\ x.pc = "published" => destination'[writer[w].kind] # Store!Absent,
           DOMAIN destination' = ArtifactKinds, audited' \subseteq ArtifactKinds, UNCHANGED crashes,
           \A k \in ArtifactKinds : destination[k] # Store!Absent => destination'[k] # Store!Absent,
           Store!PublishedVerifies'
    PROVE  StoreInv'
<1> DEFINE kind == writer[w].kind
<1>1. /\ writer'[w] = x
      /\ DOMAIN writer' = Writers /\ DOMAIN staging' = DOMAIN staging
      /\ \A v \in Writers : v # w =>
           /\ writer'[v] = writer[v] /\ Store!Place(v)' = Store!Place(v)
           /\ Owns(v)' <=> Owns(v)
           /\ Owns(v) => staging'[Store!Place(v)] = staging[Store!Place(v)]
           /\ writer[v].pc = "checked" /\ writer[v].kind \in Store!CleansAfterMkdir
                => staging'[Store!Place(v)] = staging[Store!Place(v)]
  BY OthersKeepTheirs
<1>2. kind \in ArtifactKinds
  BY WriterAt
<1>3. x # Store!Idle => x.pc # "idle" /\ x.kind = kind /\ Store!Place(w)' = Store!Place(w)
  BY <1>1 DEF Store!Idle, Store!Place
<1>4. x = Store!Idle => x.pc = "idle"
  BY DEF Store!Idle
<1>5. Store!Processes' = Store!Processes
  BY DEF Store!Processes
<1>6. StoreTyped'
  <2>1. ASSUME NEW v \in Writers
        PROVE  \/ writer'[v] = Store!Idle
               \/ /\ writer'[v] \in [pc : {"checked", "writing", "cleaning", "emptied", "published"},
                             kind : ArtifactKinds, written : Nat]
                  /\ writer'[v].written <= Len(Store!Files(writer'[v].kind))
                  /\ writer'[v].pc = "checked" => writer'[v].written = 0
    <3>1. CASE v = w
      BY <1>1, <1>2, <1>3, <3>1
    <3>2. CASE v # w
      BY <1>1, <3>2 DEF StoreInv, StoreTyped
    <3> QED BY <3>1, <3>2
  <2> QED BY <1>1, <1>5, <2>1 DEF StoreInv, StoreTyped
<1>7. WritesOwnFiles'
  <2> SUFFICES ASSUME NEW v \in Writers, writer'[v].pc = "writing"
               PROVE  staging'[Store!Place(v)'] =
                        [present |-> TRUE, files |-> FilesOf(writer'[v].kind, writer'[v].written, v)]
    BY DEF WritesOwnFiles, FilesOf
  <2>1. CASE v = w
    BY <1>1, <1>3, <1>4, <2>1
  <2>2. CASE v # w
    <3>1. writer'[v] = writer[v] /\ Store!Place(v)' = Store!Place(v)
      BY <1>1, <2>2
    <3>2. Owns(v)
      BY <3>1 DEF Owns
    <3>3. staging'[Store!Place(v)] = staging[Store!Place(v)]
      BY <1>1, <2>2, <3>2
    <3> QED BY <3>1, <3>3 DEF StoreInv, WritesOwnFiles
  <2> QED BY <2>1, <2>2
<1>8. OwnersAreAlone'
  <2>1. ASSUME NEW v \in Writers, Owns(v)' PROVE staging'[Store!Place(v)'] # Store!Absent
    <3>1. CASE v = w
      BY <1>1, <1>3, <1>4, <2>1, <3>1 DEF Owns
    <3>2. CASE v # w
      <4>1. Owns(v) /\ Store!Place(v)' = Store!Place(v)
        BY <1>1, <2>1, <3>2
      <4>2. staging'[Store!Place(v)] = staging[Store!Place(v)]
        BY <1>1, <3>2, <4>1
      <4> QED BY <4>1, <4>2 DEF StoreInv, OwnersAreAlone
    <3> QED BY <3>1, <3>2
  <2>2. ASSUME NEW v \in Writers, Owns(v)', Owns(w)', v # w PROVE Store!Place(v)' # Store!Place(w)'
    <3>1. x # Store!Idle /\ x.pc \in {"writing", "cleaning", "emptied"}
      BY <1>1, <1>4, <2>2 DEF Owns
    <3>2. Owns(v) /\ Store!Place(v)' = Store!Place(v) /\ Store!Place(w)' = Store!Place(w)
      BY <1>1, <1>3, <2>2, <3>1
    <3>3. staging[Store!Place(v)] # Store!Absent
      BY <3>2 DEF StoreInv, OwnersAreAlone
    <3> QED BY <3>1, <3>2, <3>3, <2>2 DEF StoreInv, OwnersAreAlone
  <2>3. ASSUME NEW u \in Writers, NEW v \in Writers, Owns(u)', Owns(v)',
               Store!Place(u)' = Store!Place(v)'
        PROVE  u = v
    <3>1. CASE u = w \/ v = w
      BY <2>2, <2>3, <3>1
    <3>2. CASE u # w /\ v # w
      BY <1>1, <2>3, <3>2 DEF StoreInv, OwnersAreAlone
    <3> QED BY <3>1, <3>2
  <2> QED BY <2>1, <2>3 DEF OwnersAreAlone
<1>9. (\A v \in Writers : writer[v].pc = "published" =>
            destination[writer[v].kind] # Store!Absent)'
  <2> SUFFICES ASSUME NEW v \in Writers, writer'[v].pc = "published"
               PROVE  destination'[writer'[v].kind] # Store!Absent
    BY DEF Store!Absent
  <2>1. CASE v = w
    BY <1>1, <1>3, <1>4, <2>1
  <2>2. CASE v # w
    BY <1>1, <2>2, WriterAt DEF StoreInv
  <2> QED BY <2>1, <2>2
<1>10. NothingForeignToRemove'
  <2> SUFFICES ASSUME NEW v \in Writers, writer'[v].pc = "checked",
                      writer'[v].kind \in Store!CleansAfterMkdir
               PROVE  staging'[Store!Place(v)'] = Store!Absent
    BY DEF NothingForeignToRemove, Store!Absent, Store!CleansAfterMkdir
  <2>1. v # w
    BY <1>1, <1>4
  <2> QED BY <1>1, <2>1 DEF StoreInv, NothingForeignToRemove
<1> QED BY <1>6, <1>7, <1>8, <1>9, <1>10 DEF StoreInv

\* The ways in which a step leaves the record of its writer.
LEMMA WriterMoves ==
    ASSUME StoreAssumption, StoreInv, NEW w \in Writers, writer[w].pc # "idle", NEW pc
    PROVE  [writer EXCEPT ![w].pc = pc]
                = [writer EXCEPT ![w] = [pc |-> pc, kind |-> writer[w].kind,
                                         written |-> writer[w].written]]
<1>1. writer[w] \in [pc : {"checked", "writing", "cleaning", "emptied", "published"},
                     kind : ArtifactKinds, written : Nat]
  BY WriterAt
<1>2. [writer EXCEPT ![w].pc = pc] = [writer EXCEPT ![w] = [writer[w] EXCEPT !.pc = pc]]
  OBVIOUS
<1>3. [writer[w] EXCEPT !.pc = pc]
        = [pc |-> pc, kind |-> writer[w].kind, written |-> writer[w].written]
  BY <1>1
<1> QED BY <1>2, <1>3

LEMMA WriterAdvances ==
    ASSUME StoreAssumption, StoreInv, NEW w \in Writers, writer[w].pc = "writing", NEW n
    PROVE  [writer EXCEPT ![w].written = n]
                = [writer EXCEPT ![w] = [pc |-> "writing", kind |-> writer[w].kind, written |-> n]]
<1>1. writer[w] \in [pc : {"checked", "writing", "cleaning", "emptied", "published"},
                     kind : ArtifactKinds, written : Nat]
  BY WriterAt
<1>2. [writer EXCEPT ![w].written = n] = [writer EXCEPT ![w] = [writer[w] EXCEPT !.written = n]]
  OBVIOUS
<1>3. [writer[w] EXCEPT !.written = n]
        = [pc |-> "writing", kind |-> writer[w].kind, written |-> n]
  BY <1>1
<1> QED BY <1>2, <1>3

LEMMA StoreMakeStaging ==
    ASSUME StoreAssumption, StoreInv, NEW w \in Writers, Store!MakeStaging(w)
    PROVE  StoreInv'
<1> USE DEF Store!MakeStaging
<1> DEFINE k == writer[w].kind
<1>1. writer[w].pc = "checked" /\ writer[w].pc # "idle" /\ ~Owns(w)
  BY DEF Owns
<1>2. k \in ArtifactKinds /\ k \in Store!AllKinds /\ Store!Place(w) \in DOMAIN staging
        /\ writer[w].written \in Nat /\ writer[w].written <= Len(Store!Files(k))
  BY <1>1, WriterAt
<1>3. Store!PublishedVerifies' /\ DOMAIN destination' = ArtifactKinds /\ audited' \subseteq ArtifactKinds
  BY DEF StoreInv, StoreTyped, Store!PublishedVerifies
<1>4. CASE staging[Store!Place(w)] = Store!Absent
  <2>1. writer[w].written = 0
    BY <1>1 DEF StoreInv, StoreTyped, Store!Idle
  <2> DEFINE x == [pc |-> "writing", kind |-> k, written |-> 0]
  <2>2. writer' = [writer EXCEPT ![w] = x]
    BY <1>1, <1>4, <2>1, WriterMoves DEF Store!Step
  <2>3. staging' = [staging EXCEPT ![Store!Place(w)] = Store!Empty]
    BY <1>4
  <2>4. staging'[Store!Place(w)] = Store!Empty /\ Store!Empty # Store!Absent
    BY <1>2, <2>3 DEF Store!Empty, Store!Absent
  <2>5. Store!Empty = [present |-> TRUE, files |-> FilesOf(k, 0, w)]
    <3>1. 1..0 = {}
      OBVIOUS
    <3>2. FilesOf(k, 0, w) = {}
      BY <3>1 DEF FilesOf
    <3> QED BY <3>2 DEF Store!Empty
  <2> QED BY <1>1, <1>2, <1>3, <1>4, <2>1, <2>2, <2>3, <2>4, <2>5, StoreStepOf
<1>5. CASE staging[Store!Place(w)] # Store!Absent
  <2>1. writer' = [writer EXCEPT ![w] = Store!Idle]
    BY <1>1, <1>5 DEF Store!Stop, StoreInv, NothingForeignToRemove
  <2> QED BY <1>1, <1>2, <1>3, <1>5, <2>1, StoreStepOf
<1> QED BY <1>4, <1>5

LEMMA StoreWriteFile ==
    ASSUME StoreAssumption, StoreInv, NEW w \in Writers, Store!WriteFile(w)
    PROVE  StoreInv'
<1> USE DEF Store!WriteFile
<1> DEFINE k == writer[w].kind
           n == writer[w].written
<1>1. writer[w].pc = "writing" /\ writer[w].pc # "idle" /\ Owns(w)
  BY DEF Owns
<1>2. k \in ArtifactKinds /\ k \in Store!AllKinds /\ Store!Place(w) \in DOMAIN staging
        /\ n \in Nat /\ n + 1 <= Len(Store!Files(k))
  BY <1>1, WriterAt
<1>3. Store!PublishedVerifies' /\ DOMAIN destination' = ArtifactKinds /\ audited' \subseteq ArtifactKinds
  BY DEF StoreInv, StoreTyped, Store!PublishedVerifies
<1>4. staging[Store!Place(w)] = [present |-> TRUE, files |-> FilesOf(k, n, w)]
        /\ staging[Store!Place(w)] # Store!Absent
  BY <1>1 DEF StoreInv, WritesOwnFiles, OwnersAreAlone
<1> DEFINE x == [pc |-> "writing", kind |-> k, written |-> n + 1]
           y == [present |-> TRUE, files |-> FilesOf(k, n + 1, w)]
<1>5. writer' = [writer EXCEPT ![w] = x]
  <2>1. writer' = [writer EXCEPT ![w].written = n + 1] /\ n + 1 \in Nat
    BY <1>2, <1>4
  <2> QED BY <1>1, <2>1, WriterAdvances
<1>6. Store!Put(staging[Store!Place(w)], Store!Files(k)[n + 1], w) = y
  BY <1>2, <1>4, PutAdds
<1>7. staging' = [staging EXCEPT ![Store!Place(w)] = y]
  BY <1>4, <1>6
<1>8. staging'[Store!Place(w)] = y /\ y # Store!Absent
  BY <1>2, <1>7 DEF Store!Absent
<1>9. n + 1 \in Nat
  BY <1>2
<1> QED BY <1>1, <1>2, <1>3, <1>5, <1>7, <1>8, <1>9, StoreStepOf

LEMMA StorePublish ==
    ASSUME StoreAssumption, StoreInv, NEW w \in Writers, Store!Publish(w)
    PROVE  StoreInv'
<1> USE DEF Store!Publish
<1> DEFINE k == writer[w].kind
           n == writer[w].written
<1>1. writer[w].pc = "writing" /\ writer[w].pc # "idle" /\ Owns(w)
  BY DEF Owns
<1>2. k \in ArtifactKinds /\ k \in Store!AllKinds /\ Store!Place(w) \in DOMAIN staging
        /\ n \in Nat /\ n = Len(Store!Files(k))
  BY <1>1, WriterAt DEF Store!Complete
<1>3. staging[Store!Place(w)] = [present |-> TRUE, files |-> FilesOf(k, n, w)]
        /\ staging[Store!Place(w)] # Store!Absent
  BY <1>1 DEF StoreInv, WritesOwnFiles, OwnersAreAlone
<1>4. DOMAIN destination = ArtifactKinds /\ audited' \subseteq ArtifactKinds
  BY DEF StoreInv, StoreTyped
<1>5. CASE destination[k].files = {}
  <2>1. destination' = [destination EXCEPT ![k] = staging[Store!Place(w)]]
    BY <1>3, <1>5
  <2>2. Store!Verifies(k, staging[Store!Place(w)])
    BY <1>2, <1>3, WholeVerifies
  <2>3. destination'[k] = staging[Store!Place(w)]
          /\ \A j \in ArtifactKinds : j # k => destination'[j] = destination[j]
    BY <1>2, <1>4, <2>1
  <2>4. Store!PublishedVerifies'
    <3>1. ASSUME NEW j \in ArtifactKinds, destination'[j] # Store!Absent
          PROVE  Store!Verifies(j, destination'[j])
      <4>1. CASE j = k
        BY <2>2, <2>3, <4>1
      <4>2. CASE j # k
        BY <2>3, <3>1, <4>2 DEF StoreInv, Store!PublishedVerifies
      <4> QED BY <4>1, <4>2
    <3>2. \A j \in audited' : destination'[j] # Store!Absent
      BY <1>3, <1>4, <2>3 DEF StoreInv, Store!PublishedVerifies
    <3>3. ASSUME NEW j \in ArtifactKinds PROVE Store!Verifies(j, destination[j])' <=> Store!Verifies(j, destination'[j])
      BY DEF Store!Verifies
    <3> QED BY <3>1, <3>2, <3>3 DEF Store!PublishedVerifies, Store!Absent
  <2>5. staging' = [staging EXCEPT ![Store!Place(w)] = Store!Absent]
    BY <1>3, <1>5
  <2>6. \A j \in ArtifactKinds : destination[j] # Store!Absent => destination'[j] # Store!Absent
    BY <1>3, <2>3
  <2> DEFINE x == [pc |-> "published", kind |-> k, written |-> n]
  <2>7. CASE k = "data"
    <3>1. writer' = [writer EXCEPT ![w] = x]
      BY <1>1, <1>2, <1>3, <1>5, <2>7, WriterMoves DEF Store!Step
    <3>2. /\ x \in [pc : {"writing", "cleaning", "emptied", "published"}, kind : {k}, written : Nat]
          /\ x.written <= Len(Store!Files(k)) /\ x.pc = "published"
      BY <1>2
    <3>3. DOMAIN destination' = ArtifactKinds /\ destination'[k] # Store!Absent
      BY <1>3, <1>4, <2>1, <2>3
    <3>4. UNCHANGED crashes
      OBVIOUS
    <3> HIDE DEF Store!Publish, x
    <3> QED BY <1>1, <1>4, <2>4, <2>5, <2>6, <3>1, <3>2, <3>3, <3>4, StoreStepOf
  <2>8. CASE k # "data"
    <3>1. writer' = [writer EXCEPT ![w] = Store!Idle]
      BY <1>3, <1>5, <2>8 DEF Store!Stop
    <3>2. DOMAIN destination' = ArtifactKinds /\ UNCHANGED crashes
      BY <1>4, <2>1
    <3> HIDE DEF Store!Publish
    <3> QED BY <1>1, <1>4, <2>4, <2>5, <2>6, <3>1, <3>2, StoreStepOf
  <2> QED BY <2>7, <2>8
<1>6. CASE destination[k].files # {}
  <2> DEFINE x == [pc |-> "cleaning", kind |-> k, written |-> n]
  <2>1. writer' = [writer EXCEPT ![w] = x]
    BY <1>1, <1>2, <1>6, WriterMoves DEF Store!Step
  <2>2. UNCHANGED << destination, staging >>
    BY <1>6
  <2>3. Store!PublishedVerifies'
    BY <2>2 DEF StoreInv, Store!PublishedVerifies
  <2>4. /\ x \in [pc : {"writing", "cleaning", "emptied", "published"}, kind : {k}, written : Nat]
        /\ x.written <= Len(Store!Files(k)) /\ x.pc = "cleaning"
    BY <1>2
  <2>5. UNCHANGED crashes
    OBVIOUS
  <2> HIDE DEF Store!Publish, x
  <2> QED BY <1>1, <1>3, <1>4, <2>1, <2>2, <2>3, <2>4, <2>5, StoreStepOf
<1> QED BY <1>5, <1>6

LEMMA StoreFailWrite ==
    ASSUME StoreAssumption, StoreInv, NEW w \in Writers, Store!FailWrite(w)
    PROVE  StoreInv'
<1> USE DEF Store!FailWrite
<1> DEFINE k == writer[w].kind
           x == [pc |-> "cleaning", kind |-> k, written |-> writer[w].written]
<1>1. writer[w].pc = "writing" /\ writer[w].pc # "idle" /\ Owns(w)
  BY DEF Owns
<1>2. writer' = [writer EXCEPT ![w] = x]
  BY <1>1, WriterMoves, WriterAt DEF Store!Step
<1>3. UNCHANGED << destination, staging, audited, crashes >>
  OBVIOUS
<1>4. /\ x \in [pc : {"writing", "cleaning", "emptied", "published"}, kind : {k}, written : Nat]
      /\ x.written <= Len(Store!Files(k)) /\ x.pc = "cleaning"
  BY <1>1, WriterAt
<1>5. staging[Store!Place(w)] # Store!Absent
  BY <1>1 DEF StoreInv, OwnersAreAlone
<1>6. Store!PublishedVerifies' /\ DOMAIN destination' = ArtifactKinds /\ audited' \subseteq ArtifactKinds
  BY <1>3 DEF StoreInv, StoreTyped, Store!PublishedVerifies
<1> HIDE DEF x, Store!FailWrite
<1> QED BY <1>1, <1>2, <1>3, <1>4, <1>5, <1>6, StoreStepOf

LEMMA StoreRemoveFiles ==
    ASSUME StoreAssumption, StoreInv, NEW w \in Writers, Store!RemoveFiles(w)
    PROVE  StoreInv'
<1> USE DEF Store!RemoveFiles
<1> DEFINE k == writer[w].kind
           x == [pc |-> "emptied", kind |-> k, written |-> writer[w].written]
<1>1. writer[w].pc = "cleaning" /\ writer[w].pc # "idle" /\ Owns(w)
  BY DEF Owns
<1>2. staging[Store!Place(w)] # Store!Absent
  BY <1>1 DEF StoreInv, OwnersAreAlone
<1>3. writer' = [writer EXCEPT ![w] = x]
  BY <1>1, <1>2, WriterMoves, WriterAt DEF Store!Step
<1>4. staging' = [staging EXCEPT ![Store!Place(w)] = Store!Empty]
        /\ UNCHANGED << destination, audited, crashes >>
  BY <1>2
<1>5. /\ x \in [pc : {"writing", "cleaning", "emptied", "published"}, kind : {k}, written : Nat]
      /\ x.written <= Len(Store!Files(k)) /\ x.pc = "emptied"
  BY <1>1, WriterAt
<1>6. staging'[Store!Place(w)] # Store!Absent
  BY <1>1, <1>4, WriterAt, EmptyIsNotAbsent
<1>7. Store!PublishedVerifies' /\ DOMAIN destination' = ArtifactKinds /\ audited' \subseteq ArtifactKinds
  BY <1>4 DEF StoreInv, StoreTyped, Store!PublishedVerifies
<1> HIDE DEF x, Store!RemoveFiles
<1> QED BY <1>1, <1>3, <1>4, <1>5, <1>6, <1>7, StoreStepOf

LEMMA StoreRemoveDirectory ==
    ASSUME StoreAssumption, StoreInv, NEW w \in Writers, Store!RemoveDirectory(w)
    PROVE  StoreInv'
<1> USE DEF Store!RemoveDirectory
<1>1. writer[w].pc # "idle" /\ Owns(w)
  BY DEF Owns
<1>2. writer' = [writer EXCEPT ![w] = Store!Idle] /\ UNCHANGED << destination, audited, crashes >>
  BY DEF Store!Stop
<1>3. UNCHANGED staging \/ \E y : staging' = [staging EXCEPT ![Store!Place(w)] = y]
  OBVIOUS
<1>4. Store!PublishedVerifies' /\ DOMAIN destination' = ArtifactKinds /\ audited' \subseteq ArtifactKinds
  BY <1>2 DEF StoreInv, StoreTyped, Store!PublishedVerifies
<1> HIDE DEF Store!RemoveDirectory
<1> QED BY <1>1, <1>2, <1>3, <1>4, StoreStepOf

LEMMA StoreAudit ==
    ASSUME StoreAssumption, StoreInv, NEW w \in Writers, Store!Audit(w)
    PROVE  StoreInv'
<1> USE DEF Store!Audit
<1>1. writer[w].pc = "published" /\ writer[w].pc # "idle"
  OBVIOUS
<1>2. writer' = [writer EXCEPT ![w] = Store!Idle] /\ UNCHANGED << destination, staging, crashes >>
  BY DEF Store!Stop
<1>3. writer[w].kind \in ArtifactKinds /\ destination[writer[w].kind] # Store!Absent
  BY <1>1, WriterAt DEF StoreInv
<1>4. Store!PublishedVerifies' /\ DOMAIN destination' = ArtifactKinds /\ audited' \subseteq ArtifactKinds
  BY <1>2, <1>3 DEF StoreInv, StoreTyped, Store!PublishedVerifies
<1> HIDE DEF Store!Audit
<1> QED BY <1>1, <1>2, <1>4, StoreStepOf

LEMMA StoreCrash ==
    ASSUME StoreAssumption, StoreInv, NEW p, Store!Crash(p)
    PROVE  StoreInv'
<1> USE DEF Store!Crash
<1>1. \A w \in Writers : writer'[w] = writer[w] \/ writer'[w] = Store!Idle
  OBVIOUS
<1>2. Store!Idle.pc = "idle"
  BY DEF Store!Idle
<1>3. StoreTyped'
  BY <1>1, <1>2 DEF StoreInv, StoreTyped, Store!Processes, StoreAssumption
<1>4. \A w \in Writers : writer'[w].pc # "idle" =>
        writer'[w] = writer[w] /\ Store!Place(w)' = Store!Place(w)
  BY <1>1, <1>2 DEF Store!Place
<1>5. WritesOwnFiles' /\ OwnersAreAlone' /\ NothingForeignToRemove'
  BY <1>4 DEF StoreInv, WritesOwnFiles, OwnersAreAlone, NothingForeignToRemove, Owns
<1>6. (\A w \in Writers : writer[w].pc = "published" =>
            destination[writer[w].kind] # Store!Absent)'
  BY <1>4 DEF StoreInv
<1>7. Store!PublishedVerifies'
  BY DEF StoreInv, Store!PublishedVerifies
<1> QED BY <1>3, <1>5, <1>6, <1>7 DEF StoreInv

LEMMA StoreStep == StoreAssumption /\ StoreInv /\ [Store!Next]_Store!vars => StoreInv'
<1> SUFFICES ASSUME StoreAssumption, StoreInv, [Store!Next]_Store!vars PROVE StoreInv'
  OBVIOUS
<1>1. CASE Store!Next
  BY <1>1, StoreBegin, StoreMakeStaging, StoreWriteFile, StorePublish, StoreFailWrite,
     StoreRemoveFiles, StoreRemoveDirectory, StoreAudit, StoreCrash DEF Store!Next
<1>2. CASE UNCHANGED Store!vars
  BY <1>2 DEF Store!vars, StoreInv, StoreTyped, WritesOwnFiles, OwnersAreAlone,
     NothingForeignToRemove, Owns, Store!Place, Store!PublishedVerifies, Store!Processes
<1> QED BY <1>1, <1>2

\* The invariant of the part, in the composition.
LEMMA StoreHolds == StorageSpec => [](part = "store" => StoreInv)
<1>1. StorageInit => (part = "store" => StoreInv)
  BY StorageAssumption, StoreInit DEF StorageInit
<1>2. (part = "store" => StoreInv) /\ [StorageNext]_StorageVars => (part = "store" => StoreInv)'
  <2> SUFFICES ASSUME part = "store" => StoreInv, [StorageNext]_StorageVars, part' = "store"
               PROVE  StoreInv'
    OBVIOUS
  <2>1. part = "store" /\ [Store!Next]_(Store!vars)
    BY DEF StorageNext, StoreNext, FilesNext, CapturesNext, SegmentNext, DataFilesNext, GatesNext,
           SchemaNext, RowSessionsNext, StorageVars, StoreVars, FileVars, CaptureVars, SegmentVars,
           DataFileVars, GateVars, SchemaVars, SessionVars, Store!vars
  <2> QED BY <2>1, StorageAssumption, StoreStep
<1> QED BY <1>1, <1>2, PTL DEF StorageSpec

\* Each writer is at a step of save, with as many files written as its kind has
\* at most, and audit records are about the kinds of bundles.
THEOREM StoreTypesCorrect == ASSUME StoreAssumption PROVE Store!Spec => []Store!TypeOK
<1>1. StoreInv => Store!TypeOK
  BY DEF StoreInv, StoreTyped, Store!TypeOK, Store!Idle
<1> QED BY StoreInit, StoreStep, <1>1, PTL DEF Store!Spec

\* A version at its destination has exactly the files of its kind, all from one
\* writer, whichever writers failed or died meanwhile, and an audit record stands
\* for a published version.
THEOREM PublishedIsVerified == StorageSpec => [](part = "store" => Store!PublishedVerifies)
<1>1. StoreInv => Store!PublishedVerifies
  BY DEF StoreInv
<1> QED BY <1>1, StoreHolds, PTL

\* The rename of a staging directory, if it succeeds, puts a whole version of its
\* writer where there was none.
LEMMA PublishCreates ==
    ASSUME StoreAssumption, StoreInv, NEW w \in Writers, Store!Publish(w),
           destination[writer[w].kind].files = {}
    PROVE  /\ writer[w].kind \in ArtifactKinds
           /\ destination[writer[w].kind] = Store!Absent
           /\ UNCHANGED audited
           /\ \E d : /\ destination' = [destination EXCEPT ![writer[w].kind] = d]
                     /\ d # Store!Absent /\ Store!Verifies(writer[w].kind, d)
                     /\ AuthorOf(d) = w
<1> DEFINE k == writer[w].kind
           d == staging[Store!Place(w)]
<1>1. writer[w].pc = "writing" /\ writer[w].pc # "idle" /\ Owns(w)
  BY DEF Owns, Store!Publish
<1>2. k \in ArtifactKinds /\ k \in Store!AllKinds /\ writer[w].written = Len(Store!Files(k))
  BY <1>1, WriterAt DEF Store!Complete, Store!Publish
<1>3. d.files = FilesOf(k, Len(Store!Files(k)), w) /\ d # Store!Absent
  <2>1. d # Store!Absent
    BY <1>1 DEF StoreInv, OwnersAreAlone
  <2>2. d = [present |-> TRUE, files |-> FilesOf(k, writer[w].written, w)]
    BY <1>1 DEF StoreInv, WritesOwnFiles
  <2> HIDE DEF d
  <2> QED BY <1>2, <2>1, <2>2
<1>4. Store!Verifies(k, d)
  BY <1>2, <1>3, WholeVerifies
<1>5. Len(Store!Files(k)) > 0 /\ Len(Store!Files(k)) \in Nat
  BY <1>2, FilesAreNamed
<1>6. AuthorOf(d) = w
  <2>1. << Store!Files(k)[1], w >> \in d.files
    BY <1>3, <1>5 DEF FilesOf
  <2>2. \A e \in d.files : e[2] = w
    BY <1>3 DEF FilesOf
  <2>3. \A v \in Writers : (\A e \in d.files : e[2] = v) => v = w
    BY <2>1
  <2> HIDE DEF d
  <2> QED BY <2>2, <2>3 DEF AuthorOf
<1>7. destination' = [destination EXCEPT ![k] = d] /\ UNCHANGED audited
  BY <1>3 DEF Store!Publish
<1>8. destination[k] = Store!Absent
  <2>1. SUFFICES ASSUME destination[k] # Store!Absent PROVE FALSE
    OBVIOUS
  <2>2. {e[1] : e \in destination[k].files} = Store!ToSet(Store!Files(k))
    BY <1>2, <2>1 DEF StoreInv, Store!PublishedVerifies, Store!Verifies
  <2>3. Store!Files(k)[1] \in Store!ToSet(Store!Files(k))
    BY <1>2, FilesAreNamed DEF Store!ToSet
  <2>4. PICK e \in destination[k].files : Store!Files(k)[1] = e[1]
    BY <2>2, <2>3
  <2> QED BY <2>4
<1> HIDE DEF d
<1> QED BY <1>2, <1>3, <1>4, <1>6, <1>7, <1>8

\* A version that was published is never replaced or taken back: what is at its
\* path stays as it is, whoever writes the same version again.
THEOREM PublishedVersionsStay ==
    ASSUME StoreAssumption
    PROVE  Store!Spec => [][\A k \in ArtifactKinds :
                destination[k] # Store!Absent => destination'[k] = destination[k]]_Store!vars
<1>1. ASSUME StoreInv, Store!Next, NEW k \in ArtifactKinds, destination[k] # Store!Absent
      PROVE  destination'[k] = destination[k]
  <2>1. ASSUME NEW w \in Writers, Store!Publish(w) PROVE destination'[k] = destination[k]
    <3>1. CASE destination[writer[w].kind].files = {}
      <4>1. /\ writer[w].kind # k
            /\ \E d : destination' = [destination EXCEPT ![writer[w].kind] = d]
        BY <1>1, <2>1, <3>1, PublishCreates
      <4> QED BY <4>1
    <3>2. CASE destination[writer[w].kind].files # {}
      BY <2>1, <3>2 DEF Store!Publish
    <3> QED BY <3>1, <3>2
  <2>2. CASE UNCHANGED destination
    BY <2>2
  <2> QED BY <1>1, <2>1, <2>2
          DEF Store!Next, Store!Begin, Store!MakeStaging, Store!WriteFile, Store!FailWrite,
              Store!RemoveFiles, Store!RemoveDirectory, Store!Audit, Store!Crash
<1>2. StoreInv /\ [Store!Next]_Store!vars =>
        [\A k \in ArtifactKinds : destination[k] # Store!Absent => destination'[k] = destination[k]]_Store!vars
  BY <1>1
<1> QED BY StoreInit, StoreStep, <1>2, PTL DEF Store!Spec

\* What AtomicVersions sees of a version depends on its directory only.
LEMMA SeenFrom ==
    ASSUME UNCHANGED part, NEW k, NEW d, destination'[k] = d
    PROVE  SeenAs(k)' = IF part # "store" \/ d = Store!Absent THEN [state |-> "absent"]
                        ELSE IF Store!Verifies(k, d)
                             THEN [state |-> "whole", by |-> AuthorOf(d)]
                             ELSE [state |-> "torn"]
<1>1. Store!Verifies(k, destination[k])' <=> Store!Verifies(k, d)
  BY DEF Store!Verifies
<1>2. AuthorOf(destination[k])' = AuthorOf(d)
  BY DEF AuthorOf
<1> QED BY <1>1, <1>2 DEF SeenAs, Store!Absent

\* Every step of a writer creates a version, records one or is not seen.
LEMMA StoreStepSeen ==
    ASSUME StoreAssumption, StoreInv, part = "store", UNCHANGED part, Store!Next
    PROVE  [Versions!Next]_<< [k \in ArtifactKinds |-> SeenAs(k)],
                              IF part = "store" THEN audited ELSE {} >>
<1> DEFINE seen == [k \in ArtifactKinds |-> SeenAs(k)]
<1>1. ASSUME UNCHANGED destination PROVE UNCHANGED seen
  BY <1>1, SeenFrom DEF SeenAs
<1>2. CASE UNCHANGED << destination, audited >>
  BY <1>1, <1>2
<1>3. ASSUME NEW w \in Writers, Store!Publish(w), destination[writer[w].kind].files = {}
      PROVE  Versions!Next
  <2>1. PICK k \in ArtifactKinds : k = writer[w].kind
    BY <1>3, PublishCreates
  <2>2. destination[k] = Store!Absent /\ UNCHANGED audited
    BY <1>3, <2>1, PublishCreates
  <2>3. PICK d : /\ destination' = [destination EXCEPT ![k] = d] /\ d # Store!Absent
                 /\ Store!Verifies(k, d) /\ AuthorOf(d) = w
    BY <1>3, <2>1, PublishCreates
  <2>4. DOMAIN destination = ArtifactKinds
    BY DEF StoreInv, StoreTyped
  <2>5. SeenAs(k) = [state |-> "absent"]
    BY <2>2 DEF SeenAs
  <2>6. SeenAs(k)' = [state |-> "whole", by |-> w]
    BY <2>3, <2>4, SeenFrom
  <2>7. \A j \in ArtifactKinds : j # k => SeenAs(j)' = SeenAs(j)
    BY <2>3, <2>4, SeenFrom DEF SeenAs
  <2>8. seen' = [seen EXCEPT ![k] = [state |-> "whole", by |-> w]]
    BY <2>6, <2>7
  <2>9. Versions!Create(k, w)
    BY <2>2, <2>5, <2>8 DEF Versions!Create, Versions!Absent, Versions!Whole
  <2> QED BY <2>9 DEF Versions!Next
<1>4. ASSUME NEW w \in Writers, Store!Audit(w) PROVE Versions!Next \/ UNCHANGED << seen, audited >>
  <2>1. writer[w].pc = "published" /\ writer[w].pc # "idle"
    BY <1>4 DEF Store!Audit
  <2>2. PICK k \in ArtifactKinds : k = writer[w].kind
    BY <2>1, WriterAt
  <2>3. destination[k] # Store!Absent
    BY <2>1, <2>2 DEF StoreInv
  <2>4. SeenAs(k) # [state |-> "absent"]
    BY <2>3 DEF SeenAs
  <2>5. UNCHANGED destination /\ (UNCHANGED audited \/ audited' = audited \union {k})
    BY <1>4, <2>2 DEF Store!Audit
  <2>6. UNCHANGED seen
    BY <1>1, <2>5
  <2>7. audited' = audited \union {k} => Versions!Record(k)
    BY <2>4, <2>6 DEF Versions!Record, Versions!Absent
  <2> QED BY <2>5, <2>6, <2>7 DEF Versions!Next
<1>5. \/ UNCHANGED << destination, audited >>
      \/ \E w \in Writers : Store!Publish(w) /\ destination[writer[w].kind].files = {}
      \/ \E w \in Writers : Store!Audit(w)
  BY DEF Store!Next, Store!Begin, Store!MakeStaging, Store!WriteFile, Store!Publish,
         Store!FailWrite, Store!RemoveFiles, Store!RemoveDirectory, Store!Crash
<1> QED BY <1>2, <1>3, <1>4, <1>5

\* Writers that fail, die between two files and start again under the same process
\* id implement AtomicVersions: a version appears whole, from one writer, is never
\* replaced or taken back, and is recorded only then.
THEOREM VersionsImplemented == StorageSpec => VersionsAreAtomic
<1>1. StorageInit => Versions!Init
  <2> SUFFICES ASSUME StorageInit PROVE Versions!Init
    OBVIOUS
  <2>1. \A k \in ArtifactKinds : SeenAs(k) = Versions!Absent
    BY DEF StorageInit, Store!Init, SeenAs, Versions!Absent
  <2>2. (IF part = "store" THEN audited ELSE {}) = {}
    BY DEF StorageInit, Store!Init
  <2> QED BY <2>1, <2>2 DEF Versions!Init
<1>2. (part = "store" => StoreInv) /\ [StorageNext]_StorageVars =>
        [Versions!Next]_<< [k \in ArtifactKinds |-> SeenAs(k)],
                           IF part = "store" THEN audited ELSE {} >>
  <2> SUFFICES ASSUME part = "store" => StoreInv, [StorageNext]_StorageVars
               PROVE  [Versions!Next]_<< [k \in ArtifactKinds |-> SeenAs(k)],
                                         IF part = "store" THEN audited ELSE {} >>
    OBVIOUS
  <2>1. UNCHANGED part
    BY DEF StorageNext, StoreNext, FilesNext, CapturesNext, SegmentNext, DataFilesNext, GatesNext,
           SchemaNext, RowSessionsNext, StorageVars
  <2>2. CASE part # "store"
    BY <2>1, <2>2 DEF SeenAs
  <2>3. CASE part = "store" /\ Store!Next
    BY <2>1, <2>3, StorageAssumption, StoreStepSeen
  <2>4. CASE UNCHANGED StorageVars
    <3>1. UNCHANGED << destination, audited >>
      BY <2>4 DEF StorageVars, StoreVars
    <3>2. \A k \in ArtifactKinds : SeenAs(k)' = SeenAs(k)
      BY <2>1, <3>1, SeenFrom DEF SeenAs
    <3> QED BY <2>1, <3>1, <3>2
  <2> QED BY <2>2, <2>3, <2>4
          DEF StorageNext, StoreNext, FilesNext, CapturesNext, SegmentNext, DataFilesNext, GatesNext,
              SchemaNext, RowSessionsNext
<1> QED BY <1>1, <1>2, StoreHolds, PTL DEF StorageSpec, VersionsAreAtomic, Versions!Spec

-----------------------------------------------------------------------------
(* Files of the preparation commands.                                      *)

\* The names of a workflow and of a download, one by one.
LEMMA NamesOfWorkflow ==
    /\ DOMAIN DataFiles!Names("workflow") = 1..4 /\ Len(DataFiles!Names("workflow")) = 4
    /\ DataFiles!Names("workflow")[1] = "canonical" /\ DataFiles!Names("workflow")[2] = "train"
    /\ DataFiles!Names("workflow")[3] = "manifest" /\ DataFiles!Names("workflow")[4] = "statistics"
<1>1. DataFiles!Names("workflow") = << "canonical", "train" >> \o << "manifest", "statistics" >>
  BY DEF DataFiles!Names, DataFiles!Partitions, DataFiles!Reports
<1>2. ASSUME NEW x, NEW y
      PROVE  /\ << x, y >> \in Seq({x, y}) /\ Len(<< x, y >>) = 2
             /\ << x, y >>[1] = x /\ << x, y >>[2] = y
  <2>1. << x, y >> \in [1..2 -> {x, y}]
    OBVIOUS
  <2>2. << x, y >> \in Seq({x, y})
    BY <2>1, SeqDef
  <2> QED BY <2>2
<1> DEFINE p == << "canonical", "train" >>
           r == << "manifest", "statistics" >>
           S == {"canonical", "train", "manifest", "statistics"}
<1>3. p \in Seq(S) /\ Len(p) = 2 /\ p[1] = "canonical" /\ p[2] = "train"
  BY <1>2, SeqMonotonic, {"canonical", "train"} \subseteq S
<1>4. r \in Seq(S) /\ Len(r) = 2 /\ r[1] = "manifest" /\ r[2] = "statistics"
  BY <1>2, SeqMonotonic, {"manifest", "statistics"} \subseteq S
<1> HIDE DEF p, r, S
<1>5. /\ p \o r \in Seq(S) /\ Len(p \o r) = Len(p) + Len(r)
      /\ \A i \in 1 .. Len(p) + Len(r) :
            (p \o r)[i] = IF i <= Len(p) THEN p[i] ELSE r[i - Len(p)]
  BY <1>3, <1>4, ConcatProperties
<1>6. Len(p \o r) = 4 /\ DOMAIN (p \o r) = 1..4
  BY <1>3, <1>4, <1>5, LenProperties
<1>7. /\ (p \o r)[1] = "canonical" /\ (p \o r)[2] = "train"
      /\ (p \o r)[3] = "manifest" /\ (p \o r)[4] = "statistics"
  BY <1>3, <1>4, <1>5
<1> QED BY <1>1, <1>6, <1>7 DEF p, r

LEMMA NamesOfDownload ==
    /\ DOMAIN DataFiles!Names("download") = 1..1 /\ Len(DataFiles!Names("download")) = 1
    /\ DataFiles!Names("download")[1] = "raw"
<1>1. DataFiles!Names("download") = << "raw" >>
  BY DEF DataFiles!Names, DataFiles!Raw
<1> QED BY <1>1

LEMMA NameSets ==
    /\ DataFiles!AllNames = {"canonical", "train", "manifest", "statistics", "raw"}
    /\ DataFiles!Linked = {"canonical", "train", "raw"}
<1>1. DataFiles!ToSet(DataFiles!Names("workflow")) = {"canonical", "train", "manifest", "statistics"}
  BY NamesOfWorkflow DEF DataFiles!ToSet
<1>2. DataFiles!ToSet(DataFiles!Names("download")) = {"raw"}
  BY NamesOfDownload DEF DataFiles!ToSet
<1>3. DataFiles!ToSet(DataFiles!Partitions) = {"canonical", "train"}
  <2>1. /\ DOMAIN << "canonical", "train" >> = 1..2
        /\ << "canonical", "train" >>[1] = "canonical" /\ << "canonical", "train" >>[2] = "train"
    OBVIOUS
  <2> QED BY <2>1 DEF DataFiles!ToSet, DataFiles!Partitions
<1>4. DataFiles!ToSet(DataFiles!Raw) = {"raw"}
  <2>1. DOMAIN << "raw" >> = 1..1 /\ << "raw" >>[1] = "raw"
    OBVIOUS
  <2> QED BY <2>1 DEF DataFiles!ToSet, DataFiles!Raw
<1> QED BY <1>1, <1>2, <1>3, <1>4 DEF DataFiles!AllNames, DataFiles!Linked

LEMMA NamesAreDistinct ==
    ASSUME NEW kind \in DataFiles!Kinds
    PROVE  LET N == DataFiles!Names(kind)
           IN  /\ Len(N) \in 1..4 /\ DOMAIN N = 1..Len(N)
               /\ \A i \in 1..Len(N) : N[i] \in DataFiles!AllNames
               /\ \A i, j \in 1..Len(N) : N[i] = N[j] => i = j
<1>1. CASE kind = "workflow"
  <2>1. \A i \in 1..4 : i = 1 \/ i = 2 \/ i = 3 \/ i = 4
    OBVIOUS
  <2> QED BY <1>1, <2>1, NamesOfWorkflow, NameSets
<1>2. CASE kind = "download"
  <2>1. \A i \in 1..1 : i = 1
    OBVIOUS
  <2> QED BY <1>2, <2>1, NamesOfDownload, NameSets
<1> QED BY <1>1, <1>2 DEF DataFiles!Kinds

Command == [pc : {"check", "open", "write", "link", "unlink"}, kind : DataFiles!Kinds,
            at : 1..4, linked : BOOLEAN]

Underway(k) == k # DataFiles!Idle /\ k # DataFiles!Over
Place(k) == DataFiles!Names(k.kind)[k.at]

\* Command c has not yet come to n: no file of its own can be found there.
Unopened(c, n) == n \in DataFiles!Linked => file[n] # c /\ temporary[n] # c

\* What command c linked: a file at least, its own unless its temporary file was removed.
Found(c, n) == file[n] # DataFiles!None /\ (n \notin robbed => file[n] = c)

\* Command c is done with n.
Made(c, n) ==
    IF n \in DataFiles!Linked THEN Found(c, n) ELSE file[n] = c /\ content[<< c, n >>] = "whole"

\* What command c, in state k, has made of the name n it is at.
Spot(c, k, n) ==
    /\ k.pc \in {"check", "open"} => Unopened(c, n)
    /\ k.pc \in {"link", "unlink"} => n \in DataFiles!Linked
    /\ k.pc = "link" => content[<< c, n >>] = "whole"
    /\ k.pc \in {"write", "link"} /\ n \in DataFiles!Linked \ robbed => temporary[n] = c
    /\ k.pc = "write" /\ n \notin DataFiles!Linked => file[n] = c
    /\ k.linked => k.pc = "unlink" /\ Found(c, n)

\* And of the names before and after it.
Around(c, k) ==
    LET N == DataFiles!Names(k.kind)
    IN  /\ \A j \in 1..Len(N) : j < k.at => Made(c, N[j])
        /\ \A j \in 1..Len(N) : j > k.at => Unopened(c, N[j])

CommandOK(c, k) ==
    Underway(k) =>
        /\ k \in Command /\ k.at <= Len(DataFiles!Names(k.kind))
        /\ Spot(c, k, Place(k)) /\ Around(c, k)

DataFilesTyped ==
    /\ file \in [DataFiles!AllNames -> Commands \union {DataFiles!None}]
    /\ temporary \in [DataFiles!Linked -> Commands \union {DataFiles!None}]
    /\ content \in [Commands \X DataFiles!AllNames -> {"none", "partial", "whole"}]
    /\ robbed \subseteq DataFiles!Linked
    /\ DOMAIN call = Commands /\ faults \in 0..Faults

Published ==
    /\ \A n \in DataFiles!Linked \ robbed :
          file[n] # DataFiles!None => content[<< file[n], n >>] = "whole"
    /\ file["manifest"] # DataFiles!None =>
          Found(file["manifest"], "canonical") /\ Found(file["manifest"], "train")
    /\ file["statistics"] # DataFiles!None =>
          /\ file["manifest"] = file["statistics"]
          /\ content[<< file["manifest"], "manifest" >>] = "whole"

DataFilesInv ==
    DataFilesTyped /\ Published /\ \A c \in Commands : CommandOK(c, call[c])

LEMMA PublishedSpelledOut == Published => DataFiles!PublishedIsWhole
<1>1. /\ DOMAIN DataFiles!Partitions = {1, 2}
      /\ DataFiles!Partitions[1] = "canonical" /\ DataFiles!Partitions[2] = "train"
  <2>1. /\ DOMAIN << "canonical", "train" >> = 1..2
        /\ << "canonical", "train" >>[1] = "canonical" /\ << "canonical", "train" >>[2] = "train"
    OBVIOUS
  <2>2. 1..2 = {1, 2}
    OBVIOUS
  <2> QED BY <2>1, <2>2 DEF DataFiles!Partitions
<1> QED BY <1>1 DEF DataFiles!PublishedIsWhole, Published, Found

LEMMA DataFilesInit == DataFilesAssumption /\ DataFiles!Init => DataFilesInv
<1> SUFFICES ASSUME DataFilesAssumption, DataFiles!Init PROVE DataFilesInv
  OBVIOUS
<1>1. DataFilesTyped
  BY DEF DataFilesAssumption, DataFiles!Init, DataFilesTyped
<1>2. Published
  BY NameSets DEF DataFiles!Init, Published
<1>3. \A c \in Commands : ~Underway(call[c])
  BY DEF DataFiles!Init, Underway
<1> QED BY <1>1, <1>2, <1>3 DEF DataFilesInv, CommandOK

\* A command that is under way, and its name.
LEMMA CommandAt ==
    ASSUME DataFilesAssumption, DataFilesInv, NEW c \in Commands, Underway(call[c])
    PROVE  LET k == call[c]
               N == DataFiles!Names(k.kind)
           IN  /\ k \in Command /\ k.at \in 1..Len(N) /\ Len(N) \in 1..4
               /\ \A j \in 1..Len(N) : N[j] \in DataFiles!AllNames
               /\ \A i, j \in 1..Len(N) : N[i] = N[j] => i = j
               /\ Spot(c, k, Place(k)) /\ Around(c, k)
               /\ Place(k) \in DataFiles!AllNames /\ DataFiles!Name(c) = Place(k) /\ Place(k) = N[k.at]
               /\ c # DataFiles!None /\ DataFilesTyped /\ Published
<1>1. /\ call[c] \in Command /\ call[c].at <= Len(DataFiles!Names(call[c].kind))
      /\ Spot(c, call[c], Place(call[c])) /\ Around(c, call[c])
  BY DEF DataFilesInv, CommandOK
<1>2. call[c].kind \in DataFiles!Kinds /\ call[c].at \in 1..4
  BY <1>1 DEF Command
<1>3. PICK N : N = DataFiles!Names(call[c].kind)
  OBVIOUS
<1>4. /\ Len(N) \in 1..4 /\ \A j \in 1..Len(N) : N[j] \in DataFiles!AllNames
      /\ \A i, j \in 1..Len(N) : N[i] = N[j] => i = j
  BY <1>2, <1>3, NamesAreDistinct
<1>5. call[c].at \in 1..Len(N)
  BY <1>1, <1>2, <1>3, <1>4
<1> QED BY <1>1, <1>3, <1>4, <1>5 DEF DataFilesInv, DataFilesAssumption, DataFiles!Name, Place

-----------------------------------------------------------------------------
\* What a step of command c at the name n leaves alone.
Moves(c, n) ==
    /\ \A m \in DataFiles!AllNames : m # n =>
            /\ file'[m] = file[m] /\ (m \in robbed' => m \in robbed)
            /\ m \in DataFiles!Linked => temporary'[m] = temporary[m]
    /\ \A d \in Commands, m \in DataFiles!AllNames : d # c \/ m # n =>
            content'[<< d, m >>] = content[<< d, m >>]
    /\ file[n] # DataFiles!None => file'[n] = file[n]
    /\ n \in DataFiles!Linked =>
            /\ file'[n] \in {file[n], temporary[n]}
            /\ temporary'[n] \in {temporary[n], c, DataFiles!None}
    /\ robbed \subseteq robbed'
    /\ \A d \in Commands : d # c => call'[d] = call[d]
    /\ \A d \in Commands :
            /\ d # c /\ Underway(call[d]) /\ call[d].pc \in {"write", "link"} /\ Place(call[d]) = n
            /\ n \in DataFiles!Linked \ robbed' /\ temporary[n] = d
            => temporary'[n] = d

\* What command d had made or not yet opened stays so, at the names the step is not about.
LEMMA MadeStays ==
    ASSUME NEW c \in Commands, NEW n \in DataFiles!AllNames, Moves(c, n),
           NEW d \in Commands, NEW m \in DataFiles!AllNames, d # c \/ m # n, d # DataFiles!None
    PROVE  /\ Made(d, m) => Made(d, m)'
           /\ Found(d, m) => Found(d, m)'
           /\ Unopened(d, m) => Unopened(d, m)'
<1>1. \A x \in DataFiles!Linked : x \in DataFiles!AllNames
  BY NameSets
<1>2. content'[<< d, m >>] = content[<< d, m >>] /\ (m \in robbed => m \in robbed')
  BY DEF Moves
<1>3. CASE m # n
  BY <1>1, <1>2, <1>3 DEF Moves, Made, Found, Unopened
<1>4. CASE m = n
  <2>1. file[m] # DataFiles!None => file'[m] = file[m]
    BY <1>4 DEF Moves
  <2>2. d # c
    BY <1>4
  <2>3. Unopened(d, m) => Unopened(d, m)'
    BY <1>4, <2>2 DEF Moves, Unopened
  <2> QED BY <1>2, <2>1, <2>3 DEF Made, Found
<1> QED BY <1>3, <1>4

\* The other commands keep what they rely on.
LEMMA OthersKeep ==
    ASSUME DataFilesAssumption, DataFilesInv, NEW c \in Commands, NEW n \in DataFiles!AllNames,
           Moves(c, n), NEW d \in Commands, d # c
    PROVE  CommandOK(d, call[d])'
<1>1. call'[d] = call[d]
  BY DEF Moves
<1>2. PICK k : k = call[d]
  OBVIOUS
<1> SUFFICES ASSUME Underway(k) PROVE CommandOK(d, k)'
  BY <1>1, <1>2 DEF CommandOK
<1>3. PICK N : N = DataFiles!Names(k.kind)
  OBVIOUS
<1>4. /\ k \in Command /\ k.at \in 1..Len(N)
      /\ \A j \in 1..Len(N) : N[j] \in DataFiles!AllNames
      /\ Spot(d, k, Place(k)) /\ Around(d, k) /\ Place(k) \in DataFiles!AllNames
      /\ d # DataFiles!None /\ DataFilesTyped
  BY <1>2, <1>3, CommandAt
<1>5. Around(d, k)'
  BY <1>3, <1>4, MadeStays DEF Around
<1>6. PICK m \in DataFiles!AllNames : m = Place(k)
  BY <1>4
<1>7. /\ Unopened(d, m) => Unopened(d, m)'
      /\ Found(d, m) => Found(d, m)'
  BY <1>4, MadeStays
<1>8. content'[<< d, m >>] = content[<< d, m >>]
  BY DEF Moves
<1>9. file[m] = d => file'[m] = d
  BY <1>4 DEF Moves
<1>10. ASSUME k.pc \in {"write", "link"}, m \in DataFiles!Linked \ robbed' PROVE temporary'[m] = d
  <2>1. m \in DataFiles!Linked \ robbed
    BY <1>10 DEF Moves
  <2>2. temporary[m] = d
    BY <1>4, <1>6, <1>10, <2>1 DEF Spot
  <2>3. CASE m = n
    BY <1>2, <1>6, <1>10, <2>2, <2>3 DEF Moves
  <2>4. CASE m # n
    BY <2>1, <2>2, <2>4 DEF Moves
  <2> QED BY <2>3, <2>4
<1>11. Spot(d, k, m)'
  <2>1. Spot(d, k, m)
    BY <1>4, <1>6
  <2> QED BY <1>7, <1>8, <1>9, <1>10, <2>1 DEF Spot
<1>12. k.at <= Len(DataFiles!Names(k.kind))
  <2>1. Len(N) \in 1..4
    BY <1>2, <1>3, CommandAt
  <2> QED BY <1>3, <1>4, <2>1
<1> QED BY <1>4, <1>5, <1>6, <1>11, <1>12 DEF CommandOK

\* A command ends, goes on at its name, or is done with it and comes to the next.
LEMMA CommandSteps ==
    ASSUME DataFilesAssumption, DataFilesInv, NEW c \in Commands, Underway(call[c]),
           NEW n, n = Place(call[c]), Moves(c, n), NEW x, call' = [call EXCEPT ![c] = x],
           DataFilesTyped', Published',
           \/ x = DataFiles!Over
           \/ /\ x \in Command /\ x.kind = call[c].kind /\ x.at = call[c].at
              /\ Spot(c, x, n)'
           \/ /\ x \in Command /\ x.kind = call[c].kind /\ x.at = call[c].at + 1
              /\ x.at <= Len(DataFiles!Names(x.kind)) /\ x.pc = "check" /\ x.linked = FALSE
              /\ Made(c, n)'
    PROVE  DataFilesInv'
<1>1. PICK k, N, i : k = call[c] /\ N = DataFiles!Names(k.kind) /\ n = Place(k) /\ i = k.at
  OBVIOUS
<1>2. /\ k \in Command /\ i \in 1..Len(N) /\ Len(N) \in 1..4
      /\ \A j \in 1..Len(N) : N[j] \in DataFiles!AllNames
      /\ \A j, l \in 1..Len(N) : N[j] = N[l] => j = l
      /\ Around(c, k) /\ n \in DataFiles!AllNames /\ n = N[i] /\ c # DataFiles!None
      /\ DataFilesTyped
  BY <1>1, CommandAt
<1>3. call'[c] = x
  BY <1>2 DEF DataFilesTyped
<1>4. \A d \in Commands : d # c => CommandOK(d, call[d])'
  BY <1>1, <1>2, OthersKeep
<1>5. /\ \A j \in 1..Len(N) : j < i => Made(c, N[j])'
      /\ \A j \in 1..Len(N) : j > i => Unopened(c, N[j])'
  <2>1. ASSUME NEW j \in 1..Len(N), j # i
        PROVE  (Made(c, N[j]) => Made(c, N[j])') /\ (Unopened(c, N[j]) => Unopened(c, N[j])')
    <3>1. N[j] \in DataFiles!AllNames /\ N[j] # n
      BY <1>2, <2>1
    <3> QED BY <1>1, <1>2, <3>1, MadeStays
  <2>2. ASSUME NEW j \in 1..Len(N), j < i PROVE Made(c, N[j])'
    <3>1. j # i /\ Made(c, N[j])
      BY <1>1, <1>2, <2>2 DEF Around
    <3> QED BY <2>1, <3>1
  <2>3. ASSUME NEW j \in 1..Len(N), j > i PROVE Unopened(c, N[j])'
    <3>1. j # i /\ Unopened(c, N[j])
      BY <1>1, <1>2, <2>3 DEF Around
    <3> QED BY <2>1, <3>1
  <2> QED BY <2>2, <2>3
<1>6. CommandOK(c, x)'
  <2>1. CASE x = DataFiles!Over
    BY <2>1 DEF CommandOK, Underway
  <2>2. CASE x \in Command /\ x.kind = k.kind /\ x.at = i /\ Spot(c, x, n)'
    <3>1. Place(x) = n /\ DataFiles!Names(x.kind) = N
      BY <1>1, <2>2 DEF Place
    <3>2. Around(c, x)'
      BY <1>5, <2>2, <3>1 DEF Around
    <3>3. x.at <= Len(DataFiles!Names(x.kind))
      BY <1>2, <2>2, <3>1
    <3> QED BY <2>2, <3>1, <3>2, <3>3 DEF CommandOK
  <2>3. CASE /\ x \in Command /\ x.kind = k.kind /\ x.at = i + 1
             /\ x.at <= Len(DataFiles!Names(x.kind)) /\ x.pc = "check" /\ x.linked = FALSE
             /\ Made(c, n)'
    <3>1. DataFiles!Names(x.kind) = N /\ i + 1 \in 1..Len(N) /\ Place(x) = N[i + 1]
      <4>1. DataFiles!Names(x.kind) = N /\ Place(x) = N[i + 1]
        BY <1>1, <2>3 DEF Place
      <4>2. i + 1 <= Len(N)
        BY <2>3, <4>1
      <4> QED BY <1>2, <4>1, <4>2
    <3>2. \A j \in 1..Len(N) : j < i + 1 => Made(c, N[j])'
      <4>1. \A j \in 1..Len(N) : j < i + 1 => j < i \/ j = i
        BY <1>2
      <4> QED BY <1>2, <1>5, <2>3, <4>1
    <3>3. \A j \in 1..Len(N) : j > i + 1 => Unopened(c, N[j])'
      <4>1. \A j \in 1..Len(N) : j > i + 1 => j > i
        BY <1>2
      <4> QED BY <1>5, <4>1
    <3>4. Around(c, x)'
      BY <2>3, <3>1, <3>2, <3>3 DEF Around
    <3>5. Unopened(c, N[i + 1])'
      <4>1. i + 1 > i
        BY <1>2
      <4> QED BY <1>5, <3>1, <4>1
    <3>6. Spot(c, x, Place(x))'
      BY <2>3, <3>1, <3>5 DEF Spot
    <3> QED BY <2>3, <3>4, <3>6 DEF CommandOK
  <2> QED BY <1>1, <2>1, <2>2, <2>3
<1>7. CommandOK(c, call[c])'
  BY <1>3, <1>6
<1> QED BY <1>4, <1>7 DEF DataFilesInv

\* What is published stays whole while files and contents stay.
LEMMA PublishedUntouched ==
    ASSUME Published, UNCHANGED << file, content >>, robbed \subseteq robbed' PROVE Published'
BY DEF Published, Found

-----------------------------------------------------------------------------
LEMMA DataFilesRaise ==
    ASSUME DataFilesAssumption, DataFilesInv, NEW c \in Commands, Underway(call[c]),
           DataFiles!Raise(c), faults' \in 0..Faults, UNCHANGED << file, temporary, content, robbed >>
    PROVE  DataFilesInv'
<1>1. call' = [call EXCEPT ![c] = DataFiles!Over] /\ DataFilesTyped'
  BY DEF DataFiles!Raise, DataFilesInv, DataFilesTyped
<1>2. Published'
  BY PublishedUntouched DEF DataFilesInv
<1>3. PICK n : n = Place(call[c])
  OBVIOUS
<1>4. Moves(c, n)
  BY <1>1 DEF Moves, DataFilesTyped, DataFilesInv
<1> QED BY <1>1, <1>2, <1>3, <1>4, CommandSteps

\* A step that stays at its name, without a link.
LEMMA DataFilesGoto ==
    ASSUME DataFilesAssumption, DataFilesInv, NEW c \in Commands, Underway(call[c]),
           NEW n, n = Place(call[c]), NEW pc \in {"open", "write", "link", "unlink"},
           call[c].linked = FALSE, DataFiles!Goto(c, pc), Moves(c, n), DataFilesTyped', Published',
           pc = "open" => Unopened(c, n)',
           pc \in {"link", "unlink"} => n \in DataFiles!Linked,
           pc = "link" => content'[<< c, n >>] = "whole",
           pc \in {"write", "link"} /\ n \in DataFiles!Linked \ robbed' => temporary'[n] = c,
           pc = "write" /\ n \notin DataFiles!Linked => file'[n] = c
    PROVE  DataFilesInv'
<1>1. call[c] \in Command
  BY CommandAt
<1>2. PICK x : x = [call[c] EXCEPT !.pc = pc]
  OBVIOUS
<1>3. call' = [call EXCEPT ![c] = x]
  BY <1>2 DEF DataFiles!Goto
<1>4. /\ x \in Command /\ x.kind = call[c].kind /\ x.at = call[c].at /\ x.pc = pc
      /\ x.linked = FALSE
  BY <1>1, <1>2 DEF Command
<1>5. Spot(c, x, n)'
  BY <1>4 DEF Spot
<1> QED BY <1>3, <1>4, <1>5, CommandSteps

\* What the command at c relies on, with its state k and name n.
LEMMA CommandFacts ==
    ASSUME DataFilesAssumption, DataFilesInv, NEW c \in Commands, call[c].pc # "idle", call[c].pc # "over"
    PROVE  LET k == call[c]
               n == DataFiles!Name(c)
           IN  /\ Underway(k) /\ k \in Command /\ n = Place(k) /\ n \in DataFiles!AllNames
               /\ Spot(c, k, n) /\ c # DataFiles!None /\ DataFilesTyped /\ Published
               /\ k.pc # "unlink" => k.linked = FALSE
<1>1. Underway(call[c])
  BY DEF Underway, DataFiles!Idle, DataFiles!Over
<1>2. /\ call[c] \in Command /\ DataFiles!Name(c) = Place(call[c]) /\ Place(call[c]) \in DataFiles!AllNames
      /\ Spot(c, call[c], Place(call[c])) /\ c # DataFiles!None /\ DataFilesTyped /\ Published
  BY <1>1, CommandAt
<1>3. call[c].linked \in BOOLEAN
  BY <1>2 DEF Command
<1>4. call[c].pc # "unlink" => call[c].linked = FALSE
  BY <1>2, <1>3 DEF Spot
<1> QED BY <1>1, <1>2, <1>4

LEMMA DataFilesCheckName ==
    ASSUME DataFilesAssumption, DataFilesInv, NEW c \in Commands, DataFiles!CheckName(c)
    PROVE  DataFilesInv'
<1>1. call[c].pc = "check" /\ UNCHANGED << file, temporary, content, robbed, faults >>
  BY DEF DataFiles!CheckName
<1>2. PICK n \in DataFiles!AllNames : n = DataFiles!Name(c) /\ n = Place(call[c])
  BY <1>1, CommandFacts
<1>3. /\ Underway(call[c]) /\ call[c].linked = FALSE /\ DataFilesTyped /\ Published
      /\ Unopened(c, n)
  BY <1>1, <1>2, CommandFacts DEF Spot
<1>4. CASE DataFiles!Raise(c)
  BY <1>1, <1>3, <1>4, DataFilesRaise DEF DataFilesTyped
<1>5. CASE DataFiles!Goto(c, "open")
  <2>1. DataFilesTyped' /\ Moves(c, n)
    BY <1>1, <1>3, <1>5 DEF DataFiles!Goto, DataFilesTyped, Moves
  <2>2. Published' /\ Unopened(c, n)'
    BY <1>1, <1>3, PublishedUntouched DEF Unopened
  <2> QED BY <1>2, <1>3, <1>5, <2>1, <2>2, DataFilesGoto
<1> QED BY <1>4, <1>5 DEF DataFiles!CheckName

\* What is published is not what a command writes under a name that it opens.
LEMMA DataFilesOpenTemporary ==
    ASSUME DataFilesAssumption, DataFilesInv, NEW c \in Commands, DataFiles!OpenTemporary(c)
    PROVE  DataFilesInv'
<1>1. call[c].pc = "open" /\ UNCHANGED << file, robbed, faults >>
  BY DEF DataFiles!OpenTemporary
<1>2. PICK n \in DataFiles!AllNames : n = DataFiles!Name(c) /\ n = Place(call[c])
  BY <1>1, CommandFacts
<1>3. /\ Underway(call[c]) /\ call[c].linked = FALSE /\ DataFilesTyped /\ Published
      /\ Unopened(c, n) /\ n \in DataFiles!Linked /\ c # DataFiles!None
  BY <1>1, <1>2, CommandFacts DEF Spot, DataFiles!OpenTemporary
<1>4. CASE temporary[n] # DataFiles!None
  <2>1. DataFiles!Goto(c, "unlink") /\ UNCHANGED << temporary, content >>
    BY <1>2, <1>4 DEF DataFiles!OpenTemporary
  <2>2. DataFilesTyped' /\ Moves(c, n)
    BY <1>1, <1>3, <2>1 DEF DataFiles!Goto, DataFilesTyped, Moves
  <2>3. Published'
    BY <1>1, <1>3, <2>1, PublishedUntouched
  <2> QED BY <1>2, <1>3, <2>1, <2>2, <2>3, DataFilesGoto
<1>5. CASE temporary[n] = DataFiles!None
  <2>1. /\ DataFiles!Goto(c, "write") /\ temporary' = [temporary EXCEPT ![n] = c]
        /\ content' = [content EXCEPT ![<< c, n >>] = "partial"]
    BY <1>2, <1>5 DEF DataFiles!OpenTemporary
  <2>2. /\ DataFilesTyped' /\ temporary'[n] = c
        /\ \A m \in DataFiles!Linked : m # n => temporary'[m] = temporary[m]
        /\ \A d \in Commands, m \in DataFiles!AllNames :
                d # c \/ m # n => content'[<< d, m >>] = content[<< d, m >>]
        /\ \A d \in Commands : d # c => call'[d] = call[d]
    BY <1>1, <1>3, <2>1 DEF DataFiles!Goto, DataFilesTyped
  <2>3. Moves(c, n)
    BY <1>1, <1>3, <1>5, <2>2, DataFilesAssumption DEF Moves, DataFilesAssumption
  <2>4. file[n] # c
    BY <1>3 DEF Unopened
  <2>5. \A m \in DataFiles!AllNames :
            file[m] # DataFiles!None => content'[<< file[m], m >>] = content[<< file[m], m >>]
    <3>1. ASSUME NEW m \in DataFiles!AllNames, file[m] # DataFiles!None
          PROVE  content'[<< file[m], m >>] = content[<< file[m], m >>]
      <4>1. file[m] \in Commands /\ (file[m] # c \/ m # n)
        BY <1>3, <2>4, <3>1 DEF DataFilesTyped
      <4> QED BY <2>2, <4>1
    <3> QED BY <3>1
  <2>6. Published'
    BY <1>1, <1>3, <2>5, NameSets DEF Published, Found
  <2> QED BY <1>2, <1>3, <2>1, <2>2, <2>3, <2>6, DataFilesGoto
<1> QED BY <1>4, <1>5

\* The place of a report among the names of a workflow.
LEMMA PlacesOfReports ==
    ASSUME DataFilesAssumption, DataFilesInv, NEW c \in Commands, Underway(call[c]),
           NEW n, n = Place(call[c]), n \notin DataFiles!Linked
    PROVE  \/ n = "manifest" /\ Found(c, "canonical") /\ Found(c, "train")
           \/ n = "statistics" /\ file["manifest"] = c /\ content[<< c, "manifest" >>] = "whole"
<1>1. /\ call[c] \in Command /\ Around(c, call[c])
      /\ call[c].at \in 1..Len(DataFiles!Names(call[c].kind))
  BY CommandAt
<1>2. PICK i \in 1..4 : i = call[c].at
  BY <1>1 DEF Command
<1>3. call[c].kind = "workflow"
  <2>1. SUFFICES ASSUME call[c].kind = "download" PROVE FALSE
    BY <1>1 DEF Command, DataFiles!Kinds
  <2>2. call[c].at \in 1..1
    BY <1>1, <2>1, NamesOfDownload
  <2>3. call[c].at = 1
    BY <2>2
  <2>4. n = "raw"
    BY <2>1, <2>3, NamesOfDownload DEF Place
  <2> QED BY <2>4, NameSets
<1>4. PICK N : N = DataFiles!Names("workflow")
  OBVIOUS
<1>5. /\ \A j \in 1..4 : j < i => Made(c, N[j])
      /\ n = N[i] /\ N[1] = "canonical" /\ N[2] = "train" /\ N[3] = "manifest" /\ N[4] = "statistics"
  BY <1>1, <1>2, <1>3, <1>4, NamesOfWorkflow DEF Around, Place
<1>6. i = 1 \/ i = 2 \/ i = 3 \/ i = 4
  OBVIOUS
<1>7. i = 3 \/ i = 4
  BY <1>5, <1>6, NameSets
<1>8. CASE i = 3
  <2>1. Made(c, "canonical") /\ Made(c, "train")
    BY <1>5, <1>8
  <2> QED BY <1>5, <1>8, <2>1, NameSets DEF Made
<1>9. CASE i = 4
  <2>1. Made(c, "manifest")
    BY <1>5, <1>9
  <2> QED BY <1>5, <1>9, <2>1, NameSets DEF Made
<1> QED BY <1>7, <1>8, <1>9

LEMMA DataFilesOpenReport ==
    ASSUME DataFilesAssumption, DataFilesInv, NEW c \in Commands, DataFiles!OpenReport(c)
    PROVE  DataFilesInv'
<1>1. call[c].pc = "open" /\ UNCHANGED << temporary, robbed, faults >>
  BY DEF DataFiles!OpenReport
<1>2. PICK n \in DataFiles!AllNames : n = DataFiles!Name(c) /\ n = Place(call[c])
  BY <1>1, CommandFacts
<1>3. /\ Underway(call[c]) /\ call[c].linked = FALSE /\ DataFilesTyped /\ Published
      /\ n \notin DataFiles!Linked /\ c # DataFiles!None
  BY <1>1, <1>2, CommandFacts DEF DataFiles!OpenReport
<1>4. CASE file[n] # DataFiles!None
  <2>1. DataFiles!Raise(c) /\ UNCHANGED << file, content >>
    BY <1>2, <1>4 DEF DataFiles!OpenReport
  <2> QED BY <1>1, <1>3, <2>1, DataFilesRaise DEF DataFilesTyped
<1>5. CASE file[n] = DataFiles!None
  <2>1. /\ DataFiles!Goto(c, "write") /\ file' = [file EXCEPT ![n] = c]
        /\ content' = [content EXCEPT ![<< c, n >>] = "partial"]
    BY <1>2, <1>5 DEF DataFiles!OpenReport
  <2>2. /\ DataFilesTyped' /\ file'[n] = c
        /\ \A m \in DataFiles!AllNames : m # n => file'[m] = file[m]
        /\ \A d \in Commands, m \in DataFiles!AllNames :
                d # c \/ m # n => content'[<< d, m >>] = content[<< d, m >>]
        /\ \A d \in Commands : d # c => call'[d] = call[d]
    BY <1>1, <1>3, <2>1 DEF DataFiles!Goto, DataFilesTyped
  <2>3. Moves(c, n)
    BY <1>1, <1>3, <1>5, <2>2 DEF Moves
  <2>4. \A m \in DataFiles!AllNames :
            m # n /\ file[m] # DataFiles!None => content'[<< file[m], m >>] = content[<< file[m], m >>]
    BY <1>3, <2>2 DEF DataFilesTyped
  <2>5. \A m \in DataFiles!Linked \ robbed' :
            file'[m] # DataFiles!None => content'[<< file'[m], m >>] = "whole"
    <3>1. \A m \in DataFiles!Linked : m # n /\ m \in DataFiles!AllNames
      BY <1>3, NameSets
    <3> QED BY <1>1, <1>3, <2>2, <2>4, <3>1 DEF Published
  <2>6. ASSUME n = "manifest", Found(c, "canonical"), Found(c, "train") PROVE Published'
    <3>1. file["statistics"] = DataFiles!None
      BY <1>3, <1>5, <2>6, NameSets DEF Published, DataFilesTyped
    <3>2. file'["statistics"] = DataFiles!None
      BY <2>2, <2>6, <3>1, NameSets
    <3>3. Found(c, "canonical")' /\ Found(c, "train")'
      BY <1>1, <2>2, <2>6, NameSets DEF Found
    <3>4. file'["manifest"] = c
      BY <2>2, <2>6
    <3> QED BY <2>5, <3>2, <3>3, <3>4 DEF Published, Found
  <2>7. ASSUME n = "statistics", file["manifest"] = c, content[<< c, "manifest" >>] = "whole"
        PROVE  Published'
    <3>1. file'["manifest"] = c /\ content'[<< c, "manifest" >>] = "whole"
      BY <1>3, <2>2, <2>4, <2>7, NameSets
    <3>2. Found(c, "canonical")' /\ Found(c, "train")'
      BY <1>1, <1>3, <2>2, <2>7, NameSets DEF Published, Found
    <3>3. file'["statistics"] = c
      BY <2>2, <2>7
    <3> QED BY <2>5, <3>1, <3>2, <3>3 DEF Published, Found
  <2>8. \/ n = "manifest" /\ Found(c, "canonical") /\ Found(c, "train")
        \/ n = "statistics" /\ file["manifest"] = c /\ content[<< c, "manifest" >>] = "whole"
    <3> HIDE DEF Found
    <3> QED BY <1>2, <1>3, PlacesOfReports
  <2>9. Published'
    BY <2>6, <2>7, <2>8
  <2> QED BY <1>2, <1>3, <2>1, <2>2, <2>3, <2>9, DataFilesGoto
<1> QED BY <1>4, <1>5

LEMMA DataFilesWrite ==
    ASSUME DataFilesAssumption, DataFilesInv, NEW c \in Commands, DataFiles!Write(c)
    PROVE  DataFilesInv'
<1>1. call[c].pc = "write" /\ UNCHANGED << file, temporary, robbed, faults >>
  BY DEF DataFiles!Write
<1>2. PICK n \in DataFiles!AllNames : n = DataFiles!Name(c) /\ n = Place(call[c])
  BY <1>1, CommandFacts
<1>3. /\ Underway(call[c]) /\ call[c].linked = FALSE /\ DataFilesTyped /\ Published
      /\ n \in DataFiles!Linked \ robbed => temporary[n] = c
      /\ n \notin DataFiles!Linked => file[n] = c
      /\ call[c] \in Command
  BY <1>1, <1>2, CommandFacts DEF Spot
<1>4. content' = [content EXCEPT ![<< c, n >>] = "whole"]
  BY <1>2 DEF DataFiles!Write
<1>5. /\ content' \in [Commands \X DataFiles!AllNames -> {"none", "partial", "whole"}]
      /\ content'[<< c, n >>] = "whole"
      /\ \A d \in Commands, m \in DataFiles!AllNames :
              d # c \/ m # n => content'[<< d, m >>] = content[<< d, m >>]
      /\ \A d \in Commands, m \in DataFiles!AllNames :
              content[<< d, m >>] = "whole" => content'[<< d, m >>] = "whole"
  BY <1>3, <1>4 DEF DataFilesTyped
<1>6. Published'
  <2>1. \A m \in DataFiles!AllNames : file[m] # DataFiles!None => file[m] \in Commands
    BY <1>3 DEF DataFilesTyped
  <2>2. \A m \in DataFiles!AllNames :
            file[m] # DataFiles!None /\ content[<< file[m], m >>] = "whole"
                => content'[<< file[m], m >>] = "whole"
    BY <1>5, <2>1
  <2> QED BY <1>1, <1>3, <2>2, NameSets DEF Published, Found
<1>7. ASSUME NEW x, call' = [call EXCEPT ![c] = x] PROVE Moves(c, n) /\ DataFilesTyped'
  BY <1>1, <1>3, <1>5, <1>7 DEF DataFilesTyped, Moves
<1>8. CASE n \in DataFiles!Linked
  <2>1. DataFiles!Goto(c, "link")
    BY <1>2, <1>8 DEF DataFiles!Write
  <2>2. Moves(c, n) /\ DataFilesTyped'
    BY <1>7, <2>1 DEF DataFiles!Goto
  <2> QED BY <1>1, <1>2, <1>3, <1>5, <1>6, <1>8, <2>1, <2>2, DataFilesGoto
<1>9. CASE n \notin DataFiles!Linked
  <2>1. PICK N : N = DataFiles!Names(call[c].kind) /\ Len(N) \in 1..4 /\ call[c].at \in 1..Len(N)
    BY <1>3, CommandAt
  <2>2. PICK x : x = IF call[c].at = Len(N) THEN DataFiles!Over
                     ELSE [call[c] EXCEPT !.pc = "check", !.at = @ + 1]
    OBVIOUS
  <2>3. call' = [call EXCEPT ![c] = x]
    BY <1>2, <1>9, <2>1, <2>2 DEF DataFiles!Write, DataFiles!Advance
  <2>4. Made(c, n)'
    BY <1>1, <1>3, <1>5, <1>9 DEF Made
  <2>5. CASE call[c].at = Len(N)
    BY <1>2, <1>3, <1>6, <1>7, <2>2, <2>3, <2>5, CommandSteps
  <2>6. CASE call[c].at # Len(N)
    <3>1. call[c].at \in 1..4 /\ call[c].at + 1 \in 1..4 /\ call[c].at + 1 <= Len(N)
      <4>1. PICK l \in 1..4 : l = Len(N) /\ call[c].at \in 1..l
        BY <2>1
      <4>2. PICK i \in 1..l : i = call[c].at
        BY <4>1
      <4>3. i # l
        BY <2>6, <4>1, <4>2
      <4>4. i \in 1..4 /\ i + 1 \in 1..4 /\ i + 1 <= l
        BY <4>3
      <4> QED BY <4>1, <4>2, <4>4
    <3>2. /\ x \in Command /\ x.kind = call[c].kind /\ x.at = call[c].at + 1
          /\ x.pc = "check" /\ x.linked = FALSE
      BY <1>3, <2>2, <2>6, <3>1 DEF Command
    <3>3. x.at <= Len(DataFiles!Names(x.kind))
      BY <2>1, <3>1, <3>2
    <3> QED BY <1>2, <1>3, <1>6, <1>7, <2>3, <2>4, <3>2, <3>3, CommandSteps
  <2> QED BY <2>5, <2>6
<1> QED BY <1>8, <1>9

LEMMA DataFilesFailWrite ==
    ASSUME DataFilesAssumption, DataFilesInv, NEW c \in Commands, DataFiles!FailWrite(c)
    PROVE  DataFilesInv'
<1>1. /\ call[c].pc = "write" /\ UNCHANGED << file, temporary, content, robbed >>
      /\ faults' \in 0..Faults
  BY DEF DataFiles!FailWrite, DataFiles!Fault, DataFilesInv, DataFilesTyped, DataFilesAssumption
<1>2. PICK n \in DataFiles!AllNames : n = DataFiles!Name(c) /\ n = Place(call[c])
  BY <1>1, CommandFacts
<1>3. Underway(call[c]) /\ call[c].linked = FALSE /\ DataFilesTyped /\ Published
  BY <1>1, CommandFacts
<1>4. CASE n \notin DataFiles!Linked
  <2>1. DataFiles!Raise(c)
    BY <1>2, <1>4 DEF DataFiles!FailWrite
  <2> QED BY <1>1, <1>3, <2>1, DataFilesRaise
<1>5. CASE n \in DataFiles!Linked
  <2>1. DataFiles!Goto(c, "unlink")
    BY <1>2, <1>5 DEF DataFiles!FailWrite
  <2>2. DataFilesTyped' /\ Moves(c, n)
    BY <1>1, <1>3, <2>1 DEF DataFiles!Goto, DataFilesTyped, Moves
  <2>3. Published'
    BY <1>1, <1>3, PublishedUntouched
  <2> QED BY <1>2, <1>3, <1>5, <2>1, <2>2, <2>3, DataFilesGoto
<1> QED BY <1>4, <1>5

LEMMA DataFilesLink ==
    ASSUME DataFilesAssumption, DataFilesInv, NEW c \in Commands, DataFiles!Link(c)
    PROVE  DataFilesInv'
<1>1. call[c].pc = "link" /\ UNCHANGED << temporary, content, robbed, faults >>
  BY DEF DataFiles!Link, DataFiles!Linkable
<1>2. PICK n \in DataFiles!AllNames : n = DataFiles!Name(c) /\ n = Place(call[c])
  BY <1>1, CommandFacts
<1>3. /\ Underway(call[c]) /\ call[c].linked = FALSE /\ DataFilesTyped /\ Published
      /\ n \in DataFiles!Linked /\ content[<< c, n >>] = "whole"
      /\ n \notin robbed => temporary[n] = c
      /\ call[c] \in Command
  BY <1>1, <1>2, CommandFacts DEF Spot
<1>4. CASE temporary[n] = DataFiles!None \/ file[n] # DataFiles!None
  <2>1. DataFiles!Goto(c, "unlink") /\ UNCHANGED file
    BY <1>2, <1>4 DEF DataFiles!Link
  <2>2. DataFilesTyped' /\ Moves(c, n)
    BY <1>1, <1>3, <2>1 DEF DataFiles!Goto, DataFilesTyped, Moves
  <2>3. Published'
    BY <1>1, <1>3, <2>1, PublishedUntouched
  <2> QED BY <1>2, <1>3, <2>1, <2>2, <2>3, DataFilesGoto
<1>5. CASE temporary[n] # DataFiles!None /\ file[n] = DataFiles!None
  <2>1. PICK x : x = [call[c] EXCEPT !.pc = "unlink", !.linked = TRUE]
    OBVIOUS
  <2>2. call' = [call EXCEPT ![c] = x] /\ file' = [file EXCEPT ![n] = temporary[n]]
    BY <1>2, <1>5, <2>1 DEF DataFiles!Link
  <2>3. /\ x \in Command /\ x.kind = call[c].kind /\ x.at = call[c].at /\ x.pc = "unlink"
    BY <1>3, <2>1 DEF Command
  <2>4. /\ file'[n] = temporary[n] /\ temporary[n] \in Commands
        /\ \A m \in DataFiles!AllNames : m # n => file'[m] = file[m]
        /\ DataFilesTyped' /\ \A d \in Commands : d # c => call'[d] = call[d]
    BY <1>1, <1>3, <1>5, <2>2 DEF DataFilesTyped
  <2>5. Moves(c, n)
    BY <1>1, <1>3, <1>5, <2>4 DEF Moves
  <2>6. Spot(c, x, n)'
    <3>1. Found(c, n)'
      BY <1>1, <1>3, <1>5, <2>4 DEF Found
    <3> QED BY <1>3, <2>3, <3>1 DEF Spot
  <2>7. Published'
    <3>1. \A m \in DataFiles!Linked \ robbed :
              file'[m] # DataFiles!None => content[<< file'[m], m >>] = "whole"
      BY <1>3, <2>4, NameSets DEF Published
    <3>2. ASSUME file["manifest"] # DataFiles!None
          PROVE  Found(file["manifest"], "canonical")' /\ Found(file["manifest"], "train")'
      <4>1. n # "canonical" /\ n # "train" /\ n # "manifest"
        BY <1>3, <1>5, <3>2, NameSets DEF Published, Found
      <4> QED BY <1>1, <1>3, <2>4, <3>2, <4>1, NameSets DEF Published, Found
    <3>3. file'["manifest"] = file["manifest"] /\ file'["statistics"] = file["statistics"]
      BY <1>3, <2>4, NameSets
    <3> QED BY <1>1, <1>3, <3>1, <3>2, <3>3 DEF Published
  <2> QED BY <1>2, <1>3, <2>2, <2>3, <2>4, <2>5, <2>6, <2>7, CommandSteps
<1> QED BY <1>4, <1>5

LEMMA DataFilesUnlink ==
    ASSUME DataFilesAssumption, DataFilesInv, NEW c \in Commands, DataFiles!Unlink(c)
    PROVE  DataFilesInv'
<1>1. call[c].pc = "unlink" /\ UNCHANGED << file, content, faults >>
  BY DEF DataFiles!Unlink
<1>2. PICK n \in DataFiles!AllNames : n = DataFiles!Name(c) /\ n = Place(call[c])
  BY <1>1, CommandFacts
<1>3. /\ Underway(call[c]) /\ DataFilesTyped /\ Published /\ n \in DataFiles!Linked
      /\ call[c].linked => Found(c, n)
      /\ call[c] \in Command
  BY <1>1, <1>2, CommandFacts DEF Spot
<1>4. /\ temporary' = [temporary EXCEPT ![n] = DataFiles!None]
      /\ robbed' = IF DataFiles!Robs(c) THEN robbed \union {n} ELSE robbed
  BY <1>2 DEF DataFiles!Unlink
<1>5. Published'
  BY <1>1, <1>3, <1>4, PublishedUntouched
<1>6. ASSUME NEW x, call' = [call EXCEPT ![c] = x] PROVE Moves(c, n) /\ DataFilesTyped'
  <2>1. /\ temporary'[n] = DataFiles!None
        /\ \A m \in DataFiles!Linked : m # n => temporary'[m] = temporary[m]
        /\ \A d \in Commands : d # c => call'[d] = call[d]
        /\ robbed \subseteq robbed' /\ \A m \in robbed' : m \in robbed \/ m = n
        /\ DataFilesTyped'
    BY <1>1, <1>3, <1>4, <1>6 DEF DataFilesTyped
  <2>2. ASSUME NEW d \in Commands, d # c, call[d].pc \in {"write", "link"}, Place(call[d]) = n,
               n \notin robbed', temporary[n] = d
        PROVE  FALSE
    <3>1. DataFiles!Name(d) = n /\ DataFiles!Name(c) = n
      BY <1>2, <2>2 DEF Place, DataFiles!Name
    <3>2. DataFiles!Robs(c)
      BY <2>2, <3>1 DEF DataFiles!Robs
    <3> QED BY <1>4, <2>2, <3>2
  <2> QED BY <1>1, <1>3, <2>1, <2>2 DEF Moves
<1>7. CASE ~call[c].linked
  <2>1. DataFiles!Raise(c)
    BY <1>7 DEF DataFiles!Unlink
  <2>2. call' = [call EXCEPT ![c] = DataFiles!Over]
    BY <2>1 DEF DataFiles!Raise
  <2> QED BY <1>2, <1>3, <1>5, <1>6, <2>2, CommandSteps
<1>8. CASE call[c].linked
  <2>1. PICK N : N = DataFiles!Names(call[c].kind) /\ Len(N) \in 1..4 /\ call[c].at \in 1..Len(N)
    BY <1>3, CommandAt
  <2>2. PICK x : x = IF call[c].at = Len(N) THEN DataFiles!Over
                     ELSE [call[c] EXCEPT !.pc = "check", !.at = @ + 1, !.linked = FALSE]
    OBVIOUS
  <2>3. call' = [call EXCEPT ![c] = x]
    BY <1>8, <2>1, <2>2 DEF DataFiles!Unlink
  <2>4. Made(c, n)'
    <3>1. Found(c, n)'
      BY <1>1, <1>3, <1>4, <1>8 DEF Found
    <3> QED BY <1>3, <3>1 DEF Made
  <2>5. CASE call[c].at = Len(N)
    BY <1>2, <1>3, <1>5, <1>6, <2>2, <2>3, <2>5, CommandSteps
  <2>6. CASE call[c].at # Len(N)
    <3>1. call[c].at \in 1..4 /\ call[c].at + 1 \in 1..4 /\ call[c].at + 1 <= Len(N)
      <4>1. PICK l \in 1..4 : l = Len(N) /\ call[c].at \in 1..l
        BY <2>1
      <4>2. PICK i \in 1..l : i = call[c].at
        BY <4>1
      <4>3. i # l
        BY <2>6, <4>1, <4>2
      <4>4. i \in 1..4 /\ i + 1 \in 1..4 /\ i + 1 <= l
        BY <4>3
      <4> QED BY <4>1, <4>2, <4>4
    <3>2. /\ x \in Command /\ x.kind = call[c].kind /\ x.at = call[c].at + 1
          /\ x.pc = "check" /\ x.linked = FALSE
      BY <1>3, <2>2, <2>6, <3>1 DEF Command
    <3>3. x.at <= Len(DataFiles!Names(x.kind))
      BY <2>1, <3>1, <3>2
    <3> QED BY <1>2, <1>3, <1>5, <1>6, <2>3, <2>4, <3>2, <3>3, CommandSteps
  <2> QED BY <2>5, <2>6
<1> QED BY <1>7, <1>8

LEMMA DataFilesCrash ==
    ASSUME DataFilesAssumption, DataFilesInv, NEW c \in Commands, DataFiles!Crash(c)
    PROVE  DataFilesInv'
<1>1. /\ Underway(call[c]) /\ DataFiles!Raise(c) /\ UNCHANGED << file, temporary, content, robbed >>
  BY DEF DataFiles!Crash, Underway
<1>2. faults' \in 0..Faults
  BY DEF DataFiles!Crash, DataFiles!Fault, DataFilesInv, DataFilesTyped, DataFilesAssumption
<1> QED BY <1>1, <1>2, DataFilesRaise

LEMMA DataFilesBegin ==
    ASSUME DataFilesAssumption, DataFilesInv, NEW c \in Commands, NEW kind \in DataFiles!Kinds,
           DataFiles!Begin(c, kind)
    PROVE  DataFilesInv'
<1>1. PICK x : x = [pc |-> "check", kind |-> kind, at |-> 1, linked |-> FALSE]
  OBVIOUS
<1>2. /\ call' = [call EXCEPT ![c] = x] /\ UNCHANGED << file, temporary, content, robbed, faults >>
      /\ DataFilesTyped /\ Published /\ c # DataFiles!None
  BY <1>1 DEF DataFiles!Begin, DataFilesAssumption, DataFilesInv
<1>3. x \in Command /\ x.pc = "check" /\ x.kind = kind /\ x.at = 1 /\ x.linked = FALSE
  BY <1>1 DEF Command
<1>4. DataFilesTyped' /\ call'[c] = x /\ \A d \in Commands : d # c => call'[d] = call[d]
  BY <1>2 DEF DataFilesTyped
<1>5. Published'
  BY <1>2, PublishedUntouched
<1>6. PICK N : N = DataFiles!Names(kind)
  OBVIOUS
<1>7. Len(N) \in 1..4 /\ DOMAIN N = 1..Len(N) /\ \A j \in 1..Len(N) : N[j] \in DataFiles!AllNames
  BY <1>6, NamesAreDistinct
<1>8. \A j \in 1..Len(N) : Unopened(c, N[j])'
  <2>1. ASSUME NEW j \in 1..Len(N) PROVE Unopened(c, N[j])
    <3>1. ~DataFiles!Present(N[j])
      BY <1>6, <1>7 DEF DataFiles!Begin
    <3> QED BY <1>2, <3>1 DEF Unopened, DataFiles!Present
  <2> QED BY <1>2, <2>1 DEF Unopened
<1>9. Moves(c, "raw")
  BY <1>2, <1>4 DEF Moves
<1>10. CommandOK(c, x)'
  <2>1. DataFiles!Names(x.kind) = N /\ Place(x) = N[1] /\ 1 \in 1..Len(N)
    BY <1>3, <1>6, <1>7 DEF Place
  <2>2. Around(c, x)'
    <3>1. \A j \in 1..Len(N) : ~(j < 1)
      BY <1>7
    <3> QED BY <1>3, <1>8, <2>1, <3>1 DEF Around
  <2>3. Spot(c, x, Place(x))'
    BY <1>3, <1>8, <2>1 DEF Spot
  <2>4. x.at <= Len(DataFiles!Names(x.kind))
    BY <1>3, <1>7, <2>1
  <2> QED BY <1>3, <2>2, <2>3, <2>4 DEF CommandOK
<1>11. \A d \in Commands : d # c => CommandOK(d, call[d])'
  BY <1>9, NameSets, OthersKeep
<1>12. \A d \in Commands : CommandOK(d, call[d])'
  BY <1>4, <1>10, <1>11 DEF CommandOK, Around, Spot, Place, Made, Unopened, Found
<1> QED BY <1>4, <1>5, <1>12 DEF DataFilesInv

LEMMA DataFilesStep == DataFilesAssumption /\ DataFilesInv /\ [DataFiles!Next]_DataFiles!vars => DataFilesInv'
<1> SUFFICES ASSUME DataFilesAssumption, DataFilesInv, [DataFiles!Next]_DataFiles!vars PROVE DataFilesInv'
  OBVIOUS
<1>1. CASE UNCHANGED DataFiles!vars
  BY <1>1 DEF DataFiles!vars, DataFilesInv, DataFilesTyped, Published, CommandOK, Around, Spot, Made,
              Unopened, Found
<1>2. ASSUME NEW c \in Commands,
             \/ DataFiles!CheckName(c) \/ DataFiles!OpenTemporary(c) \/ DataFiles!OpenReport(c)
             \/ DataFiles!Write(c) \/ DataFiles!FailWrite(c) \/ DataFiles!Link(c) \/ DataFiles!Unlink(c)
      PROVE  DataFilesInv'
  BY <1>2, DataFilesCheckName, DataFilesOpenTemporary, DataFilesOpenReport,
     DataFilesWrite, DataFilesFailWrite, DataFilesLink, DataFilesUnlink
<1>3. CASE DataFiles!Next
  BY <1>2, <1>3, DataFilesBegin, DataFilesCrash DEF DataFiles!Next
<1> QED BY <1>1, <1>3

\* The invariant of the part, in the composition.
LEMMA DataFilesHold == StorageSpec => [](part = "data_files" => DataFilesInv)
<1>1. StorageInit => (part = "data_files" => DataFilesInv)
  BY StorageAssumption, DataFilesInit DEF StorageInit
<1>2. (part = "data_files" => DataFilesInv) /\ [StorageNext]_StorageVars => (part = "data_files" => DataFilesInv)'
  <2> SUFFICES ASSUME part = "data_files" => DataFilesInv, [StorageNext]_StorageVars, part' = "data_files"
               PROVE  DataFilesInv'
    OBVIOUS
  <2>1. part = "data_files" /\ [DataFiles!Next]_(DataFiles!vars)
    BY DEF StorageNext, StoreNext, FilesNext, CapturesNext, SegmentNext, DataFilesNext, GatesNext,
           SchemaNext, RowSessionsNext, StorageVars, StoreVars, FileVars, CaptureVars, SegmentVars,
           DataFileVars, GateVars, SchemaVars, SessionVars, DataFiles!vars
  <2> QED BY <2>1, StorageAssumption, DataFilesStep
<1> QED BY <1>1, <1>2, PTL DEF StorageSpec

\* What a preparation command finds and leaves at a name is whole, partial or
\* nothing, and a command is at one of its names.
THEOREM DataFilesTypesCorrect ==
    ASSUME DataFilesAssumption PROVE DataFiles!Spec => []DataFiles!TypeOK
<1>1. DataFilesInv => DataFiles!TypeOK
  BY DEF DataFilesInv, DataFilesTyped, DataFiles!TypeOK
<1> QED BY <1>1, DataFilesInit, DataFilesStep, PTL DEF DataFiles!Spec

\* However commands overlap, and whatever fault or crash ends one: a partition or download
\* under its name is whole and the manifest stands next to partitions of its own workflow,
\* but where another command removed a temporary file that was being written or linked; a
\* manifest never stands without its partitions, nor the statistics without the manifest of
\* their workflow.
THEOREM PublishedFilesAreWhole == StorageSpec => []PublishedIsWhole
<1>1. DataFilesInv => DataFiles!PublishedIsWhole
  BY PublishedSpelledOut DEF DataFilesInv
<1>2. (part = "data_files" => DataFilesInv) => PublishedIsWhole
  BY <1>1 DEF PublishedIsWhole
<1> QED BY <1>2, DataFilesHold, PTL

-----------------------------------------------------------------------------
(* Migrations.                                                             *)

LEMMA SchemaMin ==
    ASSUME NEW v \in 1..5 PROVE Schema!Min({v, 4}) = IF v <= 4 THEN v ELSE 4
<1> DEFINE m == IF v <= 4 THEN v ELSE 4
<1>1. m \in {v, 4} /\ \A y \in {v, 4} : m <= y
  OBVIOUS
<1>2. \A x \in {v, 4} : (\A y \in {v, 4} : x <= y) => x = m
  OBVIOUS
<1> QED BY <1>1, <1>2 DEF Schema!Min

LEMMA SchemaMax ==
    ASSUME NEW S \in SUBSET (1..5), S # {}
    PROVE  Schema!Max(S) \in S /\ \A y \in S : y <= Schema!Max(S)
<1>1. \E x \in S : \A y \in S : x >= y
  <2>1. \A y \in S : y = 1 \/ y = 2 \/ y = 3 \/ y = 4 \/ y = 5
    OBVIOUS
  <2>2. CASE 5 \in S
    BY <2>1, <2>2
  <2>3. CASE 5 \notin S /\ 4 \in S
    BY <2>1, <2>3
  <2>4. CASE 5 \notin S /\ 4 \notin S /\ 3 \in S
    BY <2>1, <2>4
  <2>5. CASE 5 \notin S /\ 4 \notin S /\ 3 \notin S /\ 2 \in S
    BY <2>1, <2>5
  <2>6. CASE 5 \notin S /\ 4 \notin S /\ 3 \notin S /\ 2 \notin S
    <3>1. S = {1}
      BY <2>1, <2>6
    <3> QED BY <3>1
  <2> QED BY <2>2, <2>3, <2>4, <2>5, <2>6
<1>2. Schema!Max(S) \in S /\ \A y \in S : Schema!Max(S) >= y
  BY <1>1 DEF Schema!Max
<1> QED BY <1>2

LEMMA SchemaTables ==
    /\ DOMAIN Schema!Tables = 1..3
    /\ Schema!ToSet(Schema!Tables) = {"alert_groups", "schema_versions", "runtime_jobs"}
    /\ Schema!ToSet(Schema!RuntimeTables) = {"runtime_jobs"}
<1>1. /\ DOMAIN Schema!Tables = 1..3 /\ Schema!Tables[1] = "alert_groups"
      /\ Schema!Tables[2] = "schema_versions" /\ Schema!Tables[3] = "runtime_jobs"
  BY DEF Schema!Tables
<1>2. DOMAIN Schema!RuntimeTables = 1..1 /\ Schema!RuntimeTables[1] = "runtime_jobs"
  BY DEF Schema!RuntimeTables
<1>3. (\A i \in 1..3 : i = 1 \/ i = 2 \/ i = 3) /\ \A i \in 1..1 : i = 1
  OBVIOUS
<1> QED BY <1>1, <1>2, <1>3 DEF Schema!ToSet

LEMMA SchemaColumns ==
    /\ \A v \in 2..4 : DOMAIN Schema!AddedBy[v] = 1..2
    /\ \A v \in 1..5 : Schema!ColumnsOf(v) \subseteq Schema!ColumnsOf(5)
    /\ Schema!ColumnsOf(5) = Schema!ColumnsOf(4)
    /\ \A v \in 1..3 : Schema!ColumnsOf(v + 1)
            = Schema!ColumnsOf(v) \union Schema!ToSet(Schema!AddedBy[v + 1])
<1>1. \A v \in 2..4 : DOMAIN Schema!AddedBy[v] = 1..2
  BY DEF Schema!AddedBy
<1>2. \A v \in 1..5 : Schema!ColumnsOf(v) =
        UNION {Schema!ToSet(Schema!AddedBy[u]) : u \in 2..(IF v <= 4 THEN v ELSE 4)}
  BY SchemaMin DEF Schema!ColumnsOf
<1>3. \A v \in 1..5 : Schema!ColumnsOf(v) \subseteq Schema!ColumnsOf(5)
  BY <1>2
<1>4. Schema!ColumnsOf(5) = Schema!ColumnsOf(4)
  BY <1>2
<1>5. ASSUME NEW v \in 1..3
      PROVE  Schema!ColumnsOf(v + 1) = Schema!ColumnsOf(v) \union Schema!ToSet(Schema!AddedBy[v + 1])
  <2>1. PICK w \in 2..4 : w = v + 1
    OBVIOUS
  <2>2. 2..w = (2..v) \union {w}
    BY <2>1
  <2>3. Schema!ColumnsOf(w) = UNION {Schema!ToSet(Schema!AddedBy[u]) : u \in 2..w}
    BY <1>2
  <2>4. Schema!ColumnsOf(v) = UNION {Schema!ToSet(Schema!AddedBy[u]) : u \in 2..v}
    BY <1>2
  <2>5. UNION {Schema!ToSet(Schema!AddedBy[u]) : u \in 2..w} =
            (UNION {Schema!ToSet(Schema!AddedBy[u]) : u \in 2..v}) \union Schema!ToSet(Schema!AddedBy[w])
    BY <2>2
  <2> QED BY <2>1, <2>3, <2>4, <2>5
<1> QED BY <1>1, <1>3, <1>4, <1>5

\* The first of what is still to be made is one of it.
LEMMA FirstToDo ==
    ASSUME NEW order, NEW n \in 1..3, DOMAIN order = 1..n, NEW todo,
           \E i \in 1..n : order[i] \in todo
    PROVE  Schema!First(order, todo) \in todo
<1> DEFINE Earliest(i) == order[i] \in todo /\ \A j \in DOMAIN order : order[j] \in todo => i <= j
<1>1. \E i \in DOMAIN order : Earliest(i)
  <2>1. CASE order[1] \in todo
    BY <2>1
  <2>2. CASE order[1] \notin todo /\ n >= 2 /\ order[2] \in todo
    <3>1. \A j \in 1..n : order[j] \in todo => 2 <= j
      BY <2>2
    <3> QED BY <2>2, <3>1
  <2>3. CASE order[1] \notin todo /\ ~(n >= 2 /\ order[2] \in todo)
    <3>1. \A j \in 1..n : order[j] \in todo => j = 3
      BY <2>3
    <3> QED BY <3>1
  <2> QED BY <2>1, <2>2, <2>3
<1> QED BY <1>1 DEF Schema!First

Start_Record == [pc : {"read", "migrate", "alter", "runtime", "create", "register"}, version : 0..5,
                 todo : SUBSET (Schema!ToSet(Schema!Tables) \union Schema!ColumnsOf(5)), begun : BOOLEAN]

AllTables == Schema!ToSet(Schema!Tables)
Added(x) == Schema!ToSet(Schema!AddedBy[x.version + 1])

\* What a start knows of the database at each of its steps, and goes on relying on.
Knows(x) ==
    /\ x \in Start_Record
    /\ x.pc = "read" => ~x.begun
    /\ x.pc \in {"migrate", "alter"} => x.version \in 1..3 /\ x.version \in versions
    /\ x.pc = "alter" => x.todo \subseteq Added(x) /\ Added(x) \subseteq columns \union x.todo
    /\ x.pc = "runtime" => 4 \in versions
    /\ x.pc = "runtime" /\ x.begun => x.todo \subseteq {"runtime_jobs"} /\ "runtime_jobs" \in tables \union x.todo
    /\ x.pc = "create" /\ x.begun => x.todo \subseteq AllTables /\ AllTables \subseteq tables \union x.todo
    /\ x.pc = "register" => AllTables \subseteq tables /\ Schema!ColumnsOf(5) \subseteq columns

DatabaseInv ==
    /\ tables \subseteq AllTables /\ columns \subseteq Schema!ColumnsOf(5) /\ versions \subseteq 1..5
    /\ versions # {} => {"alert_groups", "schema_versions"} \subseteq tables
    /\ \A v \in versions : Schema!ColumnsOf(v) \subseteq columns
    /\ 5 \in versions => AllTables \subseteq tables
    /\ versions = {} /\ "alert_groups" \in tables => Schema!ColumnsOf(5) \subseteq columns

SchemaInv ==
    /\ DatabaseInv /\ crashes \in 0..Crashes
    /\ DOMAIN process = SchemaProcesses
    /\ \A p \in SchemaProcesses : process[p] # Schema!Idle => Knows(process[p])

LEMMA SchemaInit == SchemaAssumption /\ Schema!Init => SchemaInv
<1> SUFFICES ASSUME SchemaAssumption, Schema!Init PROVE SchemaInv
  OBVIOUS
<1>1. DatabaseInv
  <2>1. CASE tables = {} /\ columns = {} /\ versions = {}
    BY <2>1 DEF DatabaseInv
  <2>2. ASSUME NEW v \in 1..5,
               tables = Schema!ToSet(Schema!Tables)
                            \ (IF v < 5 THEN Schema!ToSet(Schema!RuntimeTables) ELSE {}),
               columns = Schema!ColumnsOf(v), versions = {v}
        PROVE  DatabaseInv
    <3>1. columns \subseteq Schema!ColumnsOf(5)
      BY <2>2, SchemaColumns
    <3>2. tables \subseteq AllTables /\ {"alert_groups", "schema_versions"} \subseteq tables
      BY <2>2, SchemaTables DEF AllTables
    <3>3. v = 5 => tables = AllTables
      BY <2>2 DEF AllTables
    <3> QED BY <2>2, <3>1, <3>2, <3>3 DEF DatabaseInv
  <2> QED BY <2>1, <2>2 DEF Schema!Init
<1> QED BY <1>1 DEF SchemaInv, Schema!Init, SchemaAssumption

\* A step of one start that only adds to the database.
LEMMA StepOfStart ==
    ASSUME SchemaInv, NEW p \in SchemaProcesses, NEW x, process' = [process EXCEPT ![p] = x],
           tables \subseteq tables', columns \subseteq columns', versions \subseteq versions',
           DatabaseInv', crashes' \in 0..Crashes, x = Schema!Idle \/ Knows(x)'
    PROVE  SchemaInv'
<1>1. DOMAIN process' = SchemaProcesses /\ process'[p] = x
  BY DEF SchemaInv
<1>2. ASSUME NEW q \in SchemaProcesses, process'[q] # Schema!Idle PROVE Knows(process[q])'
  <2>1. CASE q = p
    BY <1>1, <1>2, <2>1
  <2>2. CASE q # p
    <3>1. process'[q] = process[q] /\ Knows(process[q])
      BY <1>2, <2>2 DEF SchemaInv
    <3>2. PICK y : y = process[q]
      OBVIOUS
    <3>3. Knows(y)'
      BY <3>1, <3>2 DEF Knows
    <3> QED BY <3>1, <3>2, <3>3
  <2> QED BY <2>1, <2>2
<1> QED BY <1>1, <1>2 DEF SchemaInv

LEMMA LeavingStart ==
    ASSUME SchemaInv, NEW p \in SchemaProcesses, Schema!Leave(p), UNCHANGED Schema!Database,
           crashes' \in 0..Crashes
    PROVE  SchemaInv'
<1>1. UNCHANGED << tables, columns, versions >> /\ process' = [process EXCEPT ![p] = Schema!Idle]
  BY DEF Schema!Leave, Schema!Database
<1>2. DatabaseInv'
  BY <1>1 DEF SchemaInv, DatabaseInv
<1> QED BY <1>1, <1>2, StepOfStart

LEMMA SchemaStart == ASSUME SchemaInv, NEW p \in SchemaProcesses, Schema!Start(p) PROVE SchemaInv'
<1>0. PICK x : x = [pc |-> IF "schema_versions" \in tables THEN "read" ELSE "create",
                   version |-> 0, todo |-> {}, begun |-> FALSE]
  OBVIOUS
<1>1. /\ UNCHANGED << tables, columns, versions >> /\ process' = [process EXCEPT ![p] = x]
      /\ crashes' = crashes
  BY <1>0 DEF Schema!Start, Schema!Database
<1>2. DatabaseInv' /\ crashes' \in 0..Crashes
  BY <1>1 DEF SchemaInv, DatabaseInv
<1>3. x \in Start_Record /\ x.pc \in {"read", "create"} /\ ~x.begun
  BY <1>0 DEF Start_Record
<1>4. Knows(x)'
  BY <1>3 DEF Knows
<1> QED BY <1>1, <1>2, <1>4, StepOfStart

\* The state of a start that is under way.
LEMMA UnderWay ==
    ASSUME SchemaInv, NEW p \in SchemaProcesses,
           process[p].pc \in {"read", "migrate", "alter", "runtime", "create", "register"}
    PROVE  Knows(process[p]) /\ process[p] \in Start_Record /\ DatabaseInv
<1>1. process[p] # Schema!Idle
  BY DEF Schema!Idle
<1> QED BY <1>1 DEF SchemaInv, Knows

LEMMA SchemaReadVersion == ASSUME SchemaInv, NEW p \in SchemaProcesses, Schema!ReadVersion(p) PROVE SchemaInv'
<1>1. PICK y : y = process[p]
  OBVIOUS
<1>2. Knows(y) /\ y \in Start_Record /\ DatabaseInv /\ y.pc = "read"
  BY <1>1, UnderWay DEF Schema!ReadVersion
<1>3. PICK m \in 0..5 : m = Schema!MaxVersion /\ (m # 0 => m \in versions)
  <2>1. CASE versions = {}
    BY <2>1 DEF Schema!MaxVersion
  <2>2. CASE versions # {}
    <3>1. Schema!MaxVersion = Schema!Max(versions)
      BY <2>2 DEF Schema!MaxVersion
    <3>2. versions \in SUBSET (1..5)
      BY <1>2 DEF DatabaseInv
    <3>3. Schema!Max(versions) \in versions
      BY <2>2, <3>2, SchemaMax
    <3>4. ASSUME NEW v \in versions PROVE v \in 0..5
      <4>1. v \in 1..5
        BY <3>2
      <4> QED BY <4>1
    <3> QED BY <3>1, <3>3, <3>4
  <2> QED BY <2>1, <2>2
<1>4. PICK pc \in {"create", "migrate", "runtime"} :
        /\ process' = [process EXCEPT ![p].version = m, ![p].pc = pc]
        /\ pc = "migrate" => m \in 1..3
        /\ pc = "runtime" => m = 4
  <2> DEFINE pc == CASE m \in {0, 5} -> "create" [] m \in 1..3 -> "migrate" [] m = 4 -> "runtime"
  <2>1. process' = [process EXCEPT ![p].version = m, ![p].pc = pc]
    BY <1>3 DEF Schema!ReadVersion, Schema!CURRENT_SCHEMA_VERSION
  <2>2. m \in {0, 5} \/ m \in 1..3 \/ m = 4
    OBVIOUS
  <2>3. /\ pc \in {"create", "migrate", "runtime"}
        /\ pc = "migrate" => m \in 1..3
        /\ pc = "runtime" => m = 4
    BY <2>2
  <2> HIDE DEF pc
  <2> QED BY <2>1, <2>3
<1>x. PICK x : x = [y EXCEPT !.version = m, !.pc = pc]
  OBVIOUS
<1>5. process' = [process EXCEPT ![p] = x] /\ UNCHANGED << tables, columns, versions, crashes >>
  BY <1>1, <1>4, <1>x DEF Schema!ReadVersion, Schema!Database, SchemaInv
<1>6. x \in Start_Record /\ x.version = m /\ x.pc = pc /\ x.begun = y.begun
  BY <1>2, <1>x DEF Start_Record
<1>7. ~x.begun
  BY <1>2, <1>6 DEF Knows
<1>8. Knows(x)'
  BY <1>3, <1>4, <1>5, <1>6, <1>7 DEF Knows
<1>9. DatabaseInv' /\ crashes' \in 0..Crashes
  BY <1>5 DEF SchemaInv, DatabaseInv
<1> QED BY <1>5, <1>8, <1>9, StepOfStart

LEMMA SchemaLookUpColumns == ASSUME SchemaInv, NEW p \in SchemaProcesses, Schema!LookUpColumns(p) PROVE SchemaInv'
<1>1. PICK y : y = process[p]
  OBVIOUS
<1>2. Knows(y) /\ y \in Start_Record /\ DatabaseInv /\ y.pc = "migrate"
  BY <1>1, UnderWay DEF Schema!LookUpColumns
<1>3. UNCHANGED << tables, columns, versions, crashes >> /\ crashes' \in 0..Crashes
  BY DEF Schema!LookUpColumns, Schema!Database, SchemaInv
<1>4. CASE "alert_groups" \notin tables
  BY <1>3, <1>4, LeavingStart DEF Schema!LookUpColumns, Schema!Database
<1>5. CASE "alert_groups" \in tables
  <2>1. PICK todo, x : todo = Added(y) \ columns /\ x = [y EXCEPT !.pc = "alter", !.todo = todo]
    OBVIOUS
  <2>2. process' = [process EXCEPT ![p] = x]
    <3>1. process' = [process EXCEPT ![p].pc = "alter", ![p].todo = todo]
      BY <1>1, <1>5, <2>1 DEF Schema!LookUpColumns, Schema!Target, Added
    <3> QED BY <1>1, <2>1, <3>1 DEF SchemaInv
  <2>3. y.version \in 1..3 /\ y.version \in versions
    BY <1>2 DEF Knows
  <2>4. Added(y) \subseteq Schema!ColumnsOf(5)
    <3>1. PICK v \in 1..3 : v = y.version
      BY <2>3
    <3>2. Schema!ToSet(Schema!AddedBy[v + 1]) \subseteq Schema!ColumnsOf(v + 1) /\ v + 1 \in 1..5
      BY SchemaColumns
    <3>3. Schema!ColumnsOf(v + 1) \subseteq Schema!ColumnsOf(5)
      BY <3>2, SchemaColumns
    <3> QED BY <3>1, <3>2, <3>3 DEF Added
  <2>5. todo \subseteq Added(y) /\ Added(y) \subseteq columns \union todo /\ todo \subseteq Schema!ColumnsOf(5)
    BY <2>1, <2>4
  <2>6. x \in Start_Record /\ x.version = y.version /\ x.pc = "alter" /\ x.todo = todo
    BY <1>2, <2>1, <2>5 DEF Start_Record
  <2>7. Added(x) = Added(y)
    BY <2>6 DEF Added
  <2>8. Knows(x)'
    BY <1>3, <2>3, <2>5, <2>6, <2>7 DEF Knows
  <2>9. DatabaseInv'
    BY <1>3 DEF SchemaInv, DatabaseInv
  <2> QED BY <1>3, <2>2, <2>8, <2>9, StepOfStart
<1> QED BY <1>4, <1>5
LEMMA SchemaAddColumn == ASSUME SchemaInv, NEW p \in SchemaProcesses, Schema!AddColumn(p) PROVE SchemaInv'
<1>1. PICK y : y = process[p]
  OBVIOUS
<1>2. Knows(y) /\ y \in Start_Record /\ DatabaseInv /\ y.pc = "alter" /\ y.todo # {}
  BY <1>1, UnderWay DEF Schema!AddColumn
<1>3. UNCHANGED << tables, versions, crashes >> /\ crashes' \in 0..Crashes
  BY DEF Schema!AddColumn, SchemaInv
<1>4. /\ y.version \in 1..3 /\ y.version \in versions
      /\ y.todo \subseteq Added(y) /\ Added(y) \subseteq columns \union y.todo
  BY <1>2 DEF Knows
<1>5. PICK order, c : order = Schema!AddedBy[y.version + 1] /\ c = Schema!First(order, y.todo)
  OBVIOUS
<1>6. c \in y.todo
  <2>1. DOMAIN order = 1..2
    BY <1>4, <1>5, SchemaColumns
  <2>2. \E i \in 1..2 : order[i] \in y.todo
    BY <1>2, <1>4, <1>5, <2>1 DEF Added, Schema!ToSet
  <2>3. 2 \in 1..3
    OBVIOUS
  <2> QED BY <1>5, <2>1, <2>2, <2>3, FirstToDo
<1>7. CASE c \in columns
  <2>1. Schema!Leave(p) /\ UNCHANGED columns
    BY <1>1, <1>5, <1>7 DEF Schema!AddColumn, Schema!Target
  <2> QED BY <1>3, <2>1, LeavingStart DEF Schema!Database
<1>8. CASE c \notin columns
  <2>1. PICK x : x = [y EXCEPT !.todo = @ \ {c}]
    OBVIOUS
  <2>2. /\ columns' = columns \union {c} /\ process' = [process EXCEPT ![p].todo = @ \ {c}]
    BY <1>1, <1>5, <1>8 DEF Schema!AddColumn, Schema!Target
  <2>3. process' = [process EXCEPT ![p] = x]
    BY <1>1, <2>1, <2>2 DEF SchemaInv
  <2>4. x \in Start_Record /\ x.version = y.version /\ x.pc = "alter" /\ x.todo = y.todo \ {c}
    BY <1>2, <2>1 DEF Start_Record
  <2>5. Added(x) = Added(y)
    BY <2>4 DEF Added
  <2>6. x.todo \subseteq Added(x) /\ Added(x) \subseteq columns' \union x.todo
    BY <1>4, <2>2, <2>4, <2>5
  <2>7. Knows(x)'
    BY <1>3, <1>4, <2>4, <2>6 DEF Knows, Added
  <2>8. c \in Schema!ColumnsOf(5)
    <3>1. PICK v \in 1..3 : v = y.version
      BY <1>4
    <3>2. Schema!ToSet(Schema!AddedBy[v + 1]) \subseteq Schema!ColumnsOf(v + 1) /\ v + 1 \in 1..5
      BY SchemaColumns
    <3>3. Schema!ColumnsOf(v + 1) \subseteq Schema!ColumnsOf(5)
      BY <3>2, SchemaColumns
    <3> QED BY <1>4, <1>6, <3>1, <3>2, <3>3 DEF Added
  <2>9. DatabaseInv'
    BY <1>2, <1>3, <2>2, <2>8 DEF DatabaseInv
  <2> QED BY <1>3, <2>2, <2>3, <2>7, <2>9, StepOfStart
<1> QED BY <1>7, <1>8

\* Recording a version whose columns and tables are there.
LEMMA SchemaRecord ==
    ASSUME SchemaInv, NEW p \in SchemaProcesses, NEW v \in 1..5, NEW next \in {"migrate", "runtime", "create"},
           Schema!Record(p, v, next), process[p] \in Start_Record,
           UNCHANGED << tables, columns, crashes >>,
           Schema!ColumnsOf(v) \subseteq columns, {"alert_groups", "schema_versions"} \subseteq tables,
           v = 5 => AllTables \subseteq tables,
           next = "migrate" => v \in 1..3, next = "runtime" => v = 4
    PROVE  SchemaInv'
<1>1. DatabaseInv /\ crashes' \in 0..Crashes
  BY DEF SchemaInv
<1>2. CASE v \in versions
  <2>1. Schema!Leave(p) /\ UNCHANGED versions
    BY <1>2 DEF Schema!Record
  <2> QED BY <1>1, <2>1, LeavingStart DEF Schema!Database
<1>3. CASE v \notin versions
  <2>1. PICK y, x : y = process[p] /\ x = [y EXCEPT !.pc = next, !.version = v, !.begun = FALSE]
    OBVIOUS
  <2>2. /\ versions' = versions \union {v}
        /\ process' = [process EXCEPT ![p].pc = next, ![p].version = v, ![p].begun = FALSE]
    BY <1>3 DEF Schema!Record
  <2>3. process' = [process EXCEPT ![p] = x]
    BY <2>1, <2>2 DEF SchemaInv
  <2>4. x \in Start_Record /\ x.pc = next /\ x.version = v /\ x.begun = FALSE
    <3>1. y \in Start_Record /\ v \in 0..5
      BY <2>1
    <3>2. next \in {"read", "migrate", "alter", "runtime", "create", "register"}
      OBVIOUS
    <3>3. x = [y EXCEPT !.pc = next, !.version = v, !.begun = FALSE]
      BY <2>1
    <3> QED BY <3>1, <3>2, <3>3 DEF Start_Record
  <2>5. Knows(x)'
    BY <2>2, <2>4 DEF Knows
  <2>6. DatabaseInv'
    BY <1>1, <2>2 DEF DatabaseInv
  <2> QED BY <1>1, <2>2, <2>3, <2>5, <2>6, StepOfStart
<1> QED BY <1>2, <1>3

LEMMA SchemaRecordMigration ==
    ASSUME SchemaInv, NEW p \in SchemaProcesses, Schema!RecordMigration(p) PROVE SchemaInv'
<1>1. PICK y : y = process[p]
  OBVIOUS
<1>2. Knows(y) /\ y \in Start_Record /\ DatabaseInv /\ y.pc = "alter" /\ y.todo = {}
  BY <1>1, UnderWay DEF Schema!RecordMigration, Schema!ColumnsAdded
<1>3. PICK u \in 1..3 : u = y.version /\ u \in versions
  BY <1>2 DEF Knows
<1>4. PICK v \in 2..4 : v = u + 1
  OBVIOUS
<1>5. /\ Schema!Record(p, v, IF v < 4 THEN "migrate" ELSE "runtime")
      /\ UNCHANGED << tables, columns, crashes >>
  BY <1>1, <1>3, <1>4 DEF Schema!RecordMigration, Schema!Target
<1>6. Schema!ToSet(Schema!AddedBy[v]) \subseteq columns
  BY <1>2, <1>3, <1>4 DEF Knows, Added
<1>7. Schema!ColumnsOf(v) \subseteq columns /\ {"alert_groups", "schema_versions"} \subseteq tables
  <2>1. Schema!ColumnsOf(u) \subseteq columns
    BY <1>2, <1>3 DEF DatabaseInv
  <2> QED BY <1>2, <1>3, <1>4, <1>6, <2>1, SchemaColumns DEF DatabaseInv
<1>8. CASE v < 4
  <2>1. Schema!Record(p, v, "migrate") /\ v \in 1..3 /\ v \in 1..5
    BY <1>5, <1>8
  <2> QED BY <1>1, <1>2, <1>5, <1>7, <2>1, SchemaRecord
<1>9. CASE v = 4
  <2>1. Schema!Record(p, v, "runtime") /\ v \in 1..5
    BY <1>5, <1>9
  <2> QED BY <1>1, <1>2, <1>5, <1>7, <1>9, <2>1, SchemaRecord
<1> QED BY <1>8, <1>9

LEMMA SchemaRecordRuntime ==
    ASSUME SchemaInv, NEW p \in SchemaProcesses, Schema!RecordRuntime(p) PROVE SchemaInv'
<1>1. PICK y : y = process[p]
  OBVIOUS
<1>2. Knows(y) /\ y \in Start_Record /\ DatabaseInv /\ y.pc = "runtime" /\ y.begun /\ y.todo = {}
  BY <1>1, UnderWay DEF Schema!RecordRuntime
<1>3. 4 \in versions /\ "runtime_jobs" \in tables
  BY <1>2 DEF Knows
<1>4. {"alert_groups", "schema_versions"} \subseteq tables /\ Schema!ColumnsOf(4) \subseteq columns
  BY <1>2, <1>3 DEF DatabaseInv
<1>5. AllTables \subseteq tables /\ Schema!ColumnsOf(5) \subseteq columns
  BY <1>3, <1>4, SchemaTables, SchemaColumns DEF AllTables
<1>6. Schema!Record(p, 5, "create") /\ UNCHANGED << tables, columns, crashes >> /\ 5 \in 1..5
  BY DEF Schema!RecordRuntime
<1>7. PICK v \in 1..5 : v = 5
  OBVIOUS
<1> QED BY <1>1, <1>2, <1>4, <1>5, <1>6, <1>7, SchemaRecord

\* The look-up of the missing tables among those wanted.
LEMMA SchemaLookUpTables ==
    ASSUME SchemaInv, NEW p \in SchemaProcesses, NEW wanted, Schema!LookUpTables(p, wanted),
           \/ process[p].pc = "runtime" /\ Schema!ToSet(wanted) = {"runtime_jobs"}
           \/ process[p].pc = "create" /\ Schema!ToSet(wanted) = AllTables
    PROVE  SchemaInv'
<1>1. PICK y, x : y = process[p] /\ x = [y EXCEPT !.begun = TRUE, !.todo = Schema!ToSet(wanted) \ tables]
  OBVIOUS
<1>2. Knows(y) /\ y \in Start_Record /\ DatabaseInv
  BY <1>1, UnderWay
<1>3. UNCHANGED << tables, columns, versions, crashes >> /\ crashes' \in 0..Crashes /\ DatabaseInv'
  BY DEF Schema!LookUpTables, Schema!Database, SchemaInv, DatabaseInv
<1>4. process' = [process EXCEPT ![p] = x]
  BY <1>1 DEF Schema!LookUpTables, SchemaInv
<1>5. Schema!ToSet(wanted) \subseteq AllTables
  BY SchemaTables DEF AllTables
<1>6. x \in Start_Record /\ x.pc = y.pc /\ x.todo = Schema!ToSet(wanted) \ tables
  BY <1>1, <1>2, <1>5 DEF Start_Record, AllTables
<1>7. CASE y.pc = "runtime" /\ Schema!ToSet(wanted) = {"runtime_jobs"}
  <2>1. 4 \in versions
    BY <1>2, <1>7 DEF Knows
  <2>2. Knows(x)'
    BY <1>3, <1>6, <1>7, <2>1 DEF Knows
  <2> QED BY <1>3, <1>4, <2>2, StepOfStart
<1>8. CASE y.pc = "create" /\ Schema!ToSet(wanted) = AllTables
  <2>1. Knows(x)'
    BY <1>3, <1>6, <1>8 DEF Knows
  <2> QED BY <1>3, <1>4, <2>1, StepOfStart
<1> QED BY <1>1, <1>7, <1>8

LEMMA SchemaCreateTable ==
    ASSUME SchemaInv, NEW p \in SchemaProcesses, Schema!CreateTable(p) PROVE SchemaInv'
<1>1. PICK y : y = process[p]
  OBVIOUS
<1>2. /\ Knows(y) /\ y \in Start_Record /\ DatabaseInv /\ y.pc \in {"runtime", "create"}
      /\ y.begun /\ y.todo # {}
  BY <1>1, UnderWay DEF Schema!CreateTable
<1>3. crashes' = crashes /\ crashes' \in 0..Crashes
  BY DEF Schema!CreateTable, SchemaInv
<1>4. PICK t : t = Schema!First(Schema!Tables, y.todo)
  OBVIOUS
<1>5. y.todo \subseteq AllTables
  BY <1>2, SchemaTables DEF Knows, AllTables
<1>6. t \in y.todo
  <2>1. \E i \in 1..3 : Schema!Tables[i] \in y.todo
    BY <1>2, <1>5, SchemaTables DEF AllTables, Schema!ToSet
  <2>2. 3 \in 1..3
    OBVIOUS
  <2> QED BY <1>4, <2>1, <2>2, SchemaTables, FirstToDo
<1>7. CASE t \in tables
  <2>1. Schema!Leave(p) /\ UNCHANGED Schema!Database
    BY <1>1, <1>4, <1>7 DEF Schema!CreateTable
  <2> QED BY <1>3, <2>1, LeavingStart
<1>8. CASE t \notin tables
  <2>1. PICK x : x = [y EXCEPT !.todo = @ \ {t}]
    OBVIOUS
  <2>2. /\ tables' = tables \union {t} /\ versions' = versions
        /\ columns' = IF t = "alert_groups" THEN Schema!ColumnsOf(5) ELSE columns
        /\ process' = [process EXCEPT ![p].todo = @ \ {t}]
    BY <1>1, <1>4, <1>8 DEF Schema!CreateTable
  <2>3. process' = [process EXCEPT ![p] = x]
    BY <1>1, <2>1, <2>2 DEF SchemaInv
  <2>4. x \in Start_Record /\ x.pc = y.pc /\ x.begun = y.begun /\ x.todo = y.todo \ {t}
    BY <1>2, <2>1 DEF Start_Record
  <2>5. columns \subseteq columns' /\ columns' \subseteq Schema!ColumnsOf(5)
    BY <1>2, <2>2 DEF DatabaseInv
  <2>6. DatabaseInv'
    <3>1. tables' \subseteq AllTables
      BY <1>2, <1>5, <1>6, <2>2 DEF DatabaseInv
    <3>2. versions' = {} /\ "alert_groups" \in tables' => Schema!ColumnsOf(5) \subseteq columns'
      BY <1>2, <2>2, <2>5 DEF DatabaseInv
    <3> QED BY <1>2, <2>2, <2>5, <3>1, <3>2 DEF DatabaseInv
  <2>7. Knows(x)'
    <3>1. CASE y.pc = "runtime"
      <4>1. /\ 4 \in versions /\ y.todo \subseteq {"runtime_jobs"} /\ "runtime_jobs" \in tables \union y.todo
        BY <1>2, <3>1 DEF Knows
      <4>2. x.todo \subseteq {"runtime_jobs"} /\ "runtime_jobs" \in tables' \union x.todo
        BY <2>2, <2>4, <4>1
      <4> QED BY <2>2, <2>4, <3>1, <4>1, <4>2 DEF Knows
    <3>2. CASE y.pc = "create"
      <4>1. x.todo \subseteq AllTables /\ AllTables \subseteq tables' \union x.todo
        BY <1>2, <2>2, <2>4, <3>2 DEF Knows
      <4> QED BY <2>2, <2>4, <3>2, <4>1 DEF Knows
    <3> QED BY <1>2, <3>1, <3>2
  <2> QED BY <1>3, <2>2, <2>3, <2>5, <2>6, <2>7, StepOfStart
<1> QED BY <1>7, <1>8

LEMMA SchemaReadEnsured ==
    ASSUME SchemaInv, NEW p \in SchemaProcesses, Schema!ReadEnsured(p) PROVE SchemaInv'
<1>1. PICK y : y = process[p]
  OBVIOUS
<1>2. /\ Knows(y) /\ y \in Start_Record /\ DatabaseInv /\ y.pc = "create" /\ y.begun /\ y.todo = {}
  BY <1>1, UnderWay DEF Schema!ReadEnsured
<1>3. UNCHANGED << tables, columns, versions, crashes >> /\ crashes' \in 0..Crashes /\ DatabaseInv'
  BY DEF Schema!ReadEnsured, Schema!Database, SchemaInv, DatabaseInv
<1>4. CASE Schema!MaxVersion # 0
  BY <1>3, <1>4, LeavingStart DEF Schema!ReadEnsured, Schema!Database
<1>5. CASE Schema!MaxVersion = 0
  <2>1. versions = {}
    <3>1. SUFFICES ASSUME versions # {} PROVE FALSE
      OBVIOUS
    <3>2. versions \in SUBSET (1..5)
      BY <1>2 DEF DatabaseInv
    <3>3. Schema!Max(versions) \in 1..5
      BY <3>1, <3>2, SchemaMax
    <3> QED BY <1>5, <3>1, <3>3 DEF Schema!MaxVersion
  <2>2. PICK x : x = [y EXCEPT !.pc = "register"]
    OBVIOUS
  <2>3. process' = [process EXCEPT ![p] = x]
    BY <1>1, <1>5, <2>2 DEF Schema!ReadEnsured, Schema!Goto, SchemaInv
  <2>4. x \in Start_Record /\ x.pc = "register"
    BY <1>2, <2>2 DEF Start_Record
  <2>5. AllTables \subseteq tables
    BY <1>2 DEF Knows
  <2>6. Schema!ColumnsOf(5) \subseteq columns
    BY <1>2, <2>1, <2>5, SchemaTables DEF DatabaseInv, AllTables
  <2>7. Knows(x)'
    BY <1>3, <2>4, <2>5, <2>6 DEF Knows, AllTables
  <2> QED BY <1>3, <2>3, <2>7, StepOfStart
<1> QED BY <1>4, <1>5

LEMMA SchemaRegister ==
    ASSUME SchemaInv, NEW p \in SchemaProcesses, Schema!Register(p) PROVE SchemaInv'
<1>1. Knows(process[p]) /\ DatabaseInv /\ process[p].pc = "register"
  BY UnderWay DEF Schema!Register
<1>2. /\ versions' = versions \union {5} /\ UNCHANGED << tables, columns, crashes >>
      /\ process' = [process EXCEPT ![p] = Schema!Idle] /\ crashes' \in 0..Crashes
  BY DEF Schema!Register, Schema!Leave, Schema!CURRENT_SCHEMA_VERSION, SchemaInv
<1>3. AllTables \subseteq tables /\ Schema!ColumnsOf(5) \subseteq columns
  BY <1>1 DEF Knows
<1>4. {"alert_groups", "schema_versions"} \subseteq tables
  BY <1>3, SchemaTables DEF AllTables
<1>5. DatabaseInv'
  BY <1>1, <1>2, <1>3, <1>4 DEF DatabaseInv, AllTables
<1> QED BY <1>2, <1>5, StepOfStart

LEMMA SchemaStep == SchemaAssumption /\ SchemaInv /\ [Schema!Next]_Schema!vars => SchemaInv'
<1> SUFFICES ASSUME SchemaAssumption, SchemaInv, [Schema!Next]_Schema!vars PROVE SchemaInv'
  OBVIOUS
<1>1. CASE UNCHANGED Schema!vars
  <2>1. UNCHANGED << tables, columns, versions, process, crashes >>
    BY <1>1 DEF Schema!vars
  <2> QED BY <2>1 DEF SchemaInv, DatabaseInv, Knows
<1>2. ASSUME NEW p \in SchemaProcesses, Schema!Crash(p) PROVE SchemaInv'
  <2>1. crashes' \in 0..Crashes
    BY <1>2 DEF Schema!Crash, SchemaInv, SchemaAssumption
  <2> QED BY <1>2, <2>1, LeavingStart DEF Schema!Crash
<1>3. ASSUME NEW p \in SchemaProcesses, Schema!CreateRuntimeTables(p) \/ Schema!CreateAll(p) PROVE SchemaInv'
  BY <1>3, SchemaLookUpTables, SchemaTables DEF Schema!CreateRuntimeTables, Schema!CreateAll, AllTables
<1>4. CASE Schema!Next
  BY <1>2, <1>3, <1>4, SchemaStart, SchemaReadVersion, SchemaLookUpColumns, SchemaAddColumn,
     SchemaRecordMigration, SchemaCreateTable, SchemaRecordRuntime, SchemaReadEnsured, SchemaRegister
     DEF Schema!Next
<1> QED BY <1>1, <1>4

\* The invariant of the part, in the composition.
LEMMA SchemaHolds == StorageSpec => [](part = "schema" => SchemaInv)
<1>1. StorageInit => (part = "schema" => SchemaInv)
  BY StorageAssumption, SchemaInit DEF StorageInit
<1>2. (part = "schema" => SchemaInv) /\ [StorageNext]_StorageVars => (part = "schema" => SchemaInv)'
  <2> SUFFICES ASSUME part = "schema" => SchemaInv, [StorageNext]_StorageVars, part' = "schema"
               PROVE  SchemaInv'
    OBVIOUS
  <2>1. part = "schema" /\ [Schema!Next]_(Schema!vars)
    BY DEF StorageNext, StoreNext, FilesNext, CapturesNext, SegmentNext, DataFilesNext, GatesNext,
           SchemaNext, RowSessionsNext, StorageVars, StoreVars, FileVars, CaptureVars, SegmentVars,
           DataFileVars, GateVars, SchemaVars, SessionVars, Schema!vars
  <2> QED BY <2>1, StorageAssumption, SchemaStep
<1> QED BY <1>1, <1>2, PTL DEF StorageSpec

\* A database has tables, columns and versions of the schema only, and a process
\* that initializes it is at a step of the migrations.
THEOREM SchemaTypesCorrect ==
    ASSUME SchemaAssumption PROVE Schema!Spec => []Schema!TypeOK
<1>1. SchemaInv => Schema!TypeOK
  BY DEF SchemaInv, DatabaseInv, Knows, Start_Record, AllTables, Schema!TypeOK, Schema!CURRENT_SCHEMA_VERSION
<1> QED BY <1>1, SchemaInit, SchemaStep, PTL DEF Schema!Spec

\* A database with a recorded version has the columns of that version, is never
\* refused, and with the current version has all tables, whichever processes
\* migrate it at once and whenever one of them dies.
THEOREM RecordedVersionsAreWhole == StorageSpec => []VersionIsWhole
<1>1. SchemaInv => Schema!VersionIsWhole
  <2> SUFFICES ASSUME SchemaInv PROVE Schema!VersionIsWhole
    OBVIOUS
  <2>1. DatabaseInv
    BY DEF SchemaInv
  <2>2. versions # {} => Schema!ColumnsOf(Schema!Max(versions)) \subseteq columns
    <3>1. versions \in SUBSET (1..5)
      BY <2>1 DEF DatabaseInv
    <3>2. versions # {} => Schema!Max(versions) \in versions
      BY <3>1, SchemaMax
    <3> QED BY <2>1, <3>2 DEF DatabaseInv
  <2> QED BY <2>1, <2>2 DEF DatabaseInv, Schema!VersionIsWhole, Schema!Refused, AllTables,
                            Schema!CURRENT_SCHEMA_VERSION
<1>2. (part = "schema" => SchemaInv) => VersionIsWhole
  BY <1>1 DEF VersionIsWhole
<1> QED BY <1>2, SchemaHolds, PTL

-----------------------------------------------------------------------------
(* Transactions on one row of runtime_jobs.                                *)

JobFields ==
    {"status", "desired_action", "claimed_by", "lease", "attempt_number", "current_attempt",
     "retryable", "observed", "progress", "recovery_count", "attempts"}
AttemptFields == {"status", "worker_id", "observed"}

\* The open attempt a of the job r mirrors it; w holds the lease.
Mirrors(a, r, w) ==
    /\ DOMAIN a = AttemptFields
    /\ a.worker_id = w /\ a.observed = r.observed
    /\ a.status = IF r.status = "paused" THEN "paused" ELSE "running"

\* A row in its first attempt.
FirstAttempt(r, w) ==
    /\ DOMAIN r = JobFields
    /\ r.status \in RowSessions!LeasedStatus /\ r.claimed_by = w
    /\ r.attempt_number = 1 /\ r.current_attempt = 1
    /\ \E a : r.attempts = << a >> /\ Mirrors(a, r, w)

\* What a transaction in flight knows of the row it will be merged into: the worker
\* changes statuses that nobody else leaves, and so does the operator.
Flight(t, w) == FirstAttempt(t.from, w) /\ FirstAttempt(t.to, w)

WorkerFlight(t, w) ==
    /\ Flight(t, w)
    /\ t.to.status # t.from.status =>
            row.status = t.from.status /\ row.status \in {"validating", "pause_requested"}

OperatorFlight(t, w) ==
    Flight(t, w) /\ row.status = t.from.status /\ row.status \in {"running", "paused"}

InFlight(s, w) ==
    \E t : /\ transaction[s] = << t >>
           /\ DOMAIN t = {"from", "to", "ends"} /\ ~t.ends
           /\ \/ s = w /\ WorkerFlight(t, w)
              \/ s = OperatorSession /\ OperatorFlight(t, w)

Waiting ==
    /\ row = RowSessions!Add(RowSessions!AbsentJob)
    /\ \A s \in RowSessions!Sessions : transaction[s] = << >>
    /\ \A w \in Workers : driving[w] = 0

Driven(w) ==
    /\ FirstAttempt(row, w)
    /\ \A v \in Workers : v # w => driving[v] = 0
    /\ \A s \in RowSessions!Sessions : transaction[s] # << >> => InFlight(s, w)

SessionsInv ==
    /\ DOMAIN driving = Workers /\ DOMAIN transaction = RowSessions!Sessions
    /\ Waiting \/ \E w \in Workers : Driven(w)

-----------------------------------------------------------------------------
\* A flush of the changed columns leaves a row whose attempt mirrors it, if nobody else
\* changed the status that it changes.
LEMMA MergeMirrors ==
    ASSUME NEW now, NEW from, NEW to, NEW w,
           FirstAttempt(now, w), FirstAttempt(from, w), FirstAttempt(to, w),
           to.status = from.status \/ now.status = from.status
    PROVE  /\ FirstAttempt(RowSessions!Merge(now, from, to), w)
           /\ RowSessions!Merge(now, from, to).status =
                IF to.status = from.status THEN now.status ELSE to.status
<1> DEFINE m == RowSessions!Merge(now, from, to)
<1>1. PICK n : now.attempts = << n >> /\ Mirrors(n, now, w)
  BY DEF FirstAttempt
<1>2. PICK f : from.attempts = << f >> /\ Mirrors(f, from, w)
  BY DEF FirstAttempt
<1>3. PICK t : to.attempts = << t >> /\ Mirrors(t, to, w)
  BY DEF FirstAttempt
<1>4. PICK a : a = RowSessions!MergeAttempt(n, f, t)
  OBVIOUS
<1>5. DOMAIN m = JobFields /\ m.attempts = << a >>
  <2>1. DOMAIN << n >> = {1} /\ DOMAIN << f >> = {1}
    OBVIOUS
  <2>2. m.attempts = [i \in {1} |-> RowSessions!MergeAttempt(<< n >>[i], << f >>[i], << t >>[i])]
    BY <1>1, <1>2, <1>3, <2>1 DEF FirstAttempt, JobFields, RowSessions!Merge
  <2>3. m.attempts = [i \in {1} |-> a]
    BY <2>2, <1>4
  <2>4. [i \in {1} |-> a] = << a >>
    OBVIOUS
  <2> QED BY <2>3, <2>4 DEF FirstAttempt, RowSessions!Merge
<1>6. /\ \A c \in JobFields \ {"attempts"} : m[c] = IF to[c] = from[c] THEN now[c] ELSE to[c]
      /\ DOMAIN a = AttemptFields
      /\ \A c \in AttemptFields : a[c] = IF t[c] = f[c] THEN n[c] ELSE t[c]
  BY <1>1, <1>4 DEF FirstAttempt, Mirrors, RowSessions!Merge, RowSessions!MergeAttempt
<1>7. /\ m.status = IF to.status = from.status THEN now.status ELSE to.status
      /\ m.claimed_by = w /\ m.attempt_number = 1 /\ m.current_attempt = 1
      /\ m.observed = IF to.observed = from.observed THEN now.observed ELSE to.observed
  BY <1>6 DEF FirstAttempt, JobFields
<1>8. /\ a.worker_id = w
      /\ a.observed = IF t.observed = f.observed THEN n.observed ELSE t.observed
      /\ a.status = IF t.status = f.status THEN n.status ELSE t.status
  BY <1>6, <1>1, <1>2, <1>3 DEF Mirrors, AttemptFields
<1> HIDE DEF m
<1>9. Mirrors(a, m, w)
  BY <1>6, <1>7, <1>8, <1>1, <1>2, <1>3 DEF Mirrors
<1>10. m.status \in RowSessions!LeasedStatus
  BY <1>7 DEF FirstAttempt
<1>11. FirstAttempt(m, w)
  BY <1>5, <1>7, <1>9, <1>10 DEF FirstAttempt
<1> QED BY <1>7, <1>11 DEF m

-----------------------------------------------------------------------------
\* What the methods make of a row in its first attempt.
LEMMA Transitions ==
    ASSUME NEW r, NEW w, FirstAttempt(r, w)
    PROVE  /\ FirstAttempt(RowSessions!Age(r), w) /\ RowSessions!Age(r).status = r.status
           /\ RowSessions!MarkRunning(r).status = "running"
           /\ r.status = "validating" => FirstAttempt(RowSessions!MarkRunning(r), w)
           /\ FirstAttempt(RowSessions!Heartbeat(r), w) /\ RowSessions!Heartbeat(r).status = r.status
           /\ \A n : /\ FirstAttempt(RowSessions!Observe(r, n), w)
                     /\ RowSessions!Observe(r, n).status = r.status
           /\ FirstAttempt(RowSessions!MarkPaused(r), w) /\ RowSessions!MarkPaused(r).status = "paused"
           /\ r.status = "running" => FirstAttempt(RowSessions!RequestPause(r), w)
           /\ FirstAttempt(RowSessions!Resume(r), w)
<1>1. PICK a : r.attempts = << a >> /\ Mirrors(a, r, w)
  BY DEF FirstAttempt
<1>2. ASSUME NEW q, DOMAIN q = JobFields, q.attempts = << a >>,
             q.status \in RowSessions!LeasedStatus, q.claimed_by = w, q.observed = r.observed,
             q.attempt_number = 1, q.current_attempt = 1,
             (q.status = "paused") = (r.status = "paused")
      PROVE  FirstAttempt(q, w)
  BY <1>1, <1>2 DEF FirstAttempt, Mirrors
<1>3. FirstAttempt(RowSessions!Age(r), w) /\ RowSessions!Age(r).status = r.status
  BY <1>1, <1>2 DEF FirstAttempt, JobFields, RowSessions!Age
<1>4. /\ RowSessions!MarkRunning(r).status = "running"
      /\ r.status = "validating" => FirstAttempt(RowSessions!MarkRunning(r), w)
  BY <1>1, <1>2 DEF FirstAttempt, JobFields, RowSessions!MarkRunning, RowSessions!LeasedStatus
<1>5. FirstAttempt(RowSessions!Heartbeat(r), w) /\ RowSessions!Heartbeat(r).status = r.status
  BY <1>1, <1>2 DEF FirstAttempt, JobFields, RowSessions!Heartbeat
<1>6. r.status = "running" => FirstAttempt(RowSessions!RequestPause(r), w)
  <2>1. PICK q : q = RowSessions!RequestPause(r)
    OBVIOUS
  <2>2. /\ DOMAIN q = JobFields /\ q.attempts = << a >> /\ q.status = "pause_requested"
        /\ q.claimed_by = w /\ q.observed = r.observed
        /\ q.attempt_number = 1 /\ q.current_attempt = 1
    BY <1>1, <2>1 DEF FirstAttempt, JobFields, RowSessions!RequestPause
  <2> QED BY <1>2, <2>1, <2>2 DEF RowSessions!LeasedStatus
<1>7. ASSUME NEW e PROVE [<< a >> EXCEPT ![1] = e] = << e >>
  OBVIOUS
<1>8. ASSUME NEW n
      PROVE  /\ FirstAttempt(RowSessions!Observe(r, n), w)
             /\ RowSessions!Observe(r, n).status = r.status
  <2> DEFINE q == RowSessions!Observe(r, n)
             e == [a EXCEPT !.observed = n]
  <2>1. q.attempts = [<< a >> EXCEPT ![1] = e]
    BY <1>1 DEF FirstAttempt, JobFields, RowSessions!Observe
  <2>2. /\ DOMAIN q = JobFields /\ q.status = r.status /\ q.claimed_by = w /\ q.observed = n
        /\ q.attempt_number = 1 /\ q.current_attempt = 1
    BY DEF FirstAttempt, JobFields, RowSessions!Observe
  <2>3. Mirrors(e, q, w)
    BY <1>1, <2>2 DEF Mirrors, AttemptFields
  <2> QED BY <1>7, <2>1, <2>2, <2>3 DEF FirstAttempt
<1>9. ASSUME NEW p, NEW s, DOMAIN p = JobFields, p.attempts = << a >>,
             p.status \in RowSessions!LeasedStatus, p.claimed_by = w, p.observed = r.observed,
             p.attempt_number = 1, p.current_attempt = 1,
             s = IF p.status = "paused" THEN "paused" ELSE "running"
      PROVE  /\ FirstAttempt(RowSessions!SetAttempt(p, s), w)
             /\ RowSessions!SetAttempt(p, s).status = p.status
  <2> DEFINE q == RowSessions!SetAttempt(p, s)
             e == [a EXCEPT !.status = s, !.observed = p.observed]
  <2>1. q.attempts = [<< a >> EXCEPT ![1] = e]
    BY <1>9 DEF JobFields, RowSessions!SetAttempt
  <2>2. /\ DOMAIN q = JobFields /\ q.status = p.status /\ q.claimed_by = w /\ q.observed = p.observed
        /\ q.attempt_number = 1 /\ q.current_attempt = 1
    BY <1>9 DEF JobFields, RowSessions!SetAttempt
  <2>3. Mirrors(e, q, w)
    BY <1>1, <1>9, <2>2 DEF Mirrors, AttemptFields
  <2> QED BY <1>7, <1>9, <2>1, <2>2, <2>3 DEF FirstAttempt
<1>10. FirstAttempt(RowSessions!MarkPaused(r), w) /\ RowSessions!MarkPaused(r).status = "paused"
  BY <1>1, <1>9 DEF FirstAttempt, JobFields, RowSessions!MarkPaused, RowSessions!LeasedStatus
<1>11. FirstAttempt(RowSessions!Resume(r), w)
  <2>1. PICK p : p = [r EXCEPT !.status = "running", !.desired_action = "run"]
    OBVIOUS
  <2>2. /\ DOMAIN p = JobFields /\ p.attempts = << a >> /\ p.status = "running"
        /\ p.claimed_by = w /\ p.observed = r.observed
        /\ p.attempt_number = 1 /\ p.current_attempt = 1
    BY <1>1, <2>1 DEF FirstAttempt, JobFields
  <2>3. FirstAttempt(RowSessions!SetAttempt(p, "running"), w)
    BY <1>9, <2>2 DEF RowSessions!LeasedStatus
  <2> QED BY <2>1, <2>3 DEF RowSessions!Resume
<1> QED BY <1>3, <1>4, <1>5, <1>6, <1>8, <1>10, <1>11

-----------------------------------------------------------------------------
LEMMA SessionsInit == RowSessions!Init => SessionsInv
BY DEF RowSessions!Init, SessionsInv, Waiting

\* A job nobody claimed has no transaction but the claim.
LEMMA WaitingStep ==
    ASSUME SessionsAssumption, SessionsInv, Waiting, RowSessions!Next
    PROVE  SessionsInv'
<1>1. /\ DOMAIN row = JobFields /\ row.status = "queued" /\ row.attempts = << >>
      /\ row.observed = 0 /\ row.lease = -2
  BY DEF Waiting, RowSessions!Add, RowSessions!AbsentJob, RowSessions!NoLease, JobFields
<1>2. ASSUME NEW s \in RowSessions!Sessions, RowSessions!Read(s) PROVE FALSE
  <2>1. s # OperatorSession /\ s # StarterSession => s \in Workers /\ driving[s] = 0
    BY DEF RowSessions!Sessions, Waiting
  <2>2. RowSessions!OperatorTransactions(row) = {}
    BY <1>1 DEF RowSessions!OperatorTransactions, RowSessions!Continues, RowSessions!If,
                RowSessions!CanRequestPause, RowSessions!CanResume, RowSessions!CanRecover
  <2>3. RowSessions!StarterTransactions(row) = {}
    BY DEF RowSessions!StarterTransactions, RowSessions!Ends
  <2> QED BY <1>2, <2>1, <2>2, <2>3 DEF RowSessions!Read, RowSessions!Available
<1>3. ASSUME NEW s \in RowSessions!Sessions, RowSessions!Commit(s) PROVE FALSE
  BY <1>3 DEF RowSessions!Commit, Waiting
<1>4. ASSUME NEW w \in Workers, RowSessions!ClaimJob(w) PROVE SessionsInv'
  <2>1. PICK c : c = RowSessions!Claim(row, w)
    OBVIOUS
  <2>2. /\ DOMAIN c = JobFields /\ c.status = "validating" /\ c.attempts = << >>
        /\ c.observed = 0 /\ c.claimed_by = w
    BY <1>1, <2>1 DEF RowSessions!Claim, JobFields
  <2>3. row' = RowSessions!StartAttempt(c, w)
    BY <1>4, <2>1 DEF RowSessions!ClaimJob
  <2>4. PICK a : a = [status |-> "running", worker_id |-> w, observed |-> 0]
    OBVIOUS
  <2>5. Len(<< >>) + 1 = 1 /\ Append(<< >>, a) = << a >>
    OBVIOUS
  <2>6. /\ DOMAIN row' = JobFields /\ row'.status = "validating" /\ row'.claimed_by = w
        /\ row'.attempt_number = 1 /\ row'.current_attempt = 1 /\ row'.observed = 0
        /\ row'.attempts = << a >>
    BY <2>2, <2>3, <2>4, <2>5 DEF RowSessions!StartAttempt, JobFields
  <2>7. FirstAttempt(row', w)
    BY <2>4, <2>6 DEF FirstAttempt, Mirrors, AttemptFields, RowSessions!LeasedStatus
  <2>8. /\ DOMAIN driving' = Workers /\ transaction' = transaction
        /\ \A v \in Workers : v # w => driving'[v] = 0
    BY <1>4 DEF RowSessions!ClaimJob, SessionsInv, Waiting
  <2> QED BY <2>7, <2>8 DEF SessionsInv, Driven, Waiting
<1>5. ASSUME NEW w \in Workers, RowSessions!Crash(w) PROVE FALSE
  BY <1>5 DEF RowSessions!Crash, Waiting
<1>6. ASSUME RowSessions!Tick PROVE SessionsInv'
  <2>1. row' = row /\ driving' = driving
    <3>1. ~(row.lease >= 0)
      BY <1>1
    <3> QED BY <1>6, <3>1 DEF RowSessions!Tick, RowSessions!Age
  <2>2. DOMAIN transaction' = RowSessions!Sessions
    BY <1>6 DEF RowSessions!Tick
  <2>3. ASSUME NEW s \in RowSessions!Sessions PROVE transaction'[s] = << >>
    <3>1. transaction'[s] = [i \in DOMAIN transaction[s] |->
              [transaction[s][i] EXCEPT !.from = RowSessions!Age(@), !.to = RowSessions!Age(@)]]
      BY <1>6 DEF RowSessions!Tick
    <3>2. transaction[s] = << >>
      BY DEF Waiting
    <3>3. DOMAIN << >> = {}
      OBVIOUS
    <3> QED BY <3>1, <3>2, <3>3
  <2> QED BY <2>1, <2>2, <2>3 DEF SessionsInv, Waiting
<1> QED BY <1>2, <1>3, <1>4, <1>5, <1>6 DEF RowSessions!Next

\* What a session reads of a driven job and makes of it.
LEMMA ReadInFlight ==
    ASSUME SessionsAssumption, NEW w \in Workers, FirstAttempt(row, w),
           \A v \in Workers : v # w => driving[v] = 0,
           NEW s \in RowSessions!Sessions, NEW t \in RowSessions!Available(s, row)
    PROVE  /\ DOMAIN t = {"from", "to", "ends"} /\ ~t.ends
           /\ \/ s = w /\ WorkerFlight(t, w)
              \/ s = OperatorSession /\ OperatorFlight(t, w)
<1>1. row.status \in {"validating", "running", "pause_requested", "paused"}
  BY DEF FirstAttempt, RowSessions!LeasedStatus
<1>2. CASE s = OperatorSession
  <2>1. t \in RowSessions!OperatorTransactions(row)
    BY <1>2 DEF RowSessions!Available
  <2>2. PICK x : /\ t = [from |-> row, to |-> x, ends |-> FALSE]
                 /\ \/ row.status = "running" /\ x = RowSessions!RequestPause(row)
                    \/ row.status = "paused" /\ x = RowSessions!Resume(row)
    BY <1>1, <2>1 DEF RowSessions!OperatorTransactions, RowSessions!Continues, RowSessions!If,
                RowSessions!CanRequestPause, RowSessions!CanResume, RowSessions!CanRecover
  <2> QED BY <1>2, <2>2, Transitions DEF OperatorFlight, Flight
<1>3. CASE s = StarterSession
  BY <1>3 DEF SessionsAssumption, RowSessions!Available, RowSessions!StarterTransactions, RowSessions!Ends
<1>4. CASE s \in Workers
  <2>1. s = w /\ t \in RowSessions!WorkerTransactions(row, w)
    BY <1>4 DEF SessionsAssumption, RowSessions!Available
  <2>2. PICK x : /\ t = [from |-> row, to |-> x, ends |-> FALSE]
                 /\ \/ row.status = "validating" /\ x = RowSessions!MarkRunning(row)
                    \/ \E n : x \in RowSessions!CheckResults(row, n)
    BY <2>1 DEF RowSessions!WorkerTransactions, RowSessions!Continues, RowSessions!If, RowSessions!Ends,
                RowSessions!CanMarkRunning
  <2>3. ASSUME NEW n, x \in RowSessions!CheckResults(row, n)
        PROVE  /\ FirstAttempt(x, w)
               /\ x.status # row.status => row.status = "pause_requested"
    <3>1. PICK o : o = RowSessions!Observe(row, n)
      OBVIOUS
    <3>2. FirstAttempt(o, w) /\ o.status = row.status
      BY <3>1, Transitions
    <3>3. PICK p : p = IF row.status = "pause_requested" THEN RowSessions!MarkPaused(o) ELSE o
      OBVIOUS
    <3>4. FirstAttempt(p, w) /\ (p.status # row.status => row.status = "pause_requested")
      BY <3>2, <3>3, Transitions
    <3>5. x \in {p, RowSessions!Heartbeat(p)}
      BY <2>3, <3>1, <3>3 DEF RowSessions!CheckResults
    <3> QED BY <3>4, <3>5, Transitions
  <2> QED BY <2>1, <2>2, <2>3, Transitions DEF WorkerFlight, Flight
<1> QED BY <1>2, <1>3, <1>4 DEF RowSessions!Sessions

LEMMA DrivenStep ==
    ASSUME SessionsAssumption, SessionsInv, NEW w \in Workers, Driven(w), RowSessions!Next
    PROVE  SessionsInv'
<1>0. /\ DOMAIN driving = Workers /\ DOMAIN transaction = RowSessions!Sessions
      /\ w # OperatorSession
  BY DEF SessionsInv, SessionsAssumption
<1>1. ASSUME NEW s \in RowSessions!Sessions, RowSessions!Read(s) PROVE SessionsInv'
  <2>1. PICK t \in RowSessions!Available(s, row) : transaction' = [transaction EXCEPT ![s] = << t >>]
    BY <1>1 DEF RowSessions!Read
  <2>2. row' = row /\ driving' = driving
    BY <1>1 DEF RowSessions!Read
  <2>3. /\ DOMAIN t = {"from", "to", "ends"} /\ ~t.ends
        /\ \/ s = w /\ WorkerFlight(t, w)
           \/ s = OperatorSession /\ OperatorFlight(t, w)
    BY ReadInFlight DEF Driven
  <2>4. ASSUME NEW v \in RowSessions!Sessions, transaction'[v] # << >> PROVE InFlight(v, w)'
    <3>1. CASE v = s
      <4>1. transaction'[v] = << t >>
        BY <1>0, <2>1, <3>1
      <4> QED BY <2>2, <2>3, <3>1, <4>1 DEF InFlight, WorkerFlight, OperatorFlight
    <3>2. CASE v # s
      <4>1. transaction'[v] = transaction[v]
        BY <1>0, <2>1, <3>2
      <4> QED BY <2>2, <2>4, <4>1 DEF Driven, InFlight, WorkerFlight, OperatorFlight
    <3> QED BY <3>1, <3>2
  <2>5. DOMAIN transaction' = RowSessions!Sessions
    BY <1>0, <2>1
  <2> QED BY <1>0, <2>2, <2>4, <2>5 DEF SessionsInv, Driven
<1>2. ASSUME NEW s \in RowSessions!Sessions, RowSessions!Commit(s) PROVE SessionsInv'
  <2>1. PICK t : /\ transaction[s] = << t >> /\ ~t.ends
                 /\ \/ s = w /\ WorkerFlight(t, w)
                    \/ s = OperatorSession /\ OperatorFlight(t, w)
    BY <1>2 DEF RowSessions!Commit, Driven, InFlight
  <2>2. transaction[s][1] = t
    BY <2>1
  <2>3. /\ row' = RowSessions!Merge(row, t.from, t.to)
        /\ transaction' = [transaction EXCEPT ![s] = << >>]
        /\ driving' = [v \in Workers |-> IF v = s /\ t.ends THEN 0 ELSE driving[v]]
    BY <1>2, <2>2 DEF RowSessions!Commit
  <2>4. /\ FirstAttempt(row', w)
        /\ row'.status = IF t.to.status = t.from.status THEN row.status ELSE t.to.status
    <3>1. FirstAttempt(row, w) /\ FirstAttempt(t.from, w) /\ FirstAttempt(t.to, w)
      BY <2>1 DEF Driven, WorkerFlight, OperatorFlight, Flight
    <3>2. t.to.status = t.from.status \/ row.status = t.from.status
      BY <2>1 DEF WorkerFlight, OperatorFlight
    <3>3. PICK p : p = RowSessions!Merge(row, t.from, t.to)
      OBVIOUS
    <3>4. /\ FirstAttempt(p, w)
          /\ p.status = IF t.to.status = t.from.status THEN row.status ELSE t.to.status
      BY <3>1, <3>2, <3>3, MergeMirrors
    <3>5. row' = p
      BY <2>3, <3>3
    <3> QED BY <3>4, <3>5
  <2>5. ASSUME NEW v \in RowSessions!Sessions, transaction'[v] # << >> PROVE InFlight(v, w)'
    <3>1. v # s /\ transaction'[v] = transaction[v]
      BY <1>0, <2>3, <2>5
    <3>2. PICK u : /\ transaction[v] = << u >> /\ DOMAIN u = {"from", "to", "ends"} /\ ~u.ends
                   /\ \/ v = w /\ WorkerFlight(u, w)
                      \/ v = OperatorSession /\ OperatorFlight(u, w)
      BY <2>5, <3>1 DEF Driven, InFlight
    <3>3. CASE v = w
      <4>1. WorkerFlight(u, w) /\ OperatorFlight(t, w)
        BY <1>0, <2>1, <3>1, <3>2, <3>3
      <4>2. u.to.status = u.from.status
        BY <4>1 DEF WorkerFlight, OperatorFlight
      <4> QED BY <3>1, <3>2, <3>3, <4>1, <4>2 DEF InFlight, WorkerFlight
    <3>4. CASE v = OperatorSession
      <4>1. WorkerFlight(t, w) /\ OperatorFlight(u, w)
        BY <1>0, <2>1, <3>1, <3>2, <3>4
      <4>2. row'.status = row.status
        BY <2>4, <4>1 DEF WorkerFlight, OperatorFlight
      <4> QED BY <3>1, <3>2, <3>4, <4>1, <4>2 DEF InFlight, OperatorFlight
    <3> QED BY <3>2, <3>3, <3>4
  <2>6. /\ DOMAIN transaction' = RowSessions!Sessions /\ DOMAIN driving' = Workers
        /\ \A v \in Workers : v # w => driving'[v] = 0
    BY <1>0, <2>1, <2>3 DEF Driven
  <2> QED BY <1>0, <2>4, <2>5, <2>6 DEF SessionsInv, Driven
<1>3. ASSUME NEW v \in Workers, RowSessions!ClaimJob(v) PROVE FALSE
  BY <1>3 DEF RowSessions!ClaimJob, RowSessions!CanClaim, Driven, FirstAttempt, RowSessions!LeasedStatus
<1>4. ASSUME NEW v \in Workers, RowSessions!Crash(v) PROVE SessionsInv'
  <2>1. /\ driving' = [driving EXCEPT ![v] = 0] /\ row' = row
        /\ transaction' = [transaction EXCEPT ![v] = << >>]
    BY <1>4 DEF RowSessions!Crash
  <2>2. v \in RowSessions!Sessions
    BY DEF RowSessions!Sessions
  <2>3. \A u \in RowSessions!Sessions :
          transaction'[u] # << >> => transaction'[u] = transaction[u]
    BY <1>0, <2>1, <2>2
  <2>4. \A u \in RowSessions!Sessions : transaction'[u] # << >> => InFlight(u, w)'
    BY <2>1, <2>3 DEF Driven, InFlight, WorkerFlight, OperatorFlight
  <2>5. /\ DOMAIN driving' = Workers /\ DOMAIN transaction' = RowSessions!Sessions
        /\ \A u \in Workers : u # w => driving'[u] = 0
    BY <1>0, <2>1 DEF Driven
  <2> QED BY <2>1, <2>4, <2>5 DEF SessionsInv, Driven
<1>5. ASSUME RowSessions!Tick PROVE SessionsInv'
  <2>1. /\ row' = RowSessions!Age(row) /\ driving' = driving
        /\ DOMAIN transaction' = RowSessions!Sessions
    BY <1>5 DEF RowSessions!Tick
  <2>2. FirstAttempt(row', w) /\ row'.status = row.status
    BY <2>1, Transitions DEF Driven
  <2>3. ASSUME NEW s \in RowSessions!Sessions, transaction'[s] # << >> PROVE InFlight(s, w)'
    <3>1. transaction'[s] = [i \in DOMAIN transaction[s] |->
              [transaction[s][i] EXCEPT !.from = RowSessions!Age(@), !.to = RowSessions!Age(@)]]
      BY <1>5 DEF RowSessions!Tick
    <3>2. transaction[s] # << >>
      <4>1. DOMAIN << >> = {}
        OBVIOUS
      <4>2. CASE transaction[s] = << >>
        <5>1. transaction'[s] = << >>
          BY <3>1, <4>1, <4>2
        <5> QED BY <2>3, <5>1
      <4> QED BY <4>2
    <3>3. PICK t : /\ transaction[s] = << t >> /\ DOMAIN t = {"from", "to", "ends"} /\ ~t.ends
                   /\ \/ s = w /\ WorkerFlight(t, w)
                      \/ s = OperatorSession /\ OperatorFlight(t, w)
      BY <3>2 DEF Driven, InFlight
    <3>4. PICK u : u = [t EXCEPT !.from = RowSessions!Age(@), !.to = RowSessions!Age(@)]
      OBVIOUS
    <3>5. transaction'[s] = << u >>
      <4>1. DOMAIN << t >> = {1} /\ << t >>[1] = t
        OBVIOUS
      <4>2. transaction'[s] = [i \in {1} |-> [<< t >>[i] EXCEPT !.from = RowSessions!Age(@), !.to = RowSessions!Age(@)]]
        BY <3>1, <3>3, <4>1
      <4>3. DOMAIN transaction'[s] = {1} /\ transaction'[s][1] = u
        BY <3>4, <4>1, <4>2
      <4>4. transaction'[s] = [i \in {1} |-> transaction'[s][i]]
        BY <4>2
      <4>5. [i \in {1} |-> u] = << u >>
        OBVIOUS
      <4> QED BY <4>3, <4>4, <4>5
    <3>6. /\ DOMAIN u = {"from", "to", "ends"} /\ ~u.ends
          /\ u.from = RowSessions!Age(t.from) /\ u.to = RowSessions!Age(t.to)
      BY <3>3, <3>4
    <3>7. Flight(t, w)
      BY <3>3 DEF WorkerFlight, OperatorFlight
    <3>8. /\ Flight(u, w) /\ u.from.status = t.from.status /\ u.to.status = t.to.status
      BY <3>6, <3>7, Transitions DEF Flight
    <3> QED BY <2>2, <3>3, <3>5, <3>6, <3>8 DEF InFlight, WorkerFlight, OperatorFlight
  <2> QED BY <1>0, <2>1, <2>2, <2>3 DEF SessionsInv, Driven
<1> QED BY <1>1, <1>2, <1>3, <1>4, <1>5 DEF RowSessions!Next

LEMMA SessionsStep ==
    SessionsAssumption /\ SessionsInv /\ [RowSessions!Next]_(RowSessions!vars) => SessionsInv'
<1> SUFFICES ASSUME SessionsAssumption, SessionsInv, [RowSessions!Next]_(RowSessions!vars)
             PROVE  SessionsInv'
  OBVIOUS
<1>1. CASE UNCHANGED RowSessions!vars
  BY <1>1 DEF RowSessions!vars, SessionsInv, Waiting, Driven, InFlight, WorkerFlight, OperatorFlight
<1>2. CASE RowSessions!Next
  BY <1>2, WaitingStep, DrivenStep DEF SessionsInv
<1> QED BY <1>1, <1>2

\* The invariant, in the words of the property.
LEMMA AttemptIsMirrored == SessionsInv => RowSessions!OpenAttemptMirrored
<1> SUFFICES ASSUME SessionsInv PROVE RowSessions!AttemptHistory(row)
  BY DEF RowSessions!OpenAttemptMirrored
<1>1. CASE Waiting
  <2>1. /\ row.status = "queued" /\ row.attempts = << >> /\ row.current_attempt = 0
        /\ row.attempt_number = 0 /\ Len(<< >>) = 0
    BY <1>1 DEF Waiting, RowSessions!Add, RowSessions!AbsentJob
  <2> QED BY <2>1 DEF RowSessions!AttemptHistory, RowSessions!Leased, RowSessions!LeasedStatus
<1>2. ASSUME NEW w \in Workers, Driven(w) PROVE RowSessions!AttemptHistory(row)
  <2>1. PICK a : row.attempts = << a >> /\ Mirrors(a, row, w)
    BY <1>2 DEF Driven, FirstAttempt
  <2>2. Len(<< a >>) = 1 /\ << a >>[1] = a
    OBVIOUS
  <2>3. \A n \in 1..1 : n = 1
    OBVIOUS
  <2> QED BY <1>2, <2>1, <2>2, <2>3
          DEF Driven, FirstAttempt, Mirrors, RowSessions!AttemptHistory, RowSessions!Leased,
              RowSessions!LeasedStatus, RowSessions!LiveAttempt
<1> QED BY <1>1, <1>2 DEF SessionsInv

\* The invariant of the part, in the composition.
LEMMA SessionsHold == StorageSpec => [](part = "sessions" => SessionsInv)
<1>1. StorageInit => (part = "sessions" => SessionsInv)
  BY StorageAssumption, SessionsInit DEF StorageInit, StorageAssumption
<1>2. (part = "sessions" => SessionsInv) /\ [StorageNext]_StorageVars => (part = "sessions" => SessionsInv)'
  <2> SUFFICES ASSUME part = "sessions" => SessionsInv, [StorageNext]_StorageVars, part' = "sessions"
               PROVE  SessionsInv'
    OBVIOUS
  <2>1. part = "sessions" /\ [RowSessions!Next]_(RowSessions!vars)
    BY DEF StorageNext, StoreNext, FilesNext, CapturesNext, SegmentNext, DataFilesNext, GatesNext,
           SchemaNext, RowSessionsNext, StorageVars, StoreVars, FileVars, CaptureVars, SegmentVars,
           DataFileVars, GateVars, SchemaVars, SessionVars,
           RowSessions!vars
  <2> QED BY <2>1, StorageAssumption, SessionsStep DEF StorageAssumption
<1> QED BY <1>1, <1>2, PTL DEF StorageSpec

\* The open attempt of a job mirrors its row, although sessions that overlap flush
\* only the columns they changed, as long as none of them ends the job, however many
\* workers there are and whichever of them die.
THEOREM OpenAttemptStaysMirrored == StorageSpec => []OpenAttemptMirrored
<1>1. (part = "sessions" => SessionsInv) => OpenAttemptMirrored
  BY AttemptIsMirrored DEF OpenAttemptMirrored
<1> QED BY <1>1, SessionsHold, PTL

-----------------------------------------------------------------------------
(* The gates of a data set.                                                *)

\* A data set the gates may be asked about.
IsDataSet(R) ==
    /\ R # << >> /\ Len(R) \in Nat /\ DOMAIN R = 1..Len(R)
    /\ \A i \in DOMAIN R :
        /\ R[i].label \in 0..2
        /\ R[i].features \in Seq(Int) /\ R[i].features # << >>
        /\ Len(R[i].features) = Gates!Width(R)

\* What a data set that passed was asked.
Passed(R, groups, split) ==
    /\ ~Gates!QualityFails(R) /\ ~Gates!SplitFails(R)
    /\ split = Gates!Partition(R, groups)
    /\ ~Gates!LeakageFails(R, split)

GatesInv ==
    /\ samples \in DataSets /\ hashed \in Gates!SetToSeqs(Gates!GroupsOf(samples))
    /\ gate.gate \in {"none", "quality", "split", "leakage", "passed"}
    /\ gate.gate = "passed" => Passed(samples, hashed, gate.split)

LEMMA DataSetsAreOf == ASSUME GatesAssumption, NEW R \in DataSets PROVE IsDataSet(R)
<1>1. R \in Seq({R[i] : i \in DOMAIN R})
  BY DEF GatesAssumption
<1>2. Len(R) \in Nat /\ DOMAIN R = 1..Len(R)
  BY <1>1, LenProperties
<1> QED BY <1>2 DEF GatesAssumption, IsDataSet, Gates!Width

LEMMA GatesInit == GatesAssumption /\ Gates!Init => GatesInv
BY DEF Gates!Init, GatesInv

LEMMA GatesStep == GatesAssumption /\ GatesInv /\ [Gates!Next]_(Gates!vars) => GatesInv'
<1> SUFFICES ASSUME GatesAssumption, GatesInv, [Gates!Next]_(Gates!vars) PROVE GatesInv'
  OBVIOUS
<1>1. CASE UNCHANGED Gates!vars
  BY <1>1 DEF Gates!vars, GatesInv
<1>2. CASE Gates!Next
  <2>1. samples' = samples /\ hashed' = hashed
    BY <1>2 DEF Gates!Next, Gates!Complete
  <2>2. \/ gate' = [gate |-> "quality"]
        \/ gate' = [gate |-> "split"]
        \/ gate' = [gate |-> "leakage"]
        \/ /\ ~Gates!QualityFails(samples) /\ ~Gates!SplitFails(samples)
           /\ ~Gates!LeakageFails(samples, Gates!Partition(samples, hashed))
           /\ gate' = [gate |-> "passed", split |-> Gates!Partition(samples, hashed)]
    BY <1>2 DEF Gates!Next, Gates!Complete
  <2>3. gate'.gate = "passed" => Passed(samples, hashed, gate'.split)
    BY <2>2 DEF Passed
  <2>4. gate'.gate \in {"quality", "split", "leakage", "passed"}
    BY <2>2
  <2> QED BY <2>1, <2>3, <2>4 DEF GatesInv
<1> QED BY <1>1, <1>2

LEMMA GatesHold == StorageSpec => [](part = "gates" => GatesInv)
<1>1. StorageInit => (part = "gates" => GatesInv)
  BY StorageAssumption, GatesInit DEF StorageInit
<1>2. (part = "gates" => GatesInv) /\ [StorageNext]_StorageVars => (part = "gates" => GatesInv)'
  <2> SUFFICES ASSUME part = "gates" => GatesInv, [StorageNext]_StorageVars, part' = "gates"
               PROVE  GatesInv'
    OBVIOUS
  <2>1. part = "gates" /\ [Gates!Next]_(Gates!vars)
    BY DEF StorageNext, StoreNext, FilesNext, CapturesNext, SegmentNext, DataFilesNext, GatesNext,
           SchemaNext, RowSessionsNext, StorageVars, StoreVars, FileVars, CaptureVars, SegmentVars,
           DataFileVars, GateVars, SchemaVars, SessionVars, Gates!vars
  <2> QED BY <2>1, StorageAssumption, GatesStep
<1> QED BY <1>1, <1>2, PTL DEF StorageSpec

\* The pivot of a data set is a feature, as every feature has a range.
LEMMA PivotIsFeature ==
    ASSUME NEW R, IsDataSet(R)
    PROVE  /\ Gates!Width(R) \in Nat /\ Gates!Width(R) # 0
           /\ Gates!Pivot(R) \in 1..Gates!Width(R)
           /\ \A i \in DOMAIN R : \A f \in 1..Gates!Width(R) : R[i].features[f] \in Int
<1>1. Gates!Width(R) \in Nat /\ Gates!Width(R) # 0 /\ Len(R) \in Nat /\ Len(R) # 0 /\ 1 \in DOMAIN R
  <2>1. Len(R) # 0
    BY EmptySeq DEF IsDataSet
  <2>2. 1 \in DOMAIN R
    BY <2>1 DEF IsDataSet
  <2>3. R[1].features \in Seq(Int) /\ R[1].features # << >>
    BY <2>2 DEF IsDataSet
  <2> QED BY <2>1, <2>2, <2>3, LenProperties, EmptySeq DEF Gates!Width, IsDataSet
<1>2. ASSUME NEW i \in DOMAIN R, NEW f \in 1..Gates!Width(R) PROVE R[i].features[f] \in Int
  <2>1. R[i].features \in Seq(Int) /\ Len(R[i].features) = Gates!Width(R)
    BY DEF IsDataSet
  <2> QED BY <2>1, ElementOfSeq
<1>3. ASSUME NEW f \in 1..Gates!Width(R) PROVE Gates!Spread(R, f) \in Int
  <2>1. PICK up : up = [i \in 1..Len(R) |-> R[i].features[f]]
    OBVIOUS
  <2>2. PICK down : down = [i \in 1..Len(R) |-> -R[i].features[f]]
    OBVIOUS
  <2>3. DOMAIN R = 1..Len(R)
    BY DEF IsDataSet
  <2>4. up \in [1..Len(R) -> Int] /\ down \in [1..Len(R) -> Int]
    BY <1>2, <2>1, <2>2, <2>3
  <2>5. PICK t \in 1..Len(R) : \A g \in 1..Len(R) : up[t] > up[g] \/ (up[t] = up[g] /\ t <= g)
    BY <1>1, <2>4, FirstGreatest
  <2>6. PICK b \in 1..Len(R) : \A g \in 1..Len(R) : down[b] > down[g] \/ (down[b] = down[g] /\ b <= g)
    BY <1>1, <2>4, FirstGreatest
  <2>7. PICK S : S = Gates!Features(R, f)
    OBVIOUS
  <2>8. S = {R[i].features[f] : i \in 1..Len(R)}
    BY <2>3, <2>7 DEF Gates!Features
  <2>9. S \subseteq Int
    BY <1>2, <2>3, <2>8
  <2>10. \E x \in S : \A y \in S : x >= y
    <3>1. ASSUME NEW g \in 1..Len(R) PROVE R[t].features[f] >= R[g].features[f]
      BY <1>2, <2>1, <2>3, <2>5
    <3> QED BY <2>8, <3>1
  <2>11. \E x \in S : \A y \in S : x <= y
    <3>1. ASSUME NEW g \in 1..Len(R) PROVE R[b].features[f] <= R[g].features[f]
      BY <1>2, <2>2, <2>3, <2>6
    <3> QED BY <2>8, <3>1
  <2>12. Gates!Max(S) \in S /\ Gates!Min(S) \in S
    BY <2>10, <2>11 DEF Gates!Max, Gates!Min
  <2> QED BY <2>7, <2>9, <2>12 DEF Gates!Spread
<1>4. Gates!Pivot(R) \in 1..Gates!Width(R)
  <2>1. PICK s : s = [f \in 1..Gates!Width(R) |-> Gates!Spread(R, f)]
    OBVIOUS
  <2>2. s \in [1..Gates!Width(R) -> Int]
    BY <1>3, <2>1
  <2>3. \E f \in 1..Gates!Width(R) : \A g \in 1..Gates!Width(R) :
            s[f] > s[g] \/ (s[f] = s[g] /\ f <= g)
    BY <1>1, <2>2, FirstGreatest
  <2>4. \E f \in 1..Gates!Width(R) : \A g \in 1..Gates!Width(R) :
            \/ Gates!Spread(R, f) > Gates!Spread(R, g)
            \/ (Gates!Spread(R, f) = Gates!Spread(R, g) /\ f <= g)
    BY <2>1, <2>3
  <2> QED BY <2>4 DEF Gates!Pivot
<1> QED BY <1>1, <1>2, <1>4

\* Whatever the window, a row is compared with every row near it.
LEMMA NearAreJoined ==
    ASSUME GatesAssumption, NEW R, IsDataSet(R), NEW i \in DOMAIN R, NEW j \in DOMAIN R, i # j,
           Gates!Near(R, i, j)
    PROVE  i \in Gates!Joined(R, j) \/ j \in Gates!Joined(R, i)
<1>1. PICK p \in 1..Gates!Width(R) : p = Gates!Pivot(R)
  BY PivotIsFeature
<1>2. PICK x, y \in Int : x = R[i].features[p] /\ y = R[j].features[p]
  BY PivotIsFeature
<1>3. Gates!Distance(x, y) <= Tolerance
  BY <1>2 DEF Gates!Near
<1>4. Tolerance \in Nat /\ i \in Nat /\ j \in Nat
  BY DEF GatesAssumption, IsDataSet
<1>5. x - y <= Tolerance /\ y - x <= Tolerance
  BY <1>3, <1>4 DEF Gates!Distance
<1>6. Gates!InWindow(R, i, j) /\ Gates!InWindow(R, j, i)
  BY <1>1, <1>2, <1>5 DEF Gates!InWindow
<1>7. Gates!Earlier(R, i, j) \/ Gates!Earlier(R, j, i)
  BY <1>1, <1>2, <1>4 DEF Gates!Earlier
<1>8. Gates!Near(R, j, i)
  <2>1. ASSUME NEW f \in 1..Gates!Width(R)
        PROVE  Gates!Distance(R[j].features[f], R[i].features[f]) <= Tolerance
    <3>1. PICK a, b \in Int : a = R[i].features[f] /\ b = R[j].features[f]
      BY PivotIsFeature
    <3>2. Gates!Distance(a, b) <= Tolerance
      BY <3>1 DEF Gates!Near
    <3>3. Gates!Distance(b, a) = Gates!Distance(a, b)
      BY <3>1 DEF Gates!Distance
    <3> QED BY <3>1, <3>2, <3>3
  <2> QED BY <2>1 DEF Gates!Near
<1> QED BY <1>6, <1>7, <1>8 DEF Gates!Joined

\* union() keeps what is together together, and joins the rest of I.
Joins(n, root, I, result) ==
    /\ result \in [1..n -> 1..n]
    /\ \A i, j \in I : result[i] = result[j]
    /\ \A i, j \in 1..n : root[i] = root[j] => result[i] = result[j]

LEMMA UnionJoins ==
    ASSUME NEW n \in Nat, NEW root \in [1..n -> 1..n], NEW I \in SUBSET (1..n), I # {}
    PROVE  Joins(n, root, I, Gates!Union(root, I))
<1>1. PICK S : S = {root[i] : i \in I}
  OBVIOUS
<1>2. S \in SUBSET Nat /\ S # {} /\ S \subseteq 1..n
  <2>1. \A i \in I : root[i] \in 1..n
    OBVIOUS
  <2>2. 1..n \subseteq Nat
    OBVIOUS
  <2> QED BY <1>1, <2>1, <2>2
<1>3. \E m \in S : \A k \in S : m <= k
  BY <1>2, LeastOf
<1>4. Gates!Min(S) \in S
  BY <1>3 DEF Gates!Min
<1>5. PICK least \in 1..n : least = Gates!Min(S)
  BY <1>2, <1>4
<1>6. Gates!Union(root, I) = [k \in 1..n |-> IF root[k] \in S THEN least ELSE root[k]]
  BY <1>1, <1>5 DEF Gates!Union
<1>7. \A i \in I : root[i] \in S /\ i \in 1..n
  BY <1>1
<1> QED BY <1>5, <1>6, <1>7 DEF Joins

\* The rows with one root, if there are several.
ComponentsBy(R, root) ==
    {c \in {{i \in DOMAIN R : root[Len(R)][i] = k} : k \in DOMAIN R} : Gates!Cardinality(c) > 1}

\* How the rows of a data set are joined.
LEMMA RootsExist ==
    ASSUME NEW R, IsDataSet(R)
    PROVE  \E root \in [0..Len(R) -> [1..Len(R) -> 1..Len(R)]] :
             /\ \A m \in 1..Len(R) : root[m] = Gates!Union(root[m - 1], {m} \cup Gates!Joined(R, m))
             /\ Gates!Components(R) = ComponentsBy(R, root)
<1> DEFINE IsRoot(r) ==
             r = [n \in 0..Len(R) |->
                    IF n = 0 THEN [i \in DOMAIN R |-> i]
                    ELSE Gates!Union(r[n - 1], {n} \cup Gates!Joined(R, n))]
<1>1. PICK N \in Nat : N = Len(R) /\ DOMAIN R = 1..N
  BY DEF IsDataSet
<1>2. PICK X : X = [1..N -> 1..N]
  OBVIOUS
<1>3. ASSUME NEW x \in X, NEW m \in 1..N PROVE Gates!Union(x, {m} \cup Gates!Joined(R, m)) \in X
  <2>1. Gates!Joined(R, m) \subseteq 1..N
    BY <1>1 DEF Gates!Joined
  <2>2. {m} \cup Gates!Joined(R, m) \in SUBSET (1..N) /\ {m} \cup Gates!Joined(R, m) # {}
    BY <2>1
  <2> QED BY <1>2, <2>2, UnionJoins DEF Joins
<1>4. PICK turn : turn = [p \in X \X (1..N) |-> Gates!Union(p[1], {p[2]} \cup Gates!Joined(R, p[2]))]
  OBVIOUS
<1>5. turn \in [X \X (1..N) -> X]
  BY <1>3, <1>4
<1>6. PICK first : first = [i \in 1..N |-> i]
  OBVIOUS
<1>7. first \in X
  BY <1>2, <1>6
<1>8. PICK walk \in [0..N -> X] : IsWalk(walk, N, first, turn)
  BY <1>5, <1>7, WalkExists
<1>9. ASSUME NEW m \in 1..N
      PROVE  turn[<< walk[m - 1], m >>] = Gates!Union(walk[m - 1], {m} \cup Gates!Joined(R, m))
  <2>1. m - 1 \in 0..N
    BY <1>1
  <2>2. << walk[m - 1], m >> \in X \X (1..N)
    BY <1>8, <2>1
  <2> QED BY <1>4, <2>2
<1>10. walk = [m \in 0..N |-> IF m = 0 THEN first
                 ELSE Gates!Union(walk[m - 1], {m} \cup Gates!Joined(R, m))]
  <2>1. \A m \in 0..N : m # 0 => m \in 1..N
    OBVIOUS
  <2> QED BY <1>8, <1>9, <2>1 DEF IsWalk
<1>11. IsRoot(walk)
  BY <1>1, <1>6, <1>10
<1>12. PICK root : IsRoot(root) /\ Gates!Components(R) = ComponentsBy(R, root)
  <2>1. PICK root : root = CHOOSE r : IsRoot(r)
    OBVIOUS
  <2>2. IsRoot(root)
    <3> HIDE DEF IsRoot
    <3> QED BY <1>11, <2>1
  <2>3. Gates!Components(R) = ComponentsBy(R, CHOOSE r : IsRoot(r))
    BY DEF Gates!Components, ComponentsBy
  <2>4. Gates!Components(R) = ComponentsBy(R, root)
    BY <2>1, <2>3
  <2> HIDE DEF IsRoot
  <2> QED BY <2>2, <2>4
<1>13. ASSUME NEW m \in 0..N
       PROVE  /\ root[m] = IF m = 0 THEN [i \in DOMAIN R |-> i]
                           ELSE Gates!Union(root[m - 1], {m} \cup Gates!Joined(R, m))
              /\ walk[m] = IF m = 0 THEN first
                           ELSE Gates!Union(walk[m - 1], {m} \cup Gates!Joined(R, m))
  BY <1>1, <1>10, <1>12
<1>14. \A m \in 0..N : root[m] = walk[m]
  <2> DEFINE G == {m \in 0..N : root[m] = walk[m]}
  <2>1. 0 \in G
    <3>1. 0 \in 0..N
      OBVIOUS
    <3>2. root[0] = [i \in DOMAIN R |-> i] /\ walk[0] = first
      BY <1>13, <3>1
    <3>3. root[0] = walk[0]
      BY <1>1, <1>6, <3>2
    <3> QED BY <3>1, <3>3
  <2>2. ASSUME NEW k \in 0..N, k # 0, k - 1 \in G PROVE k \in G
    BY <1>13, <2>2
  <2>3. 0..N \subseteq G
    <3> HIDE DEF G
    <3> QED BY <2>1, <2>2, Climb
  <2> QED BY <2>3
<1>15. root = [m \in 0..N |-> root[m]]
  BY <1>1, <1>12
<1>16. root \in [0..N -> X]
  BY <1>8, <1>14, <1>15
<1>17. \A m \in 1..N : root[m] = Gates!Union(root[m - 1], {m} \cup Gates!Joined(R, m))
  <2>1. \A m \in 1..N : m \in 0..N /\ m # 0
    OBVIOUS
  <2> QED BY <1>13, <2>1
<1> QED BY <1>1, <1>2, <1>12, <1>16, <1>17

\* Rows that were joined once stay together.
LEMMA JoinedStayTogether ==
    ASSUME NEW R, IsDataSet(R),
           NEW root \in [0..Len(R) -> [1..Len(R) -> 1..Len(R)]],
           \A m \in 1..Len(R) : root[m] = Gates!Union(root[m - 1], {m} \cup Gates!Joined(R, m)),
           NEW i \in DOMAIN R, NEW j \in Gates!Joined(R, i)
    PROVE  root[Len(R)][i] = root[Len(R)][j]
<1>1. PICK N \in Nat : N = Len(R) /\ DOMAIN R = 1..N
  BY DEF IsDataSet
<1>2. i \in 1..N /\ j \in 1..N
  BY <1>1 DEF Gates!Joined
<1>3. ASSUME NEW m \in 1..N
      PROVE  /\ m - 1 \in 0..N /\ root[m - 1] \in [1..N -> 1..N]
             /\ {m} \cup Gates!Joined(R, m) \in SUBSET (1..N)
  <2>1. m - 1 \in 0..N
    BY <1>1
  <2> QED BY <1>1, <2>1 DEF Gates!Joined
<1>4. ASSUME NEW m \in 1..N
      PROVE  /\ \A a, b \in {m} \cup Gates!Joined(R, m) : root[m][a] = root[m][b]
             /\ \A a, b \in 1..N : root[m - 1][a] = root[m - 1][b] => root[m][a] = root[m][b]
  <2>1. PICK x \in [1..N -> 1..N] : x = root[m - 1]
    BY <1>3
  <2>2. PICK J \in SUBSET (1..N) : J = {m} \cup Gates!Joined(R, m) /\ J # {}
    BY <1>3
  <2>3. root[m] = Gates!Union(x, J)
    BY <1>1, <2>1, <2>2
  <2>4. Joins(N, x, J, root[m])
    BY <2>2, <2>3, UnionJoins
  <2>5. \A a, b \in J : root[m][a] = root[m][b]
    BY <2>4 DEF Joins
  <2>6. \A a, b \in 1..N : x[a] = x[b] => root[m][a] = root[m][b]
    BY <2>4 DEF Joins
  <2> QED BY <2>1, <2>2, <2>5, <2>6
<1>5. root[i][i] = root[i][j]
  BY <1>2, <1>4
<1> DEFINE G == {m \in i..N : root[m][i] = root[m][j]}
<1>6. i \in G
  BY <1>2, <1>5
<1>7. ASSUME NEW k \in i..N, k # i, k - 1 \in G PROVE k \in G
  <2>1. k \in 1..N
    BY <1>2
  <2> QED BY <1>2, <1>4, <1>7, <2>1
<1>8. i..N \subseteq G
  <2>1. i \in Nat
    BY <1>2
  <2> HIDE DEF G
  <2> QED BY <1>6, <1>7, <2>1, Climb
<1>9. N \in i..N
  BY <1>2
<1> QED BY <1>1, <1>8, <1>9

\* A finite set with two elements has more than one.
LEMMA MoreThanOne ==
    ASSUME NEW S, IsFiniteSet(S), NEW x \in S, NEW y \in S, x # y
    PROVE  Gates!Cardinality(S) > 1
<1>1. IsFiniteSet({x}) /\ Cardinality({x}) = 1
  BY FS_Singleton
<1>2. Cardinality({x} \cup {y}) = 2
  BY <1>1, FS_AddElement
<1>3. Cardinality({x} \cup {y}) <= Cardinality(S) /\ Cardinality(S) \in Nat
  BY FS_Subset, FS_CardinalityType
<1>4. Gates!Cardinality(S) = Cardinality(S)
  BY DEF Gates!Cardinality, Cardinality
<1> QED BY <1>2, <1>3, <1>4

\* The gate for leakage finds rows near each other in two partitions.
LEMMA NearStayTogether ==
    ASSUME GatesAssumption, NEW R, IsDataSet(R), NEW split,
           \A g \in Gates!GroupsOf(R) : split[g] \in {"train", "validation", "test"},
           ~Gates!LeakageFails(R, split),
           NEW i \in DOMAIN R, NEW j \in DOMAIN R, split[R[i].group] # split[R[j].group]
    PROVE  /\ R[i].session # R[j].session /\ R[i].features # R[j].features
           /\ ~Gates!Near(R, i, j)
<1>1. ASSUME NEW I \in SUBSET DOMAIN R, i \in I, j \in I PROVE Gates!Across(R, split, I)
  <2>1. PICK S : S = {split[R[k].group] : k \in I}
    OBVIOUS
  <2>2. S \subseteq {"train", "validation", "test"}
    BY <2>1 DEF Gates!GroupsOf
  <2>3. IsFiniteSet({"train", "validation", "test"})
    <3>1. IsFiniteSet({"train"})
      BY FS_Singleton
    <3>2. IsFiniteSet({"train"} \cup {"validation"})
      BY <3>1, FS_AddElement
    <3>3. IsFiniteSet(({"train"} \cup {"validation"}) \cup {"test"})
      BY <3>2, FS_AddElement
    <3>4. ({"train"} \cup {"validation"}) \cup {"test"} = {"train", "validation", "test"}
      OBVIOUS
    <3> QED BY <3>3, <3>4
  <2>4. IsFiniteSet(S)
    BY <2>2, <2>3, FS_Subset
  <2>5. split[R[i].group] \in S /\ split[R[j].group] \in S
    BY <1>1, <2>1
  <2>6. Gates!Cardinality(S) > 1
    BY <2>4, <2>5, MoreThanOne
  <2> QED BY <2>1, <2>6 DEF Gates!Across
<1>2. R[i].session # R[j].session
  <2> SUFFICES ASSUME R[i].session = R[j].session PROVE FALSE
    OBVIOUS
  <2>1. Gates!Across(R, split, {k \in DOMAIN R : R[k].session = R[i].session})
    BY <1>1
  <2> QED BY <2>1 DEF Gates!LeakageFails
<1>3. R[i].features # R[j].features
  <2> SUFFICES ASSUME R[i].features = R[j].features PROVE FALSE
    OBVIOUS
  <2>1. Gates!Across(R, split, Gates!Equal(R, i))
    BY <1>1 DEF Gates!Equal
  <2> QED BY <2>1 DEF Gates!LeakageFails
<1>4. ~Gates!Near(R, i, j)
  <2> SUFFICES ASSUME Gates!Near(R, i, j) PROVE FALSE
    OBVIOUS
  <2>1. i \in Gates!Joined(R, j) \/ j \in Gates!Joined(R, i)
    BY NearAreJoined
  <2>2. PICK root \in [0..Len(R) -> [1..Len(R) -> 1..Len(R)]] :
             /\ \A m \in 1..Len(R) : root[m] = Gates!Union(root[m - 1], {m} \cup Gates!Joined(R, m))
             /\ Gates!Components(R) = ComponentsBy(R, root)
    BY RootsExist
  <2>3. root[Len(R)][i] = root[Len(R)][j]
    BY <2>1, <2>2, JoinedStayTogether
  <2>4. PICK c : c = {h \in DOMAIN R : root[Len(R)][h] = root[Len(R)][i]}
    OBVIOUS
  <2>5. Len(R) \in 0..Len(R) /\ DOMAIN R = 1..Len(R) /\ Len(R) \in Nat
    BY DEF IsDataSet
  <2>6. root[Len(R)][i] \in DOMAIN R
    BY <2>2, <2>5
  <2>7. i \in c /\ j \in c /\ c \subseteq DOMAIN R /\ i # j
    BY <2>3, <2>4
  <2>8. IsFiniteSet(c)
    <3>1. 1 \in Int /\ Len(R) \in Int
      BY <2>5
    <3>2. IsFiniteSet(1..Len(R))
      BY <3>1, FS_Interval
    <3> QED BY <2>5, <2>7, <3>2, FS_Subset
  <2>9. Gates!Cardinality(c) > 1
    BY <2>7, <2>8, MoreThanOne
  <2>10. c \in Gates!Components(R)
    BY <2>2, <2>4, <2>6, <2>9 DEF ComponentsBy
  <2>11. Gates!Across(R, split, c)
    BY <1>1, <2>7
  <2> QED BY <2>10, <2>11 DEF Gates!LeakageFails
<1> QED BY <1>2, <1>3, <1>4

\* The sizes of the partitions add up, and none is empty.
LEMMA SizesAddUp ==
    ASSUME GatesAssumption, NEW n \in Nat, Gates!Splittable(n, Ratios)
    PROVE  /\ Gates!SplitCounts(n, Ratios).train \in Nat \ {0}
           /\ Gates!SplitCounts(n, Ratios).validation \in Nat \ {0}
           /\ Gates!SplitCounts(n, Ratios).test \in Nat \ {0}
           /\ Gates!SplitCounts(n, Ratios).train + Gates!SplitCounts(n, Ratios).validation
                + Gates!SplitCounts(n, Ratios).test = n
<1>1. ASSUME NEW p \in Nat PROVE Gates!Rounded(n, p) \in Int
  <2>1. PICK q \in Int : q = n * p
    OBVIOUS
  <2>2. q \div 100 \in Int
    BY <2>1
  <2> QED BY <2>1, <2>2 DEF Gates!Rounded
<1>2. Ratios.train \in Nat /\ Ratios.validation \in Nat
  BY DEF GatesAssumption
<1>3. PICK a \in Int : a = Gates!Rounded(n, Ratios.train)
  BY <1>1, <1>2
<1>4. PICK b \in Int : b = Gates!Rounded(n, Ratios.validation)
  BY <1>1, <1>2
<1>5. ASSUME NEW x \in Int PROVE Gates!Max({1, x}) \in Int /\ Gates!Max({1, x}) >= 1
  <2>1. \E m \in {1, x} : \A k \in {1, x} : m >= k
    OBVIOUS
  <2>2. Gates!Max({1, x}) \in {1, x} /\ \A k \in {1, x} : Gates!Max({1, x}) >= k
    BY <2>1 DEF Gates!Max
  <2> QED BY <2>2
<1>6. PICK t \in Int : t = Gates!Max({1, a}) /\ t >= 1
  BY <1>5
<1>7. PICK v \in Int : v = Gates!Max({1, b}) /\ v >= 1
  BY <1>5
<1>8. Gates!SplitCounts(n, Ratios) =
        [train |-> IF n - t - v < 1 THEN t - (1 - (n - t - v)) ELSE t, validation |-> v,
         test |-> IF n - t - v < 1 THEN 1 ELSE n - t - v]
  BY <1>3, <1>4, <1>6, <1>7 DEF Gates!SplitCounts
<1>9. Gates!SplitCounts(n, Ratios).train >= 1
  BY DEF Gates!Splittable
<1> QED BY <1>6, <1>7, <1>8, <1>9

\* The groups have an order: each comes once.
LEMMA GroupsAreOrdered ==
    ASSUME NEW R, IsDataSet(R), NEW groups \in Gates!SetToSeqs(Gates!GroupsOf(R))
    PROVE  /\ Gates!Cardinality(Gates!GroupsOf(R)) \in Nat
           /\ Len(groups) = Gates!Cardinality(Gates!GroupsOf(R))
           /\ DOMAIN groups = 1..Len(groups)
           /\ \A k \in 1..Len(groups) : groups[k] \in Gates!GroupsOf(R)
           /\ \A g \in Gates!GroupsOf(R) : \E k \in 1..Len(groups) : groups[k] = g
           /\ \A k, m \in 1..Len(groups) : groups[k] = groups[m] => k = m
<1>1. PICK T : T = Gates!GroupsOf(R)
  OBVIOUS
<1>2. PICK of : of = [i \in DOMAIN R |-> R[i].group]
  OBVIOUS
<1>3. of \in Surjection(DOMAIN R, T)
  BY <1>1, <1>2 DEF Surjection, Gates!GroupsOf
<1>4. IsFiniteSet(DOMAIN R)
  <2>1. DOMAIN R = 1..Len(R) /\ 1 \in Int /\ Len(R) \in Int
    BY DEF IsDataSet
  <2> QED BY <2>1, FS_Interval
<1>5. IsFiniteSet(T) /\ Cardinality(T) \in Nat
  BY <1>3, <1>4, FS_Surjection, FS_CardinalityType
<1>6. PICK n \in Nat : n = Cardinality(T)
  BY <1>5
<1>7. Gates!Cardinality(T) = n
  BY <1>6 DEF Gates!Cardinality, Cardinality
<1>8. groups \in [1..n -> T] /\ \A i, j \in 1..n : i # j => groups[i] # groups[j]
  BY <1>1, <1>7 DEF Gates!SetToSeqs
<1>9. groups \in Injection(1..n, T)
  BY <1>8 DEF Injection, IsInjective
<1>10. Cardinality(1..n) = n
  BY FS_Interval
<1>11. groups \in Surjection(1..n, T)
  BY <1>5, <1>6, <1>9, <1>10, FS_Injection
<1>12. groups \in Seq(T)
  BY <1>8, SeqDef
<1>13. Len(groups) = n
  <2>1. DOMAIN groups = 1..Len(groups) /\ Len(groups) \in Nat
    BY <1>12, LenProperties
  <2>2. DOMAIN groups = 1..n
    BY <1>8
  <2>3. PICK m \in Nat : m = Len(groups) /\ 1..m = 1..n
    BY <2>1, <2>2
  <2>4. ~(n < m) /\ ~(m < n)
    <3>1. n < m => m \in 1..m /\ m \notin 1..n
      OBVIOUS
    <3>2. m < n => n \in 1..n /\ n \notin 1..m
      OBVIOUS
    <3> QED BY <2>3, <3>1, <3>2
  <2>5. m = n
    BY <2>4
  <2> QED BY <2>3, <2>5
<1>14. \A g \in T : \E k \in 1..n : groups[k] = g
  BY <1>11 DEF Surjection
<1> QED BY <1>1, <1>7, <1>8, <1>13, <1>14

\* The split gives every group a partition, and every partition a group.
LEMMA PartitionIsWhole ==
    ASSUME GatesAssumption, NEW R, IsDataSet(R), NEW groups \in Gates!SetToSeqs(Gates!GroupsOf(R)),
           ~Gates!SplitFails(R)
    PROVE  /\ DOMAIN Gates!Partition(R, groups) = Gates!GroupsOf(R)
           /\ \A g \in Gates!GroupsOf(R) :
                Gates!Partition(R, groups)[g] \in {"train", "validation", "test"}
           /\ \A name \in {"train", "validation", "test"} : \E g \in Gates!GroupsOf(R) :
                Gates!Partition(R, groups)[g] = name
<1>1. PICK n \in Nat : n = Len(groups) /\ n = Gates!Cardinality(Gates!GroupsOf(R))
  BY GroupsAreOrdered
<1>2. Gates!Splittable(n, Ratios)
  BY <1>1 DEF Gates!SplitFails
<1>3. PICK c : c = Gates!SplitCounts(n, Ratios)
  OBVIOUS
<1>4. PICK t, v, u \in Nat \ {0} : c.train = t /\ c.validation = v /\ c.test = u /\ t + v + u = n
  <2>1. /\ c.train \in Nat \ {0} /\ c.validation \in Nat \ {0} /\ c.test \in Nat \ {0}
        /\ c.train + c.validation + c.test = n
    BY <1>2, <1>3, SizesAddUp
  <2> QED BY <2>1
<1>5. PICK P : P = Gates!Partition(R, groups)
  OBVIOUS
<1>6. /\ DOMAIN P = Gates!GroupsOf(R)
      /\ \A g \in Gates!GroupsOf(R) : P[g] =
            LET k == CHOOSE k \in DOMAIN groups : groups[k] = g IN
            CASE k <= Gates!SplitCounts(Len(groups), Ratios).train -> "train"
              [] /\ k > Gates!SplitCounts(Len(groups), Ratios).train
                 /\ k <= Gates!SplitCounts(Len(groups), Ratios).train
                            + Gates!SplitCounts(Len(groups), Ratios).validation -> "validation"
              [] OTHER -> "test"
  BY <1>5 DEF Gates!Partition
<1>7. ASSUME NEW g \in Gates!GroupsOf(R), NEW k \in 1..n, groups[k] = g
      PROVE  P[g] = IF k <= t THEN "train" ELSE IF k <= t + v THEN "validation" ELSE "test"
  <2>1. DOMAIN groups = 1..n /\ \A i, j \in 1..n : groups[i] = groups[j] => i = j
    BY <1>1, GroupsAreOrdered
  <2>2. (CHOOSE i \in DOMAIN groups : groups[i] = g) = k
    BY <1>7, <2>1
  <2>3. Gates!SplitCounts(Len(groups), Ratios) = c
    BY <1>1, <1>3
  <2>4. P[g] = CASE k <= c.train -> "train"
                 [] k > c.train /\ k <= c.train + c.validation -> "validation"
                 [] OTHER -> "test"
    BY <1>6, <2>2, <2>3
  <2>5. k \in Nat
    OBVIOUS
  <2> QED BY <1>4, <2>4, <2>5
<1>8. DOMAIN P = Gates!GroupsOf(R)
  BY <1>6
<1>9. \A g \in Gates!GroupsOf(R) : P[g] \in {"train", "validation", "test"}
  <2>1. \A g \in Gates!GroupsOf(R) : \E k \in 1..n : groups[k] = g
    BY <1>1, GroupsAreOrdered
  <2> QED BY <1>7, <2>1
<1>10. ASSUME NEW k \in 1..n
       PROVE  \E g \in Gates!GroupsOf(R) :
                 P[g] = IF k <= t THEN "train" ELSE IF k <= t + v THEN "validation" ELSE "test"
  <2>1. groups[k] \in Gates!GroupsOf(R)
    BY <1>1, GroupsAreOrdered
  <2> QED BY <1>7, <2>1
<1>11. 1 \in 1..n /\ t + 1 \in 1..n /\ t + v + 1 \in 1..n
  BY <1>4
<1>12. /\ 1 <= t /\ ~(t + 1 <= t) /\ t + 1 <= t + v
       /\ ~(t + v + 1 <= t) /\ ~(t + v + 1 <= t + v)
  BY <1>4
<1>13. \E g \in Gates!GroupsOf(R) : P[g] = "train"
  BY <1>10, <1>11, <1>12
<1>14. \E g \in Gates!GroupsOf(R) : P[g] = "validation"
  BY <1>10, <1>11, <1>12
<1>15. \E g \in Gates!GroupsOf(R) : P[g] = "test"
  BY <1>10, <1>11, <1>12
<1> QED BY <1>5, <1>8, <1>9, <1>13, <1>14, <1>15

LEMMA PassedIsWhole ==
    ASSUME GatesAssumption, GatesInv, gate.gate = "passed"
    PROVE  /\ IsDataSet(samples) /\ DOMAIN gate.split = Gates!GroupsOf(samples)
           /\ \A g \in Gates!GroupsOf(samples) : gate.split[g] \in {"train", "validation", "test"}
           /\ \A name \in {"train", "validation", "test"} :
                \E g \in Gates!GroupsOf(samples) : gate.split[g] = name
<1>1. /\ IsDataSet(samples) /\ hashed \in Gates!SetToSeqs(Gates!GroupsOf(samples))
      /\ ~Gates!SplitFails(samples) /\ gate.split = Gates!Partition(samples, hashed)
  BY DataSetsAreOf DEF GatesInv, Passed
<1> QED BY <1>1, PartitionIsWhole

LEMMA GatesSeparate == GatesAssumption /\ GatesInv => Gates!TypeOK /\ Gates!PassedIsSeparated
<1> SUFFICES ASSUME GatesAssumption, GatesInv PROVE Gates!TypeOK /\ Gates!PassedIsSeparated
  OBVIOUS
<1>1. Gates!TypeOK
  BY PassedIsWhole DEF GatesInv, Gates!TypeOK
<1>2. ASSUME gate.gate = "passed"
      PROVE  {gate.split[g] : g \in Gates!GroupsOf(samples)} = Gates!ToSet(Gates!Splits)
  <2>1. Gates!ToSet(Gates!Splits) = {"train", "validation", "test"}
    <3>1. DOMAIN Gates!Splits = 1..3 /\ Gates!Splits[1] = "train"
          /\ Gates!Splits[2] = "validation" /\ Gates!Splits[3] = "test"
      BY DEF Gates!Splits
    <3>2. 1..3 = {1, 2, 3}
      OBVIOUS
    <3> QED BY <3>1, <3>2 DEF Gates!ToSet
  <2>2. PICK S : S = {gate.split[g] : g \in Gates!GroupsOf(samples)}
    OBVIOUS
  <2>3. S \subseteq {"train", "validation", "test"}
    BY <1>2, <2>2, PassedIsWhole
  <2>4. {"train", "validation", "test"} \subseteq S
    BY <1>2, <2>2, PassedIsWhole
  <2> QED BY <2>1, <2>2, <2>3, <2>4
<1>3. ASSUME gate.gate = "passed", NEW i \in DOMAIN samples, NEW j \in DOMAIN samples,
             gate.split[samples[i].group] # gate.split[samples[j].group]
      PROVE  /\ samples[i].session # samples[j].session
             /\ \E f \in 1..Gates!Width(samples) :
                  Gates!Distance(samples[i].features[f], samples[j].features[f]) > Tolerance
  <2>1. /\ IsDataSet(samples) /\ ~Gates!LeakageFails(samples, gate.split)
        /\ \A g \in Gates!GroupsOf(samples) : gate.split[g] \in {"train", "validation", "test"}
    BY <1>3, PassedIsWhole DEF GatesInv, Passed
  <2>2. /\ samples[i].session # samples[j].session /\ samples[i].features # samples[j].features
        /\ ~Gates!Near(samples, i, j)
    BY <1>3, <2>1, NearStayTogether
  <2>3. PICK f \in 1..Gates!Width(samples) :
            ~(Gates!Distance(samples[i].features[f], samples[j].features[f]) <= Tolerance)
    BY <2>2 DEF Gates!Near
  <2>4. Gates!Distance(samples[i].features[f], samples[j].features[f]) > Tolerance
    <3>1. PICK x, y \in Int : x = samples[i].features[f] /\ y = samples[j].features[f]
      BY <2>1, PivotIsFeature
    <3>2. Tolerance \in Nat /\ Gates!Distance(x, y) \in Int
      BY <3>1 DEF GatesAssumption, Gates!Distance
    <3> QED BY <2>3, <3>1, <3>2
  <2> QED BY <2>2, <2>4
<1>4. ASSUME gate.gate = "passed", NEW i \in DOMAIN samples PROVE samples[i].label \in {0, 1}
  <2>1. samples[i].label \in 0..2
    BY <1>4, PassedIsWhole DEF IsDataSet
  <2>2. samples[i].label # 2
    BY <1>4 DEF GatesInv, Passed, Gates!QualityFails, Gates!Unmapped
  <2> QED BY <2>1, <2>2
<1>5. ASSUME NEW n \in SplitSizes, Gates!Splittable(n, Ratios)
      PROVE  LET c == Gates!SplitCounts(n, Ratios) IN
             c.train + c.validation + c.test = n /\ c.validation >= 1 /\ c.test >= 1
  <2>1. n \in Nat
    BY DEF GatesAssumption
  <2>2. PICK c : c = Gates!SplitCounts(n, Ratios)
    OBVIOUS
  <2>3. c.train + c.validation + c.test = n /\ c.validation \in Nat \ {0} /\ c.test \in Nat \ {0}
    BY <1>5, <2>1, <2>2, SizesAddUp
  <2>4. c.validation >= 1 /\ c.test >= 1
    BY <2>3
  <2> QED BY <2>2, <2>3, <2>4
<1>6. Gates!PassedIsSeparated
  BY <1>2, <1>3, <1>4, <1>5 DEF Gates!PassedIsSeparated
<1> QED BY <1>1, <1>6

\* The outcome of the gates is always one of theirs, and what passed has a partition
\* for each of its groups.
THEOREM GatesTypesCorrect == ASSUME GatesAssumption PROVE Gates!Spec => []Gates!TypeOK
<1>1. Gates!Spec => []GatesInv
  <2>1. Gates!Init => GatesInv
    BY GatesInit
  <2>2. GatesInv /\ [Gates!Next]_(Gates!vars) => GatesInv'
    BY GatesStep
  <2> QED BY <2>1, <2>2, PTL DEF Gates!Spec
<1>2. GatesInv => Gates!TypeOK
  BY GatesSeparate
<1> QED BY <1>1, <1>2, PTL

\* A data set that passes the gates has three partitions, none of them empty, that
\* share no session and no rows within the tolerance of each other in every feature;
\* every row of it has a label, and the sizes of the partitions add up, whatever the
\* rows, the order of the groups, the tolerance and the ratios (_complete_workflow).
THEOREM PassedDataIsSeparated == StorageSpec => []PassedIsSeparated
<1>1. (part = "gates" => GatesInv) => PassedIsSeparated
  BY StorageAssumption, GatesSeparate DEF PassedIsSeparated
<1> QED BY <1>1, GatesHold, PTL

=============================================================================
