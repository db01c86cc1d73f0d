---------------------------- MODULE SourceProofs ----------------------------
(***************************************************************************)
(* What becomes of a source of telemetry, for every file and every fault:  *)
(* its upload, the readers of a capture, the features of a flow segment.   *)
(* What the proofs need of numbers and of recursive functions comes first. *)
(***************************************************************************)
EXTENDS
    StorageWork, FiniteSets, FiniteSetTheorems, SequenceTheorems, WellFoundedInduction, TLAPS

-----------------------------------------------------------------------------
(* Numbers.                                                                *)

\* Sets of numbers.
LEMMA LeastOf == ASSUME NEW S \in SUBSET Nat, S # {} PROVE \E m \in S : \A k \in S : m <= k
<1> DEFINE R == OpToRel(<, Nat)
<1>1. IsWellFoundedOn(R, Nat)
  BY NatLessThanWellFounded
<1>2. \A x, y \in Nat : << x, y >> \in R <=> x < y
  BY DEF OpToRel
<1> HIDE DEF R
<1>3. PICK m \in S : \A k \in S : ~ (<< k, m >> \in R)
  BY <1>1, WFMin
<1>4. ASSUME NEW k \in S PROVE m <= k
  <2>1. m \in Nat /\ k \in Nat
    OBVIOUS
  <2>2. ~(k < m)
    BY <1>2, <1>3, <2>1
  <2> QED BY <2>1, <2>2
<1> QED BY <1>4

\* One of finitely many numbers is the greatest, the first of those as great.
LEMMA FirstGreatest ==
    ASSUME NEW n \in Nat, n # 0, NEW s \in [1..n -> Int]
    PROVE  \E f \in 1..n : \A g \in 1..n : s[f] > s[g] \/ (s[f] = s[g] /\ f <= g)
<1> DEFINE Top(m, f) == \A g \in 1..m : s[f] > s[g] \/ (s[f] = s[g] /\ f <= g)
           bad == {m \in 1..n : \A f \in 1..m : ~Top(m, f)}
<1>1. SUFFICES ASSUME bad # {} PROVE FALSE
  <2>1. n \in 1..n
    OBVIOUS
  <2>2. bad = {}
    BY <1>1
  <2>3. \E f \in 1..n : Top(n, f)
    BY <2>1, <2>2
  <2> QED BY <2>3
<1>2. /\ bad \in SUBSET Nat
      /\ \A m \in 1..n : m \in bad <=> \A f \in 1..m : ~Top(m, f)
      /\ \A m \in bad : m \in 1..n
  OBVIOUS
<1> HIDE DEF bad
<1>3. PICK m \in bad : \A k \in bad : m <= k
  BY <1>1, <1>2, LeastOf
<1>4. m \in 1..n /\ m \in Nat /\ n \in Nat /\ \A f \in 1..m : ~Top(m, f)
  BY <1>2
<1>5. CASE m = 1
  <2>1. Top(1, 1)
    OBVIOUS
  <2> QED BY <1>4, <1>5, <2>1
<1>6. CASE m # 1
  <2>1. m - 1 \in 1..n /\ m - 1 \notin bad
    <3>1. m - 1 \in 1..n /\ ~(m <= m - 1)
      BY <1>4, <1>6
    <3> QED BY <1>3, <3>1
  <2>2. PICK f \in 1..(m - 1) : Top(m - 1, f)
    BY <1>2, <2>1
  <2>3. s[f] \in Int /\ s[m] \in Int /\ f \in 1..m /\ m \in 1..m
    BY <1>4, <2>1
  <2>4. \A g \in 1..m : g \in 1..(m - 1) \/ g = m
    BY <1>4
  <2>5. \A g \in 1..m : s[g] \in Int
    BY <1>4
  <2>6. CASE s[m] > s[f]
    <3>1. ASSUME NEW g \in 1..m PROVE s[m] > s[g] \/ (s[m] = s[g] /\ m <= g)
      <4>1. CASE g = m
        BY <4>1, <1>4
      <4>2. CASE g \in 1..(m - 1)
        <5>1. s[f] >= s[g] /\ s[g] \in Int
          BY <2>2, <2>3, <2>5, <4>2
        <5> QED BY <2>3, <2>6, <5>1
      <4> QED BY <2>4, <4>1, <4>2
    <3>2. Top(m, m)
      BY <3>1
    <3> QED BY <1>4, <2>3, <3>2
  <2>7. CASE ~(s[m] > s[f])
    <3>1. ASSUME NEW g \in 1..m PROVE s[f] > s[g] \/ (s[f] = s[g] /\ f <= g)
      <4>1. CASE g = m
        BY <2>3, <2>7, <4>1, <1>4
      <4>2. CASE g \in 1..(m - 1)
        BY <2>2, <4>2
      <4> QED BY <2>4, <4>1, <4>2
    <3>2. Top(m, f)
      BY <3>1
    <3> QED BY <1>4, <2>3, <3>2
  <2> QED BY <2>6, <2>7
<1> QED BY <1>5, <1>6

\* What holds of the first number and of the next of each holds of all.
LEMMA Climb ==
    ASSUME NEW a \in Nat, NEW b \in Nat, NEW G, a \in G,
           \A k \in a..b : k # a /\ k - 1 \in G => k \in G
    PROVE  a..b \subseteq G
<1> DEFINE bad == (a..b) \ G
<1> SUFFICES ASSUME bad # {} PROVE FALSE
  OBVIOUS
<1>1. bad \in SUBSET Nat
  OBVIOUS
<1>2. PICK k \in bad : \A j \in bad : k <= j
  <2> HIDE DEF bad
  <2> QED BY <1>1, LeastOf
<1>3. k \in a..b /\ k \notin G /\ k # a
  OBVIOUS
<1>4. k - 1 \in a..b /\ ~(k <= k - 1)
  BY <1>3
<1>5. k - 1 \in G
  BY <1>2, <1>4
<1> QED BY <1>3, <1>5

\* A walk takes a turn for each number.
IsWalk(walk, n, first, turn) ==
    walk = [m \in 0..n |-> IF m = 0 THEN first ELSE turn[<< walk[m - 1], m >>]]

LEMMA WalkExists ==
    ASSUME NEW X, NEW n \in Nat, NEW first \in X, NEW turn \in [X \X (1..n) -> X]
    PROVE  \E walk \in [0..n -> X] : IsWalk(walk, n, first, turn)
<1> DEFINE Walks(k, w) == /\ w[0] = first
                          /\ \A m \in 1..k : w[m] = turn[<< w[m - 1], m >>]
           G == {k \in 0..n : \E w \in [0..k -> X] : Walks(k, w)}
<1>1. 0 \in G
  <2>1. PICK w : w = [m \in 0..0 |-> first]
    OBVIOUS
  <2>2. w \in [0..0 -> X] /\ Walks(0, w)
    BY <2>1
  <2>3. 0 \in 0..n
    OBVIOUS
  <2> QED BY <2>2, <2>3
<1>2. ASSUME NEW k \in 0..n, k # 0, k - 1 \in G PROVE k \in G
  <2>0. k # 0
    BY <1>2
  <2>1. k \in Nat /\ k \in 1..n /\ k - 1 \in 0..(k - 1) /\ 0 \in 0..(k - 1)
    BY <2>0
  <2>2. PICK v \in [0..(k - 1) -> X] : Walks(k - 1, v)
    BY <1>2
  <2>3. turn[<< v[k - 1], k >>] \in X
    BY <2>1, <2>2
  <2>4. PICK w : w = [m \in 0..k |-> IF m = k THEN turn[<< v[k - 1], k >>] ELSE v[m]]
    OBVIOUS
  <2>5. \A m \in 0..k : m # k => m \in 0..(k - 1)
    BY <2>1
  <2>6. w \in [0..k -> X]
    BY <2>2, <2>3, <2>4, <2>5
  <2>7. \A m \in 0..(k - 1) : m \in 0..k /\ m # k
    BY <2>1
  <2>8. w[k] = turn[<< v[k - 1], k >>] /\ \A m \in 0..(k - 1) : w[m] = v[m]
    <3>1. k \in 0..k
      BY <2>1
    <3>2. w[k] = turn[<< v[k - 1], k >>]
      BY <2>4, <3>1
    <3> QED BY <2>4, <2>7, <3>2
  <2>9. ASSUME NEW m \in 1..k PROVE w[m] = turn[<< w[m - 1], m >>]
    <3>1. m - 1 \in 0..(k - 1)
      BY <2>1
    <3>2. CASE m = k
      BY <2>8, <3>1, <3>2
    <3>3. CASE m # k
      <4>1. m \in 1..(k - 1) /\ m \in 0..(k - 1)
        BY <2>1, <3>3
      <4> QED BY <2>2, <2>8, <3>1, <4>1
    <3> QED BY <3>2, <3>3
  <2>10. Walks(k, w)
    BY <2>1, <2>2, <2>8, <2>9
  <2> QED BY <2>6, <2>10
<1>3. 0..n \subseteq G
  <2> HIDE DEF G
  <2> QED BY <1>1, <1>2, Climb
<1>4. PICK w \in [0..n -> X] : Walks(n, w)
  <2>1. n \in 0..n
    OBVIOUS
  <2>2. n \in G
    BY <1>3, <2>1
  <2> QED BY <2>2
<1>5. ASSUME NEW m \in 0..n PROVE w[m] = IF m = 0 THEN first ELSE turn[<< w[m - 1], m >>]
  <2>1. CASE m = 0
    BY <1>4, <2>1
  <2>2. CASE m # 0
    <3>1. m \in 1..n
      BY <2>2
    <3> QED BY <1>4, <2>2, <3>1
  <2> QED BY <2>1, <2>2
<1>6. w = [m \in 0..n |-> w[m]]
  OBVIOUS
<1>7. w = [m \in 0..n |-> IF m = 0 THEN first ELSE turn[<< w[m - 1], m >>]]
  BY <1>5, <1>6
<1> QED BY <1>7 DEF IsWalk

-----------------------------------------------------------------------------
(* Uploads and samples.                                                    *)

Checksums == Contents \union {Files!NoChecksum}
RowOfSource == [status : Files!Status, source_type : {"upload", "sample"}, progress : {0, 1, 5, 10},
                checksum : Checksums, records : Nat, stored : Checksums]
CallOfSource == [pc : {"none", "added", "running", "staged", "recorded", "inspected", "moving",
                       "stored", "failing"},
                 content : Contents]

\* Where a call is, what it found out is on the row, and with the files.
CallFollows(s) ==
    /\ row[s] = Files!NoRow \/ row[s] \in RowOfSource
    /\ call[s] = Files!NoCall \/ call[s] \in CallOfSource
    /\ call[s].pc # "none" => row[s] \in RowOfSource /\ row[s].status \in {"pending", "running"}
    /\ call[s].pc \notin {"none", "added"} => row[s].status = "running"
    /\ call[s].pc \in {"recorded", "inspected", "moving", "stored"} =>
        row[s].checksum = call[s].content
    /\ call[s].pc \in {"inspected", "moving", "stored"} => Files!Accepted(call[s].content)
    /\ call[s].pc = "stored" => stored[call[s].content] # "absent"

\* CompletedIsWhole of one source.
SourceIsWhole(s) ==
    /\ row[s].status = "completed" =>
        /\ row[s].stored = row[s].checksum /\ stored[row[s].checksum] # "absent"
        /\ row[s].checksum \in Contents
        /\ flows[s] = IF Nature[row[s].checksum] = "table" THEN 0 ELSE row[s].records
    /\ row[s].status # "completed" => flows[s] = 0
    /\ row[s].status \in {"pending", "running"} => s \in lost \/ call[s].pc # "none"
    /\ s \in staged => s \in lost \/ call[s].pc \in {"staged", "recorded", "inspected",
                                                       "moving", "failing"}

FilesInv ==
    /\ DOMAIN row = TelemetrySources /\ DOMAIN call = TelemetrySources /\ flows \in [TelemetrySources -> Nat]
    /\ stored \in [Contents -> {"absent", "intact", "damaged"}]
    /\ staged \subseteq TelemetrySources /\ lost \subseteq TelemetrySources /\ faults \in 0..Faults
    /\ \A s \in TelemetrySources : CallFollows(s) /\ SourceIsWhole(s)

\* What is accepted has as many flows as its row will say.
LEMMA AcceptedFlows ==
    ASSUME FilesAssumption, NEW c \in Contents, Files!Accepted(c)
    PROVE  Files!FlowsOf(c) = IF Nature[c] = "table" THEN 0 ELSE Files!Records(c)
BY DEF FilesAssumption, Files!Accepted, Files!FlowsOf, Files!Records, Files!DecodedPackets,
       Files!AllNatures

LEMMA FlowsAreCounted ==
    ASSUME NEW c PROVE Files!FlowsOf(c) \in Nat /\ Files!Records(c) \in Nat
BY DEF Files!FlowsOf, Files!Records, Files!DecodedPackets

LEMMA FilesInit == FilesAssumption /\ Files!Init => FilesInv
BY DEF FilesAssumption, Files!Init, FilesInv, CallFollows, SourceIsWhole, Files!NoRow, Files!NoCall

\* A step of the call of one source: every other source stays as it is.
LEMMA FilesStepOf ==
    ASSUME FilesAssumption, FilesInv, NEW s \in TelemetrySources,
           DOMAIN row' = TelemetrySources, DOMAIN call' = TelemetrySources, flows' \in [TelemetrySources -> Nat],
           \A r \in TelemetrySources : r # s => row'[r] = row[r] /\ call'[r] = call[r] /\ flows'[r] = flows[r],
           stored' \in [Contents -> {"absent", "intact", "damaged"}],
           \A c \in Contents : stored[c] # "absent" => stored'[c] # "absent",
           staged' \subseteq TelemetrySources, \A r \in staged' : r = s \/ r \in staged,
           lost' \in {lost, lost \union {s}}, faults' \in 0..Faults,
           CallFollows(s)', SourceIsWhole(s)'
    PROVE  FilesInv'
<1>1. \A r \in TelemetrySources : r # s => row'[r] = row[r] /\ call'[r] = call[r] /\ flows'[r] = flows[r]
  OBVIOUS
<1>2. ASSUME NEW r \in TelemetrySources, r # s PROVE CallFollows(r)' /\ SourceIsWhole(r)'
  <2>1. row'[r] = row[r] /\ call'[r] = call[r] /\ flows'[r] = flows[r]
    BY <1>1, <1>2
  <2>2. CallFollows(r) /\ SourceIsWhole(r)
    BY DEF FilesInv
  <2>3. call[r].pc = "stored" => call[r].content \in Contents
    BY <2>2 DEF CallFollows, CallOfSource, Files!NoCall
  <2>4. CallFollows(r)'
    BY <2>1, <2>2, <2>3 DEF CallFollows, Files!Accepted, Files!DecodedPackets, Files!Records
  <2>5. (r \in staged' => r \in staged) /\ (r \in lost' <=> r \in lost)
    BY <1>2
  <2>6. SourceIsWhole(r)'
    BY <2>1, <2>2, <2>5 DEF SourceIsWhole
  <2> QED BY <2>4, <2>6
<1>3. \A r \in TelemetrySources : (CallFollows(r) /\ SourceIsWhole(r))'
  BY <1>2
<1> QED BY <1>3 DEF FilesInv

\* A call that is lost.
LEMMA FilesLose ==
    ASSUME FilesAssumption, FilesInv, NEW s \in TelemetrySources, Files!LoseCall(s),
           UNCHANGED << flows, stored >>, staged' \in {staged, staged \ {s}},
           call[s].pc # "none"
    PROVE  FilesInv'
<1>1. /\ call'[s] = Files!NoCall /\ lost' = lost \union {s} /\ row' = row
      /\ DOMAIN call' = TelemetrySources /\ faults' \in 0..Faults
      /\ \A r \in TelemetrySources : r # s => call'[r] = call[r]
  BY DEF FilesInv, Files!LoseCall, FilesAssumption
<1>2. CallFollows(s)' /\ SourceIsWhole(s)'
  <2>1. CallFollows(s) /\ SourceIsWhole(s)
    BY DEF FilesInv
  <2> QED BY <1>1, <2>1 DEF CallFollows, SourceIsWhole, Files!NoCall
<1> QED BY <1>1, <1>2, FilesStepOf DEF FilesInv

LEMMA FilesAdd ==
    ASSUME FilesAssumption, FilesInv, NEW s \in TelemetrySources, NEW c \in Contents,
           NEW kind \in {"upload", "sample"}, Files!Add(s, c, kind)
    PROVE  FilesInv'
<1> DEFINE new == [status |-> "pending", source_type |-> kind, progress |-> 0,
                   checksum |-> Files!NoChecksum, records |-> 0, stored |-> Files!NoChecksum]
<1>1. /\ row[s] = Files!NoRow /\ s \notin lost
      /\ row' = [row EXCEPT ![s] = new]
      /\ call' = [call EXCEPT ![s] = [pc |-> "added", content |-> c]]
      /\ UNCHANGED << flows, stored, staged, lost, faults >>
  BY DEF Files!Add, Files!Unmoved
<1>2. /\ DOMAIN row' = TelemetrySources /\ DOMAIN call' = TelemetrySources
      /\ row'[s] = new /\ call'[s] = [pc |-> "added", content |-> c]
      /\ \A r \in TelemetrySources : r # s => row'[r] = row[r] /\ call'[r] = call[r]
  BY <1>1 DEF FilesInv
<1>3. CallFollows(s) /\ SourceIsWhole(s)
  BY DEF FilesInv
<1>4. CallFollows(s)'
  BY <1>2 DEF CallFollows, RowOfSource, CallOfSource, Checksums, Files!Status
<1>5. call[s].pc = "none" /\ flows[s] = 0 /\ s \notin staged
  BY <1>1, <1>3 DEF CallFollows, SourceIsWhole, Files!NoRow, RowOfSource, Files!Status
<1>6. SourceIsWhole(s)'
  BY <1>1, <1>2, <1>5 DEF SourceIsWhole
<1> QED BY <1>1, <1>2, <1>4, <1>6, FilesStepOf DEF FilesInv

\* What the call of a source looks like when it is at work.
LEMMA CallAt ==
    ASSUME FilesAssumption, FilesInv, NEW s \in TelemetrySources, call[s].pc # "none"
    PROVE  /\ call[s] \in CallOfSource /\ call[s].content \in Contents
           /\ row[s] \in RowOfSource /\ row[s].status \in {"pending", "running"}
           /\ flows[s] = 0 /\ CallFollows(s) /\ SourceIsWhole(s)
           /\ DOMAIN row = TelemetrySources /\ DOMAIN call = TelemetrySources
           /\ s \in staged => s \in lost \/ call[s].pc \in {"staged", "recorded", "inspected",
                                                              "moving", "failing"}
BY DEF FilesInv, CallFollows, SourceIsWhole, CallOfSource, Files!NoCall

\* A step that moves the call of s on, without touching its row.
LEMMA FilesMove ==
    ASSUME FilesAssumption, FilesInv, NEW s \in TelemetrySources, call[s].pc \notin {"none", "added"},
           NEW pc \in {"failing", "staged", "inspected", "moving", "stored"}, Files!Step(s, pc),
           UNCHANGED << row, flows, lost >>, faults' \in 0..Faults,
           stored' \in [Contents -> {"absent", "intact", "damaged"}],
           \A c \in Contents : stored[c] # "absent" => stored'[c] # "absent",
           staged' \in {staged, staged \union {s}, staged \ {s}},
           pc = "stored" => s \notin staged' /\ stored'[call[s].content] # "absent",
           pc \in {"inspected", "moving", "stored"} => /\ row[s].checksum = call[s].content
                                                       /\ Files!Accepted(call[s].content)
    PROVE  FilesInv'
<1> USE CallAt
<1>1. call'[s] = [pc |-> pc, content |-> call[s].content]
        /\ DOMAIN call' = TelemetrySources /\ \A r \in TelemetrySources : r # s => call'[r] = call[r]
  <2>1. call' = [call EXCEPT ![s] = [call[s] EXCEPT !.pc = pc]]
    BY DEF Files!Step
  <2>2. [call[s] EXCEPT !.pc = pc] = [pc |-> pc, content |-> call[s].content]
    BY DEF CallOfSource
  <2> QED BY <2>1, <2>2
<1>2. CallFollows(s)'
  BY <1>1 DEF CallFollows, CallOfSource, Files!Accepted, Files!DecodedPackets, Files!Records
<1>3. SourceIsWhole(s)'
  BY <1>1 DEF SourceIsWhole
<1> QED BY <1>1, <1>2, <1>3, FilesStepOf DEF FilesInv

\* A step that commits the row of s.
LEMMA FilesCommit ==
    ASSUME FilesAssumption, FilesInv, NEW s \in TelemetrySources, call[s].pc # "none",
           NEW pc \in {"none", "running", "recorded"}, NEW new \in RowOfSource,
           row' = [row EXCEPT ![s] = new], Files!Step(s, pc),
           UNCHANGED << stored, lost, faults >>, staged' \in {staged, staged \ {s}},
           NEW n \in Nat, flows' = [flows EXCEPT ![s] = n],
           new.status # "completed" => n = 0,
           new.status = "running" <=> pc # "none", new.status # "pending",
           pc = "recorded" => new.checksum = call[s].content,
           pc = "running" => call[s].pc = "added",
           pc = "recorded" => call[s].pc = "staged",
           pc = "none" => s \notin staged' \/ s \in lost,
           new.status = "completed" =>
                /\ new.stored = new.checksum /\ stored[new.checksum] # "absent"
                /\ new.checksum \in Contents
                /\ n = IF Nature[new.checksum] = "table" THEN 0 ELSE new.records
    PROVE  FilesInv'
<1> USE CallAt
<1>1. call'[s] = [pc |-> pc, content |-> call[s].content]
        /\ DOMAIN call' = TelemetrySources /\ \A r \in TelemetrySources : r # s => call'[r] = call[r]
  <2>1. call' = [call EXCEPT ![s] = [call[s] EXCEPT !.pc = pc]]
    BY DEF Files!Step
  <2>2. [call[s] EXCEPT !.pc = pc] = [pc |-> pc, content |-> call[s].content]
    BY DEF CallOfSource
  <2> QED BY <2>1, <2>2
<1>2. /\ DOMAIN row' = TelemetrySources /\ row'[s] = new /\ flows'[s] = n /\ flows' \in [TelemetrySources -> Nat]
      /\ \A r \in TelemetrySources : r # s => row'[r] = row[r] /\ flows'[r] = flows[r]
  BY DEF FilesInv
<1>3. CallFollows(s)'
  BY <1>1, <1>2 DEF CallFollows, CallOfSource
<1>4. SourceIsWhole(s)'
  BY <1>1, <1>2 DEF SourceIsWhole, RowOfSource, Files!Status
<1> QED BY <1>1, <1>2, <1>3, <1>4, FilesStepOf DEF FilesInv

LEMMA FilesFailCommit ==
    ASSUME FilesAssumption, FilesInv, NEW s \in TelemetrySources, Files!FailCommit(s),
           UNCHANGED << flows, stored >>, call[s].pc # "none"
    PROVE  FilesInv'
BY FilesLose DEF Files!FailCommit

LEMMA FilesRun ==
    ASSUME FilesAssumption, FilesInv, NEW s \in TelemetrySources, Files!Run(s) PROVE FilesInv'
<1> DEFINE new == [row[s] EXCEPT !.status = "running", !.progress = 1]
<1>1. call[s].pc = "added" /\ UNCHANGED << flows, stored >>
  BY DEF Files!Run
<1>2. CASE Files!FailCommit(s)
  BY <1>1, <1>2, FilesFailCommit
<1>3. CASE Files!Commit(s, new, "running")
  <2>1. new \in RowOfSource /\ new.status = "running"
    BY <1>1, CallAt DEF RowOfSource, Files!Status
  <2>2. /\ row' = [row EXCEPT ![s] = new] /\ Files!Step(s, "running")
        /\ UNCHANGED << lost, faults, staged >>
    BY <1>3 DEF Files!Commit, Files!Unmoved
  <2>3. PICK n \in Nat : n = 0 /\ flows' = [flows EXCEPT ![s] = n]
    BY <1>1, CallAt DEF FilesInv
  <2> HIDE DEF new
  <2> QED BY <1>1, <2>1, <2>2, <2>3, FilesCommit
<1> QED BY <1>2, <1>3 DEF Files!Run

LEMMA FilesStage ==
    ASSUME FilesAssumption, FilesInv, NEW s \in TelemetrySources, Files!Stage(s) PROVE FilesInv'
<1>1. call[s].pc = "running" /\ UNCHANGED << row, flows, stored, lost, faults >>
  BY DEF Files!Stage, Files!Unmoved
<1>2. \E pc \in {"failing", "staged"} : Files!Step(s, pc) /\ staged' \in {staged, staged \union {s}}
  BY DEF Files!Stage
<1> QED BY <1>1, <1>2, FilesMove DEF FilesInv

LEMMA FilesRecordChecksum ==
    ASSUME FilesAssumption, FilesInv, NEW s \in TelemetrySources, Files!RecordChecksum(s) PROVE FilesInv'
<1> DEFINE new == [row[s] EXCEPT !.checksum = call[s].content, !.progress = 5]
<1>1. call[s].pc = "staged" /\ UNCHANGED << flows, stored >>
  BY DEF Files!RecordChecksum
<1>2. CASE Files!FailCommit(s)
  BY <1>1, <1>2, FilesFailCommit
<1>3. CASE Files!Commit(s, new, "recorded")
  <2>1. new \in RowOfSource /\ new.status = row[s].status /\ new.checksum = call[s].content
    BY <1>1, CallAt DEF RowOfSource, Checksums
  <2>2. row[s].status = "running"
    BY <1>1, CallAt DEF CallFollows
  <2>3. /\ row' = [row EXCEPT ![s] = new] /\ Files!Step(s, "recorded")
        /\ UNCHANGED << lost, faults, staged >>
    BY <1>3 DEF Files!Commit, Files!Unmoved
  <2>4. PICK n \in Nat : n = 0 /\ flows' = [flows EXCEPT ![s] = n]
    BY <1>1, CallAt DEF FilesInv
  <2>5. new.status = "running" /\ new.status # "pending" /\ new.status # "completed"
    BY <2>1, <2>2
  <2> HIDE DEF new
  <2> QED BY <1>1, <2>1, <2>3, <2>4, <2>5, FilesCommit
<1> QED BY <1>2, <1>3 DEF Files!RecordChecksum

LEMMA FilesInspect ==
    ASSUME FilesAssumption, FilesInv, NEW s \in TelemetrySources, Files!Inspect(s) PROVE FilesInv'
<1>1. call[s].pc = "recorded" /\ UNCHANGED << row, flows, stored, staged, lost, faults >>
  BY DEF Files!Inspect, Files!Unmoved
<1>2. \E pc \in {"failing", "inspected"} :
        Files!Step(s, pc) /\ (pc = "inspected" => Files!Accepted(call[s].content))
  BY DEF Files!Inspect
<1>3. row[s].checksum = call[s].content
  BY <1>1, CallAt DEF CallFollows
<1> QED BY <1>1, <1>2, <1>3, FilesMove DEF FilesInv

LEMMA FilesLookUpStored ==
    ASSUME FilesAssumption, FilesInv, NEW s \in TelemetrySources, Files!LookUpStored(s) PROVE FilesInv'
<1> DEFINE at_checksum == stored[call[s].content]
<1>1. call[s].pc = "inspected" /\ UNCHANGED << row, flows, stored, lost, faults >>
  BY DEF Files!LookUpStored, Files!Unmoved
<1>2. at_checksum \in {"absent", "intact", "damaged"}
  BY <1>1, CallAt DEF FilesInv
<1>3. \E pc \in {"failing", "moving", "stored"} :
        /\ Files!Step(s, pc) /\ staged' \in {staged, staged \ {s}}
        /\ pc = "stored" => at_checksum # "absent" /\ staged' = staged \ {s}
  BY <1>2 DEF Files!LookUpStored
<1>4. row[s].checksum = call[s].content /\ Files!Accepted(call[s].content)
  BY <1>1, CallAt DEF CallFollows
<1> QED BY <1>1, <1>3, <1>4, FilesMove DEF FilesInv

LEMMA FilesMoveIn ==
    ASSUME FilesAssumption, FilesInv, NEW s \in TelemetrySources, Files!Move(s) PROVE FilesInv'
<1>1. /\ call[s].pc = "moving" /\ UNCHANGED << row, flows, lost >>
      /\ staged' = staged \ {s} /\ faults' \in 0..Faults
  BY DEF Files!Move, FilesInv, FilesAssumption
<1>2. row[s].checksum = call[s].content /\ Files!Accepted(call[s].content)
  BY <1>1, CallAt DEF CallFollows
<1>3. CASE stored' = [stored EXCEPT ![call[s].content] = "intact"] /\ Files!Step(s, "stored")
  <2>1. /\ stored' \in [Contents -> {"absent", "intact", "damaged"}]
        /\ \A c \in Contents : stored[c] # "absent" => stored'[c] # "absent"
        /\ stored'[call[s].content] # "absent"
    BY <1>1, <1>3, CallAt DEF FilesInv
  <2> QED BY <1>1, <1>2, <1>3, <2>1, FilesMove
<1>4. CASE UNCHANGED stored /\ Files!Step(s, "failing")
  <2>1. /\ stored' \in [Contents -> {"absent", "intact", "damaged"}]
        /\ \A c \in Contents : stored[c] # "absent" => stored'[c] # "absent"
    BY <1>4 DEF FilesInv
  <2> QED BY <1>1, <1>4, <2>1, FilesMove
<1> QED BY <1>3, <1>4 DEF Files!Move

LEMMA FilesComplete ==
    ASSUME FilesAssumption, FilesInv, NEW s \in TelemetrySources, Files!Complete(s) PROVE FilesInv'
<1> DEFINE c == call[s].content
           new == [row[s] EXCEPT !.status = "completed", !.progress = 10,
                                 !.records = Files!Records(c), !.stored = c]
<1>1. call[s].pc = "stored" /\ UNCHANGED stored
  BY DEF Files!Complete
<1>2. CASE Files!FailCommit(s) /\ UNCHANGED flows
  BY <1>1, <1>2, FilesFailCommit
<1>3. CASE Files!Commit(s, new, "none") /\ flows' = [flows EXCEPT ![s] = Files!FlowsOf(c)]
  <2>1. c \in Contents /\ Files!Accepted(c) /\ row[s].checksum = c /\ stored[c] # "absent"
    BY <1>1, CallAt DEF CallFollows
  <2>2. /\ new \in RowOfSource /\ new.status = "completed" /\ new.stored = c
        /\ new.checksum = c /\ new.records = Files!Records(c)
    BY <1>1, <2>1, CallAt, FlowsAreCounted DEF RowOfSource, Files!Status, Checksums
  <2>3. /\ row' = [row EXCEPT ![s] = new] /\ Files!Step(s, "none")
        /\ UNCHANGED << lost, faults, staged >>
    BY <1>3 DEF Files!Commit, Files!Unmoved
  <2>4. s \notin staged' \/ s \in lost
    BY <1>1, <2>3, CallAt
  <2>5. PICK n \in Nat : n = Files!FlowsOf(c)
    BY FlowsAreCounted
  <2>6. n = IF Nature[c] = "table" THEN 0 ELSE Files!Records(c)
    BY <2>1, <2>5, AcceptedFlows
  <2>7. flows' = [flows EXCEPT ![s] = n]
    BY <1>3, <2>5
  <2> HIDE DEF new
  <2> QED BY <1>1, <2>1, <2>2, <2>3, <2>4, <2>6, <2>7, FilesCommit
<1> QED BY <1>2, <1>3 DEF Files!Complete

LEMMA FilesFail ==
    ASSUME FilesAssumption, FilesInv, NEW s \in TelemetrySources, Files!Fail(s) PROVE FilesInv'
<1> DEFINE new == [row[s] EXCEPT !.status = "failed"]
<1>1. call[s].pc = "failing" /\ UNCHANGED << flows, stored >>
  BY DEF Files!Fail
<1>2. CASE Files!FailCommit(s)
  BY <1>1, <1>2, FilesFailCommit
<1>3. CASE /\ row' = [row EXCEPT ![s].status = "failed"] /\ Files!Unmoved
           /\ Files!Step(s, "none") /\ staged' = staged \ {s}
  <2>1. new \in RowOfSource /\ new.status = "failed"
    BY <1>1, CallAt DEF RowOfSource, Files!Status
  <2>2. row' = [row EXCEPT ![s] = new] /\ UNCHANGED << lost, faults >>
    BY <1>3 DEF Files!Unmoved
  <2>3. PICK n \in Nat : n = 0 /\ flows' = [flows EXCEPT ![s] = n]
    BY <1>1, CallAt DEF FilesInv
  <2> HIDE DEF new
  <2> QED BY <1>1, <1>3, <2>1, <2>2, <2>3, FilesCommit
<1> QED BY <1>2, <1>3 DEF Files!Fail

LEMMA FilesDamage ==
    ASSUME FilesAssumption, FilesInv, NEW c \in Contents, Files!Damage(c) PROVE FilesInv'
<1>1. /\ stored' \in [Contents -> {"absent", "intact", "damaged"}] /\ faults' \in 0..Faults
      /\ \A x \in Contents : stored[x] # "absent" => stored'[x] # "absent"
      /\ UNCHANGED << row, flows, staged, call, lost >>
  BY DEF Files!Damage, FilesInv, FilesAssumption
<1>2. ASSUME NEW s \in TelemetrySources PROVE CallFollows(s)' /\ SourceIsWhole(s)'
  <2>1. CallFollows(s) /\ SourceIsWhole(s)
    BY DEF FilesInv
  <2>2. call[s].pc = "stored" => call[s].content \in Contents
    BY <2>1 DEF CallFollows, CallOfSource, Files!NoCall
  <2>3. CallFollows(s)'
    BY <1>1, <2>1, <2>2 DEF CallFollows, Files!Accepted, Files!DecodedPackets, Files!Records
  <2>4. SourceIsWhole(s)'
    BY <1>1, <2>1 DEF SourceIsWhole
  <2> QED BY <2>3, <2>4
<1> QED BY <1>1, <1>2 DEF FilesInv

LEMMA FilesStep == FilesAssumption /\ FilesInv /\ [Files!Next]_Files!vars => FilesInv'
<1> SUFFICES ASSUME FilesAssumption, FilesInv, [Files!Next]_Files!vars PROVE FilesInv'
  OBVIOUS
<1>1. ASSUME NEW s \in TelemetrySources, NEW c \in Contents, Files!IngestUpload(s, c) \/ Files!IngestSample(s, c)
      PROVE  FilesInv'
  BY <1>1, FilesAdd DEF Files!IngestUpload, Files!IngestSample
<1>2. ASSUME NEW s \in TelemetrySources, Files!Crash(s) PROVE FilesInv'
  BY <1>2, FilesLose DEF Files!Crash
<1>3. CASE UNCHANGED Files!vars
  BY <1>3 DEF Files!vars, FilesInv, CallFollows, SourceIsWhole, Files!Accepted,
     Files!DecodedPackets, Files!Records
<1> QED BY <1>1, <1>2, <1>3, FilesRun, FilesStage, FilesRecordChecksum, FilesInspect,
        FilesLookUpStored, FilesMoveIn, FilesComplete, FilesFail, FilesDamage DEF Files!Next

\* The invariant of the part, in the composition.
LEMMA FilesHold == StorageSpec => [](part = "files" => FilesInv)
<1>1. StorageInit => (part = "files" => FilesInv)
  BY StorageAssumption, FilesInit DEF StorageInit
<1>2. (part = "files" => FilesInv) /\ [StorageNext]_StorageVars => (part = "files" => FilesInv)'
  <2> SUFFICES ASSUME part = "files" => FilesInv, [StorageNext]_StorageVars, part' = "files"
               PROVE  FilesInv'
    OBVIOUS
  <2>1. part = "files" /\ [Files!Next]_(Files!vars)
    BY DEF StorageNext, StoreNext, FilesNext, CapturesNext, SegmentNext, DataFilesNext, GatesNext,
           SchemaNext, RowSessionsNext, StorageVars, StoreVars, FileVars, CaptureVars, SegmentVars,
           DataFileVars, GateVars, SchemaVars, SessionVars, Files!vars
  <2> QED BY <2>1, StorageAssumption, FilesStep
<1> QED BY <1>1, <1>2, PTL DEF StorageSpec

\* A telemetry source has a status, a progress and a checksum that the program
\* gives it, and the store has each content intact, damaged or not at all.
THEOREM FilesTypesCorrect == ASSUME FilesAssumption PROVE Files!Spec => []Files!TypeOK
<1>1. FilesInv => Files!TypeOK
  BY DEF FilesInv, Files!TypeOK, CallFollows, RowOfSource, Checksums
<1> QED BY FilesInit, FilesStep, <1>1, PTL DEF Files!Spec

-----------------------------------------------------------------------------
(* Captures, once they are stored: what the two readers of one agree on,   *)
(* for every file.                                                         *)

\* A capture of words.
IsCapture(f) ==
    /\ f.format \in {"classic", "pcapng"} /\ f.words \in Seq(Nat)
    /\ f.snap_length \in Nat /\ f.link_type \in Nat

\* The powers of a base are what they are called.
LEMMA PowersMultiply ==
    ASSUME NEW base \in Nat \ {0}
    PROVE  /\ Readings!Power(base)[0] = 1
           /\ \A n \in 1..63 : Readings!Power(base)[n] = base * Readings!Power(base)[n - 1]
<1> DEFINE Powers(k, g) == g[0] = 1 /\ \A n \in 1..k : g[n] = base * g[n - 1]
           G == {k \in 0..63 : \E g \in [0..k -> Int] : Powers(k, g)}
<1>1. 0 \in G
  <2>1. PICK g : g = [n \in 0..0 |-> 1]
    OBVIOUS
  <2>2. g \in [0..0 -> Int] /\ Powers(0, g)
    BY <2>1
  <2>3. \E h \in [0..0 -> Int] : Powers(0, h)
    BY <2>2
  <2> QED BY <2>3
<1>2. ASSUME NEW k \in 0..63, k # 0, k - 1 \in G PROVE k \in G
  <2>1. PICK g \in [0..(k - 1) -> Int] : Powers(k - 1, g)
    BY <1>2
  <2>2. PICK h : h = [n \in 0..k |-> IF n = k THEN base * g[k - 1] ELSE g[n]]
    OBVIOUS
  <2>3. /\ \A n \in 0..(k - 1) : h[n] = g[n]
        /\ h[k] = base * g[k - 1] /\ h \in [0..k -> Int]
    <3>1. k - 1 \in 0..(k - 1) /\ k \in 0..k
      BY <1>2
    <3>2. PICK m \in Int : m = base * g[k - 1]
      BY <3>1
    <3>3. ASSUME NEW n \in 0..(k - 1) PROVE n \in 0..k /\ n # k /\ g[n] \in Int
      BY <1>2
    <3>4. ASSUME NEW n \in 0..k PROVE h[n] \in Int
      <4>1. n = k \/ n \in 0..(k - 1)
        BY <1>2
      <4> QED BY <2>2, <3>2, <3>3, <4>1
    <3> QED BY <2>2, <3>1, <3>3, <3>4
  <2>4. Powers(k, h)
    <3>1. h[0] = 1
      BY <1>2, <2>1, <2>3
    <3>2. ASSUME NEW n \in 1..k PROVE h[n] = base * h[n - 1]
      <4>1. n - 1 \in 0..(k - 1)
        OBVIOUS
      <4>2. CASE n = k
        BY <2>3, <4>1, <4>2
      <4>3. CASE n # k
        <5>1. n \in 1..(k - 1) /\ n \in 0..(k - 1)
          BY <4>3
        <5> QED BY <2>1, <2>3, <4>1, <5>1
      <4> QED BY <4>2, <4>3
    <3> QED BY <3>1, <3>2
  <2> QED BY <2>3, <2>4
<1>3. 63 \in G
  <2> HIDE DEF G
  <2>1. \A k \in 0..63 : k # 0 /\ k - 1 \in G => k \in G
    BY <1>2
  <2>2. 0..63 \subseteq G
    BY <1>1, <2>1, Climb
  <2> QED BY <2>2
<1>4. PICK g \in [0..63 -> Int] : Powers(63, g)
  BY <1>3
<1>5. g = [n \in 0..63 |-> IF n = 0 THEN 1 ELSE base * g[n - 1]]
  <2>1. ASSUME NEW n \in 0..63 PROVE g[n] = IF n = 0 THEN 1 ELSE base * g[n - 1]
    <3>1. n # 0 => n \in 1..63
      OBVIOUS
    <3> QED BY <1>4, <3>1
  <2> QED BY <2>1
<1>6. PICK f : f = Readings!Power(base)
  OBVIOUS
<1>7. f = [n \in 0..63 |-> IF n = 0 THEN 1 ELSE base * f[n - 1]]
  BY <1>5, <1>6 DEF Readings!Power
<1>8. f[0] = 1 /\ \A n \in 1..63 : f[n] = base * f[n - 1]
  <2>1. 0 \in 0..63 /\ \A n \in 1..63 : n \in 0..63 /\ n # 0
    OBVIOUS
  <2> QED BY <1>7, <2>1
<1> QED BY <1>6, <1>8

LEMMA PowersAreCounts ==
    ASSUME NEW base \in Nat \ {0}, NEW n \in 0..63 PROVE Readings!Power(base)[n] \in Nat \ {0}
<1> DEFINE G == {k \in 0..63 : Readings!Power(base)[k] \in Nat \ {0}}
<1>1. 0 \in G
  BY PowersMultiply
<1>2. ASSUME NEW k \in 0..63, k # 0, k - 1 \in G PROVE k \in G
  <2>1. PICK m \in Nat \ {0} : m = Readings!Power(base)[k - 1]
    BY <1>2
  <2>2. k \in 1..63
    BY <1>2
  <2>3. Readings!Power(base)[k] = base * m
    BY <2>1, <2>2, PowersMultiply
  <2>4. base * m \in Nat \ {0}
    OBVIOUS
  <2> QED BY <2>3, <2>4
<1>3. 0..63 \subseteq G
  <2> HIDE DEF G
  <2> QED BY <1>1, <1>2, Climb
<1> QED BY <1>3

LEMMA UnitsAreCounts ==
    ASSUME NEW r, Readings!Supported(r) PROVE Readings!TimestampUnits(r) \in Nat \ {0}
<1>1. r \in 0..18 \/ r \in 128..191
  BY DEF Readings!Supported
<1>2. CASE r \in 0..18
  <2>1. ~(r >= 128) /\ r \in 0..63
    BY <1>2
  <2>2. Readings!Power(10)[r] \in Nat \ {0}
    <3>1. 10 \in Nat \ {0}
      OBVIOUS
    <3>2. \A n \in 0..63 : Readings!Power(10)[n] \in Nat \ {0}
      BY <3>1, PowersAreCounts, Zenon
    <3> QED BY <2>1, <3>2
  <2> QED BY <2>1, <2>2 DEF Readings!TimestampUnits
<1>3. CASE r \in 128..191
  <2>1. r >= 128 /\ r - 128 \in 0..63
    BY <1>3
  <2>2. Readings!Power(2)[r - 128] \in Nat \ {0}
    <3>1. 2 \in Nat \ {0}
      OBVIOUS
    <3>2. \A n \in 0..63 : Readings!Power(2)[n] \in Nat \ {0}
      BY <3>1, PowersAreCounts, Zenon
    <3> QED BY <2>1, <3>2
  <2> QED BY <2>1, <2>2 DEF Readings!TimestampUnits
<1> QED BY <1>1, <1>2, <1>3

\* The microseconds a timestamp may have.
Microseconds == 0..(Readings!MicrosPerSecond - 1)

LEMMA SecondsAreCounted == Readings!MicrosPerSecond \in Nat \ {0}
BY DEF Readings!MicrosPerSecond

\* A fraction of a second has fewer microseconds than the second.
LEMMA FractionIsSmall ==
    ASSUME NEW m \in Nat \ {0}, NEW u \in Nat \ {0}, NEW f \in 0..(u - 1)
    PROVE  (f * m) \div u \in 0..(m - 1)
<1>1. PICK q \in Int : q = (f * m) \div u
  BY SMTT(30)
<1>2. f * m \in Nat /\ f * m < u * m
  BY SMTT(30)
<1>3. q >= 0 /\ q * u <= f * m
  BY <1>1, <1>2, SMTT(30)
<1>4. q < m
  <2>1. q >= m => q * u >= m * u
    BY SMTT(30)
  <2> QED BY <1>2, <1>3, <2>1, SMTT(30)
<1> QED BY <1>1, <1>3, <1>4

LEMMA WordsAreCounts ==
    ASSUME IsCapture(capture)
    PROVE  Readings!Size \in Nat /\ \A i \in 1..Readings!Size : Readings!Word(i) \in Nat
<1>1. PICK w \in Seq(Nat) : w = capture.words
  BY DEF IsCapture
<1>2. Len(w) \in Nat /\ \A i \in 1..Len(w) : w[i] \in Nat
  OBVIOUS
<1> QED BY <1>1, <1>2 DEF Readings!Size, Readings!Word

\* The blocks and records of a capture follow each other.
LEMMA BlocksFollow ==
    ASSUME IsCapture(capture), NEW at \in 0..Readings!Size, Readings!Accepted(at), at # Readings!Size
    PROVE  /\ Readings!Following(at) \in (at + 1)..Readings!Size
           /\ Readings!Counted(at) \in {0, 1}
<1>1. PICK n \in Nat : n = Len(capture.words) /\ n = Readings!Size
  BY WordsAreCounts DEF Readings!Size
<1>2. \A i \in 1..n : Readings!Word(i) \in Nat
  BY <1>1, WordsAreCounts
<1>3. at \in 0..n /\ at # n
  BY <1>1
<1>4. Readings!Counted(at) \in {0, 1}
  BY DEF Readings!Counted
<1>5. CASE capture.format = "pcapng"
  <2>1. Readings!Framed(at)
    BY <1>5 DEF Readings!Accepted
  <2>2. at + 2 <= n /\ at + 2 \in 1..n
    BY <1>1, <1>3, <2>1 DEF Readings!Framed, Readings!Header
  <2>3. PICK length \in Nat : length = Readings!BlockLength(at)
    BY <1>2, <2>2 DEF Readings!BlockLength
  <2>4. length >= 12 /\ at + length \div 4 <= n
    BY <1>1, <2>1, <2>3 DEF Readings!Framed
  <2>5. Readings!Following(at) = at + length \div 4
    BY <1>5, <2>3 DEF Readings!Following
  <2>6. length \div 4 \in Nat /\ length \div 4 >= 3
    BY <2>4
  <2> QED BY <1>1, <1>3, <1>4, <2>4, <2>5, <2>6
<1>6. CASE capture.format # "pcapng"
  <2>1. Readings!ClassicRecord(at)
    BY <1>6 DEF Readings!Accepted
  <2>2. at + 4 <= n /\ at + 3 \in 1..n
    BY <1>1, <1>3, <2>1 DEF Readings!ClassicRecord
  <2>3. PICK bytes \in Nat : bytes = Readings!Word(at + 3)
    BY <1>2, <2>2
  <2>4. Readings!Words(bytes) \in Nat
    BY DEF Readings!Words
  <2>5. at + 4 + Readings!Words(bytes) <= n
    BY <1>1, <2>1, <2>3 DEF Readings!ClassicRecord
  <2>6. Readings!Following(at) = at + (4 + Readings!Words(bytes))
    BY <1>6, <2>3 DEF Readings!Following
  <2> QED BY <1>1, <1>3, <1>4, <2>4, <2>5, <2>6
<1> QED BY <1>5, <1>6

\* Where the reader stands after a block it could read.
Interfaces == [link_type : Nat, snap_length : Nat, units : Nat \ {0}]

\* What the reader does with a block that the ingestor accepted.
LEMMA ReaderFollows ==
    ASSUME IsCapture(capture), replayed.interfaces \in Seq(Interfaces),
           NEW at \in 0..Readings!Size, at # Readings!Size
    PROVE  /\ Readings!BlockKind(at) \in {"packet", "interface", "other", "refused"}
           /\ ~Readings!Accepted(at) => Readings!BlockKind(at) = "refused"
           /\ Readings!BlockKind(at) # "refused" =>
                /\ Readings!After(at) = Readings!Following(at)
                /\ Readings!Counted(at) = IF Readings!BlockKind(at) = "packet" THEN 1 ELSE 0
<1>1. PICK n \in Nat : n = Len(capture.words) /\ n = Readings!Size
  BY WordsAreCounts DEF Readings!Size
<1>2. \A i \in 1..n : Readings!Word(i) \in Nat
  BY <1>1, WordsAreCounts
<1>3. at \in 0..n /\ at # n
  BY <1>1
<1>4. Readings!BlockKind(at) \in {"packet", "interface", "other", "refused"}
  BY DEF Readings!BlockKind
<1>5. ~Readings!Accepted(at) => Readings!BlockKind(at) = "refused"
  BY DEF IsCapture, Readings!BlockKind, Readings!Accepted
<1>6. SUFFICES ASSUME Readings!BlockKind(at) # "refused"
      PROVE  /\ Readings!After(at) = Readings!Following(at)
             /\ Readings!Counted(at) = IF Readings!BlockKind(at) = "packet" THEN 1 ELSE 0
  BY <1>4, <1>5
<1>7. CASE capture.format = "classic"
  <2>1. capture.format # "pcapng"
    BY <1>7
  <2>2. Readings!BlockKind(at) = "packet" /\ Readings!ClassicRecord(at)
    BY <1>6, <1>7 DEF Readings!BlockKind
  <2>3. Readings!Counted(at) = 1
    BY <2>1 DEF Readings!Counted
  <2>4. at + 3 \in 1..n
    BY <1>1, <1>3, <2>2 DEF Readings!ClassicRecord
  <2>5. PICK w \in Nat : w = Readings!Words(Readings!Word(at + 3))
    BY <1>2, <2>4 DEF Readings!Words
  <2>6. Readings!After(at) = at + 4 + w /\ Readings!Following(at) = at + (4 + w)
    BY <1>7, <2>1, <2>5 DEF Readings!After, Readings!Following
  <2>7. Readings!After(at) = Readings!Following(at)
    BY <1>3, <2>6
  <2> QED BY <2>2, <2>3, <2>7
<1>8. CASE capture.format # "classic"
  <2>1. capture.format = "pcapng" /\ Readings!Framed(at)
    BY <1>6, <1>8 DEF IsCapture, Readings!BlockKind
  <2>2. at + 2 <= n /\ at + 2 \in 1..n
    BY <1>1, <1>3, <2>1 DEF Readings!Framed, Readings!Header
  <2>3. PICK length \in Nat : length = Readings!BlockLength(at)
    BY <1>2, <2>2 DEF Readings!BlockLength
  <2>4. length >= 12 /\ at + length \div 4 <= n
    BY <1>1, <2>1, <2>3 DEF Readings!Framed
  <2>5. PICK body \in Nat : body = Readings!BodyWords(at) /\ body = length \div 4 - 3
    <3>1. length \div 4 - 3 \in Nat
      BY <2>4
    <3> QED BY <2>3, <3>1 DEF Readings!BodyWords
  <2>6. Readings!Following(at) = at + length \div 4
    BY <2>1, <2>3 DEF Readings!Following
  <2>7. at + 2 + body + 1 = at + length \div 4
    BY <1>3, <2>5
  <2>8. CASE Readings!BlockKind(at) = "packet"
    <3>1. /\ Readings!Word(at + 1) \in {Readings!PacketBlock, Readings!EnhancedPacketBlock}
          /\ Readings!PacketAccepted(at)
      BY <1>8, <2>1, <2>8 DEF Readings!BlockKind
    <3>2. Readings!Counted(at) = 1
      BY <3>1 DEF Readings!Counted
    <3>3. body >= 5
      BY <2>5, <3>1 DEF Readings!PacketAccepted
    <3>4. at + 6 \in 1..n
      BY <1>3, <2>4, <2>5, <3>3
    <3>5. PICK data \in Nat : data = Readings!Words(Readings!Word(at + 6))
      BY <1>2, <3>4 DEF Readings!Words
    <3>6. Readings!After(at) = at + 2 + 5 + data + (body - 5 - data) + 1
      BY <1>8, <2>5, <2>8, <3>5 DEF Readings!After
    <3>7. Readings!After(at) = at + 2 + body + 1
      BY <1>3, <3>6
    <3> QED BY <2>6, <2>7, <2>8, <3>2, <3>7
  <2>9. CASE Readings!BlockKind(at) # "packet"
    <3>1. Readings!After(at) = at + 2 + body + 1
      BY <1>8, <2>5, <2>9 DEF Readings!After
    <3>2. Readings!Counted(at) = 0
      <4>1. Readings!Word(at + 1) \notin
                {Readings!PacketBlock, Readings!SimplePacketBlock, Readings!EnhancedPacketBlock}
        BY <1>6, <1>8, <2>1, <2>9
           DEF Readings!BlockKind, Readings!InterfaceBlock, Readings!PacketBlock,
               Readings!SimplePacketBlock, Readings!EnhancedPacketBlock
      <4> QED BY <2>1, <4>1 DEF Readings!Counted
    <3> QED BY <2>6, <2>7, <2>9, <3>1, <3>2
  <2> QED BY <2>8, <2>9
<1> QED BY <1>7, <1>8

\* The time of a packet that was read, and an interface that was.
LEMMA PacketsHaveTimes ==
    ASSUME IsCapture(capture), replayed.interfaces \in Seq(Interfaces),
           NEW at \in 0..Readings!Size, at # Readings!Size, Readings!BlockKind(at) = "packet"
    PROVE  Readings!PacketOf(at).timestamp.microseconds \in Microseconds
<1>1. PICK n \in Nat : n = Len(capture.words) /\ n = Readings!Size
  BY WordsAreCounts DEF Readings!Size
<1>2. \A i \in 1..n : Readings!Word(i) \in Nat
  BY <1>1, WordsAreCounts
<1>3. at \in 0..n /\ at # n
  BY <1>1
<1>4. PICK m \in Nat \ {0} : m = Readings!MicrosPerSecond
  BY SecondsAreCounted
<1>5. ASSUME NEW u \in Nat \ {0}, NEW f \in 0..(u - 1), NEW seconds
      PROVE  Readings!Timestamp(seconds, f, u).microseconds \in Microseconds
  <2>1. (f * m) \div u \in 0..(m - 1)
    BY FractionIsSmall
  <2> QED BY <1>4, <2>1 DEF Readings!Timestamp, Microseconds
<1>6. CASE capture.format = "classic"
  <2>1. capture.format # "pcapng"
    BY <1>6
  <2>2. Readings!ClassicRecord(at) /\ Readings!Word(at + 2) < m
    BY <1>4, <1>6 DEF Readings!BlockKind
  <2>3. at + 2 \in 1..n
    BY <1>1, <1>3, <2>2 DEF Readings!ClassicRecord
  <2>4. PICK f \in 0..(m - 1) : f = Readings!Word(at + 2)
    BY <1>2, <2>2, <2>3
  <2>5. Readings!PacketOf(at).timestamp = Readings!Timestamp(Readings!Word(at + 1), f, m)
    BY <1>4, <2>1, <2>4 DEF Readings!PacketOf
  <2> QED BY <1>5, <2>5
<1>7. CASE capture.format # "classic"
  <2>1. capture.format = "pcapng" /\ Readings!Framed(at)
    BY <1>7 DEF IsCapture, Readings!BlockKind
  <2>2. at + 2 <= n /\ at + 2 \in 1..n
    BY <1>1, <1>3, <2>1 DEF Readings!Framed, Readings!Header
  <2>3. PICK length \in Nat : length = Readings!BlockLength(at)
    BY <1>2, <2>2 DEF Readings!BlockLength
  <2>4. length >= 12 /\ at + length \div 4 <= n
    BY <1>1, <2>1, <2>3 DEF Readings!Framed
  <2>5. Readings!PacketAccepted(at)
    BY <1>7, <2>1 DEF Readings!BlockKind
  <2>6. length \div 4 - 3 >= 5
    BY <2>3, <2>5 DEF Readings!PacketAccepted, Readings!BodyWords
  <2>7. at + 3 \in 1..n /\ at + 5 \in 1..n
    BY <1>3, <2>4, <2>6
  <2>8. Readings!InterfaceId(at) \in Nat
    BY <1>2, <2>7 DEF Readings!InterfaceId
  <2>9. Readings!InterfaceId(at) + 1 \in 1..Len(replayed.interfaces)
    BY <2>5, <2>8 DEF Readings!PacketAccepted
  <2>10. PICK i \in Interfaces : i = replayed.interfaces[Readings!InterfaceId(at) + 1]
    BY <2>9
  <2>11. PICK u \in Nat \ {0} : u = i.units
    BY DEF Interfaces
  <2>12. PICK w \in Nat : w = Readings!Word(at + 5)
    BY <1>2, <2>7
  <2>13. PICK f \in 0..(u - 1) : f = w % u
    <3>1. w % u \in 0..(u - 1)
      BY SMTT(30)
    <3> QED BY <3>1
  <2>14. Readings!PacketOf(at).timestamp = Readings!Timestamp(w \div u, f, u)
    BY <2>1, <2>10, <2>11, <2>12, <2>13 DEF Readings!PacketOf
  <2> QED BY <1>5, <2>14
<1> QED BY <1>6, <1>7

LEMMA InterfacesAreTyped ==
    ASSUME IsCapture(capture), replayed.interfaces \in Seq(Interfaces),
           NEW at \in 0..Readings!Size, at # Readings!Size, Readings!BlockKind(at) = "interface"
    PROVE  /\ Readings!Interface(at) \in Interfaces
           /\ Len(replayed.interfaces) < MaxInterfaces
<1>1. PICK n \in Nat : n = Len(capture.words) /\ n = Readings!Size
  BY WordsAreCounts DEF Readings!Size
<1>2. \A i \in 1..n : Readings!Word(i) \in Nat
  BY <1>1, WordsAreCounts
<1>3. at \in 0..n /\ at # n
  BY <1>1
<1>4. Readings!Framed(at) /\ Readings!InterfaceAccepted(at)
  BY DEF IsCapture, Readings!BlockKind
<1>5. at + 2 \in 1..n
  BY <1>1, <1>3, <1>4 DEF Readings!Framed, Readings!Header
<1>6. PICK length \in Nat : length = Readings!BlockLength(at)
  BY <1>2, <1>5 DEF Readings!BlockLength
<1>7. at + length \div 4 <= n
  BY <1>1, <1>4, <1>6 DEF Readings!Framed
<1>8. /\ length \div 4 - 3 >= 2 /\ Len(replayed.interfaces) < MaxInterfaces
      /\ Readings!Supported(Readings!Options(
            SubSeq(capture.words, at + 5, at + 2 + Readings!BodyWords(at))).resolution)
  BY <1>4, <1>6 DEF Readings!InterfaceAccepted, Readings!BodyWords
<1>9. at + 3 \in 1..n /\ at + 4 \in 1..n
  BY <1>3, <1>7, <1>8
<1>10. Readings!Word(at + 3) % 65536 \in Nat /\ Readings!Word(at + 4) \in Nat
  BY <1>2, <1>9
<1>11. Readings!TimestampUnits(Readings!Options(
            SubSeq(capture.words, at + 5, at + 2 + Readings!BodyWords(at))).resolution) \in Nat \ {0}
  BY <1>8, UnitsAreCounts
<1> QED BY <1>8, <1>10, <1>11 DEF Readings!Interface, Interfaces

\* C gives the number of packets before each place the ingestor has passed, up to at.
Walked(C, at, count) ==
    /\ C \in [0..Readings!Size -> Int]
    /\ C[0] = 0 /\ C[at] = count
    /\ \A i \in 0..Readings!Size : C[i] >= 0 => i <= at /\ C[i] <= count
    /\ \A i \in 0..Readings!Size : C[i] >= 0 /\ i # at =>
        /\ Readings!Accepted(i) /\ i # Readings!Size
        /\ Readings!Following(i) \in 0..Readings!Size
        /\ C[Readings!Following(i)] = C[i] + Readings!Counted(i)

\* What was read has times, and interfaces are what is read of them.
Timed(S) == \A p \in S : p.captured.timestamp.microseconds \in Microseconds
ReplayTyped ==
    \E S : Timed(S) /\ replayed \in [status : {"reading", "done", "failed"}, at : 0..Readings!Size,
                                     interfaces : Seq(Interfaces), packets : Seq(S)]

\* The reader stands where the ingestor has been, with as many packets.
Follows ==
    \E C, at, count : /\ at = inspected.at /\ count = inspected.count
                      /\ Walked(C, at, count)
                      /\ C[replayed.at] = Len(replayed.packets)

CapturesInv ==
    /\ capture \in CaptureFiles
    /\ inspected \in [status : {"reading", "accepted", "refused"}, at : 0..Readings!Size,
                      count : 0..MaxRecords]
    /\ ReplayTyped
    /\ Len(replayed.interfaces) <= MaxInterfaces /\ Len(replayed.packets) <= MaxRecords
    /\ inspected.status = "reading" =>
        /\ replayed.at = 0 /\ replayed.packets = << >> /\ replayed.status = "reading"
    /\ inspected.status = "accepted" => inspected.at = Readings!Size
    /\ inspected.status = "refused" =>
        /\ inspected.at # Readings!Size
        /\ ~Readings!Accepted(inspected.at)
            \/ inspected.count + Readings!Counted(inspected.at) > MaxRecords
    /\ replayed.status = "done" => replayed.at = Readings!Size
    /\ Follows

LEMMA CapturesAreOfWords ==
    ASSUME CapturesAssumption, capture \in CaptureFiles
    PROVE  IsCapture(capture) /\ Readings!Size \in Nat
<1>1. IsCapture(capture)
  BY DEF CapturesAssumption, IsCapture
<1> QED BY <1>1 DEF IsCapture, Readings!Size

\* A capture does not change while it is read.
LEMMA CaptureStays ==
    ASSUME capture' = capture
    PROVE  /\ Readings!Size' = Readings!Size
           /\ \A at : /\ Readings!Accepted(at)' <=> Readings!Accepted(at)
                      /\ Readings!Counted(at)' = Readings!Counted(at)
                      /\ Readings!Following(at)' = Readings!Following(at)
           /\ \A C, at, count : Walked(C, at, count)' <=> Walked(C, at, count)
<1>1. Readings!Size' = Readings!Size /\ \A i : Readings!Word(i)' = Readings!Word(i)
  BY DEF Readings!Size, Readings!Word
<1>2. \A at : Readings!BlockLength(at)' = Readings!BlockLength(at)
  BY <1>1 DEF Readings!BlockLength
<1>3. \A at : Readings!Framed(at)' <=> Readings!Framed(at)
  BY <1>1, <1>2 DEF Readings!Framed, Readings!Header
<1>4. \A at : Readings!ClassicRecord(at)' <=> Readings!ClassicRecord(at)
  BY <1>1 DEF Readings!ClassicRecord
<1>5. \A at : Readings!Accepted(at)' <=> Readings!Accepted(at)
  BY <1>3, <1>4 DEF Readings!Accepted
<1>6. \A at : Readings!Counted(at)' = Readings!Counted(at)
  BY <1>1 DEF Readings!Counted
<1>7. \A at : Readings!Following(at)' = Readings!Following(at)
  BY <1>1, <1>2 DEF Readings!Following
<1>8. \A C, at, count : Walked(C, at, count)' <=> Walked(C, at, count)
  BY <1>1, <1>5, <1>6, <1>7 DEF Walked
<1> QED BY <1>1, <1>5, <1>6, <1>7, <1>8

LEMMA CapturesInit == CapturesAssumption /\ Readings!Init => CapturesInv
<1> SUFFICES ASSUME CapturesAssumption, Readings!Init PROVE CapturesInv
  OBVIOUS
<1>1. /\ capture \in CaptureFiles
      /\ inspected = [status |-> "reading", at |-> 0, count |-> 0]
      /\ replayed = [status |-> "reading", at |-> 0, interfaces |-> << >>, packets |-> << >>]
  BY DEF Readings!Init
<1>2. PICK n \in Nat : n = Readings!Size
  BY <1>1, CapturesAreOfWords
<1>3. MaxRecords \in Nat /\ MaxInterfaces \in Nat /\ 0 \in 0..n
  BY DEF CapturesAssumption
<1>4. ReplayTyped
  <2>1. PICK S : S = {}
    OBVIOUS
  <2>2. Timed(S)
    BY <2>1, Zenon DEF Timed
  <2>3. replayed \in [status : {"reading", "done", "failed"}, at : 0..Readings!Size,
                      interfaces : Seq(Interfaces), packets : Seq(S)]
    BY <1>1, <1>2, <1>3
  <2> QED BY <2>2, <2>3 DEF ReplayTyped
<1>5. Follows
  <2>1. PICK C : C = [i \in 0..n |-> IF i = 0 THEN 0 ELSE -1]
    OBVIOUS
  <2>2. C \in [0..n -> Int] /\ C[0] = 0 /\ \A i \in 0..n : C[i] >= 0 => i = 0
    BY <1>3, <2>1
  <2>3. Walked(C, 0, 0)
    BY <1>2, <2>2 DEF Walked
  <2> QED BY <1>1, <2>2, <2>3 DEF Follows
<1> QED BY <1>1, <1>2, <1>3, <1>4, <1>5 DEF CapturesInv

\* The ingestor goes on.
LEMMA InspectKeeps ==
    ASSUME CapturesAssumption, CapturesInv, Readings!InspectBlock PROVE CapturesInv'
<1>1. /\ capture' = capture /\ replayed' = replayed /\ inspected.status = "reading"
      /\ inspected' = IF inspected.at = Readings!Size THEN [inspected EXCEPT !.status = "accepted"]
            ELSE IF ~Readings!Accepted(inspected.at)
                        \/ inspected.count + Readings!Counted(inspected.at) > MaxRecords
            THEN [inspected EXCEPT !.status = "refused"]
            ELSE [inspected EXCEPT !.at = Readings!Following(inspected.at),
                                   !.count = @ + Readings!Counted(inspected.at)]
  BY DEF Readings!InspectBlock
<1>2. /\ Readings!Size' = Readings!Size
      /\ \A at : /\ Readings!Accepted(at)' <=> Readings!Accepted(at)
                 /\ Readings!Counted(at)' = Readings!Counted(at)
      /\ \A C, at, count : Walked(C, at, count)' <=> Walked(C, at, count)
  BY <1>1, CaptureStays
<1>3. IsCapture(capture) /\ MaxRecords \in Nat
  BY CapturesAreOfWords DEF CapturesInv, CapturesAssumption
<1>4. PICK n \in Nat : n = Readings!Size
  BY CapturesAreOfWords DEF CapturesInv
<1>5. PICK at \in 0..n, count \in 0..MaxRecords :
        /\ at = inspected.at /\ count = inspected.count
        /\ inspected = [status |-> "reading", at |-> at, count |-> count]
  <2>1. /\ inspected.at \in 0..n /\ inspected.count \in 0..MaxRecords
        /\ inspected = [status |-> "reading", at |-> inspected.at, count |-> inspected.count]
    BY <1>1, <1>4 DEF CapturesInv
  <2> QED BY <2>1
<1>6. /\ replayed.at = 0 /\ replayed.packets = << >> /\ replayed.status = "reading"
      /\ ReplayTyped /\ Len(replayed.interfaces) <= MaxInterfaces
      /\ Len(replayed.packets) <= MaxRecords /\ capture \in CaptureFiles
  BY <1>1 DEF CapturesInv
<1>7. ReplayTyped'
  BY <1>1, <1>2, <1>6 DEF ReplayTyped
<1>8. PICK C : Walked(C, at, count)
  BY <1>5 DEF CapturesInv, Follows
<1>9. ASSUME NEW D, NEW to, NEW total, Walked(D, to, total),
             inspected'.at = to, inspected'.count = total
      PROVE  Follows'
  <2>1. Walked(D, to, total)'
    BY <1>2, <1>9
  <2>2. D[0] = 0 /\ Len(<< >>) = 0
    BY <1>9 DEF Walked
  <2>3. D[replayed'.at] = Len(replayed'.packets)
    BY <1>1, <1>6, <2>2
  <2> QED BY <1>9, <2>1, <2>3 DEF Follows
<1>10. CASE at = n
  <2>1. inspected' = [status |-> "accepted", at |-> at, count |-> count]
    BY <1>1, <1>4, <1>5, <1>10
  <2>2. Follows'
    BY <1>8, <1>9, <2>1
  <2> QED BY <1>1, <1>2, <1>4, <1>6, <1>7, <1>10, <2>1, <2>2 DEF CapturesInv
<1>11. CASE at # n /\ (~Readings!Accepted(at) \/ count + Readings!Counted(at) > MaxRecords)
  <2>1. inspected' = [status |-> "refused", at |-> at, count |-> count]
    BY <1>1, <1>4, <1>5, <1>11
  <2>2. Follows'
    BY <1>8, <1>9, <2>1
  <2> QED BY <1>1, <1>2, <1>4, <1>6, <1>7, <1>11, <2>1, <2>2 DEF CapturesInv
<1>12. CASE at # n /\ Readings!Accepted(at) /\ ~(count + Readings!Counted(at) > MaxRecords)
  <2>1. PICK to \in (at + 1)..n, c \in {0, 1} :
            to = Readings!Following(at) /\ c = Readings!Counted(at)
    <3>1. Readings!Following(at) \in (at + 1)..n /\ Readings!Counted(at) \in {0, 1}
      BY <1>3, <1>4, <1>12, BlocksFollow
    <3> QED BY <3>1
  <2>2. inspected' = [status |-> "reading", at |-> to, count |-> count + c]
    BY <1>1, <1>4, <1>5, <1>12, <2>1
  <2>3. to \in 0..n /\ to # at /\ at < to /\ count + c \in 0..MaxRecords /\ to # 0
    BY <1>3, <1>12, <2>1
  <2>4. PICK D : D = [C EXCEPT ![to] = count + c]
    OBVIOUS
  <2>5. /\ C \in [0..n -> Int] /\ C[at] = count
        /\ \A i \in 0..n : C[i] >= 0 => i <= at /\ C[i] <= count
        /\ \A i \in 0..n : C[i] >= 0 /\ i # at =>
            /\ Readings!Accepted(i) /\ i # n
            /\ Readings!Following(i) \in 0..n
            /\ C[Readings!Following(i)] = C[i] + Readings!Counted(i)
    BY <1>4, <1>8 DEF Walked
  <2>6. D \in [0..n -> Int] /\ D[to] = count + c /\ \A i \in 0..n : i # to => D[i] = C[i]
    BY <2>3, <2>4, <2>5
  <2>7. ASSUME NEW i \in 0..n, D[i] >= 0
        PROVE  /\ i <= to /\ D[i] <= count + c
               /\ i # to => /\ Readings!Accepted(i) /\ i # n
                            /\ Readings!Following(i) \in 0..n
                            /\ D[Readings!Following(i)] = D[i] + Readings!Counted(i)
    <3>1. CASE i = to
      BY <2>3, <2>6, <3>1
    <3>2. CASE i # to
      <4>1. D[i] = C[i] /\ i <= at /\ C[i] <= count
        BY <2>5, <2>6, <2>7, <3>2
      <4>2. i <= to /\ D[i] <= count + c
        BY <2>1, <2>3, <2>6, <4>1
      <4>3. CASE i = at
        BY <1>12, <2>1, <2>3, <2>5, <2>6, <4>1, <4>2, <4>3
      <4>4. CASE i # at
        <5>1. /\ Readings!Accepted(i) /\ i # n
              /\ C[Readings!Following(i)] = C[i] + Readings!Counted(i)
          BY <2>5, <2>7, <4>1, <4>4
        <5>2. PICK j \in 0..n, d \in {0, 1} : j = Readings!Following(i) /\ d = Readings!Counted(i)
          <6>1. Readings!Following(i) \in 0..n /\ Readings!Counted(i) \in {0, 1}
            BY <1>3, <1>4, <2>5, <2>7, <4>1, <4>4, <5>1, BlocksFollow
          <6> QED BY <6>1
        <5>3. C[j] = C[i] + d /\ C[j] >= 0
          BY <2>5, <2>7, <4>1, <5>1, <5>2
        <5>4. j <= at
          BY <2>5, <5>3
        <5>5. D[j] = C[j]
          BY <2>3, <2>6, <5>4
        <5> QED BY <4>1, <4>2, <5>1, <5>2, <5>3, <5>5
      <4> QED BY <4>3, <4>4
    <3> QED BY <3>1, <3>2
  <2>8. D[0] = 0
    BY <1>8, <2>3, <2>6 DEF Walked
  <2>9. Walked(D, to, count + c)
    BY <1>4, <2>6, <2>7, <2>8 DEF Walked
  <2>10. Follows'
    BY <1>9, <2>2, <2>9
  <2> QED BY <1>1, <1>2, <1>4, <1>6, <1>7, <2>2, <2>3, <2>10 DEF CapturesInv
<1> QED BY <1>10, <1>11, <1>12

\* A sequence of some things is one of more.
LEMMA WiderSeq == ASSUME NEW S, NEW T, S \subseteq T, NEW s \in Seq(S) PROVE s \in Seq(T)
<1>1. Len(s) \in Nat /\ s \in [1..Len(s) -> S]
  BY LenProperties
<1>2. s \in [1..Len(s) -> T]
  BY <1>1
<1> QED BY <1>1, <1>2, SeqDef

\* The reader goes on, once the ingestor has accepted or refused the capture.
LEMMA ReadKeeps ==
    ASSUME CapturesAssumption, CapturesInv, inspected.status # "reading", Readings!ReadBlock
    PROVE  CapturesInv'
<1>1. capture' = capture /\ inspected' = inspected /\ replayed.status = "reading"
  BY DEF Readings!ReadBlock
<1>2. /\ Readings!Size' = Readings!Size
      /\ \A at : /\ Readings!Accepted(at)' <=> Readings!Accepted(at)
                 /\ Readings!Counted(at)' = Readings!Counted(at)
      /\ \A C, at, count : Walked(C, at, count)' <=> Walked(C, at, count)
  BY <1>1, CaptureStays
<1>3. IsCapture(capture) /\ MaxRecords \in Nat
  BY CapturesAreOfWords DEF CapturesInv, CapturesAssumption
<1>4. PICK n \in Nat : n = Readings!Size
  BY CapturesAreOfWords DEF CapturesInv
<1>5. PICK S : /\ Timed(S)
               /\ replayed \in [status : {"reading", "done", "failed"}, at : 0..n,
                                interfaces : Seq(Interfaces), packets : Seq(S)]
  BY <1>4 DEF CapturesInv, ReplayTyped
<1>6. PICK at \in 0..n, interfaces \in Seq(Interfaces), packets \in Seq(S) :
        /\ at = replayed.at /\ interfaces = replayed.interfaces /\ packets = replayed.packets
        /\ replayed = [status |-> "reading", at |-> at, interfaces |-> interfaces,
                       packets |-> packets]
  <2>1. /\ replayed.at \in 0..n /\ replayed.interfaces \in Seq(Interfaces)
        /\ replayed.packets \in Seq(S)
        /\ replayed = [status |-> "reading", at |-> replayed.at,
                       interfaces |-> replayed.interfaces, packets |-> replayed.packets]
    BY <1>1, <1>5
  <2> QED BY <2>1
<1>7. /\ capture \in CaptureFiles /\ Len(interfaces) <= MaxInterfaces /\ Len(packets) <= MaxRecords
      /\ inspected \in [status : {"reading", "accepted", "refused"}, at : 0..n,
                        count : 0..MaxRecords]
      /\ inspected.status = "accepted" => inspected.at = n
      /\ inspected.status = "refused" =>
            /\ inspected.at # n
            /\ ~Readings!Accepted(inspected.at)
                \/ inspected.count + Readings!Counted(inspected.at) > MaxRecords
  BY <1>4, <1>6 DEF CapturesInv
<1>8. PICK C : Walked(C, inspected.at, inspected.count) /\ C[at] = Len(packets)
  BY <1>6 DEF CapturesInv, Follows
\* What is left of the invariant.
<1>9. ASSUME NEW status \in {"reading", "done", "failed"}, NEW to \in 0..n,
             NEW read \in Seq(Interfaces), NEW T, Timed(T), NEW found \in Seq(T),
             replayed' = [status |-> status, at |-> to, interfaces |-> read, packets |-> found],
             Len(read) <= MaxInterfaces, Len(found) <= MaxRecords, C[to] = Len(found),
             status = "done" => to = n
      PROVE  CapturesInv'
  <2>1. replayed' \in [status : {"reading", "done", "failed"}, at : 0..Readings!Size',
                       interfaces : Seq(Interfaces), packets : Seq(T)]
    BY <1>2, <1>4, <1>9
  <2>2. ReplayTyped'
    BY <1>9, <2>1 DEF ReplayTyped, Timed
  <2>3. Follows'
    BY <1>1, <1>2, <1>8, <1>9 DEF Follows
  <2> QED BY <1>1, <1>2, <1>4, <1>7, <1>9, <2>2, <2>3 DEF CapturesInv
<1>10. PICK kind : kind = Readings!BlockKind(at)
  OBVIOUS
<1>11. CASE at = n
  <2>1. replayed' = [replayed EXCEPT !.status = "done"]
    BY <1>4, <1>6, <1>11 DEF Readings!ReadBlock
  <2>2. replayed' = [status |-> "done", at |-> at, interfaces |-> interfaces, packets |-> packets]
    BY <1>6, <2>1
  <2> QED BY <1>5, <1>7, <1>8, <1>9, <1>11, <2>2
<1>12. CASE at # n /\ (kind = "refused" \/ (kind = "packet" /\ Len(packets) = MaxRecords))
  <2>1. replayed' = [replayed EXCEPT !.status = "failed"]
    BY <1>4, <1>6, <1>10, <1>12 DEF Readings!ReadBlock
  <2>2. replayed' = [status |-> "failed", at |-> at, interfaces |-> interfaces, packets |-> packets]
    BY <1>6, <2>1
  <2> QED BY <1>5, <1>7, <1>8, <1>9, <2>2
<1>13. CASE at # n /\ kind # "refused" /\ ~(kind = "packet" /\ Len(packets) = MaxRecords)
  <2>1. /\ kind \in {"packet", "interface", "other"} /\ Readings!Accepted(at)
        /\ Readings!After(at) = Readings!Following(at)
        /\ Readings!Counted(at) = IF kind = "packet" THEN 1 ELSE 0
    BY <1>3, <1>4, <1>6, <1>10, <1>13, ReaderFollows
  <2>2. at # inspected.at
    <3>1. Len(packets) \in Nat /\ (kind = "packet" => Len(packets) + 1 <= MaxRecords)
      BY <1>3, <1>7, <1>13
    <3>2. ASSUME at = inspected.at PROVE FALSE
      <4>1. inspected.status = "refused" /\ inspected.count = Len(packets)
        BY <1>7, <1>8, <1>13, <3>2 DEF Walked
      <4>2. Len(packets) + Readings!Counted(at) > MaxRecords
        BY <1>7, <2>1, <3>2, <4>1
      <4> QED BY <1>3, <1>7, <2>1, <3>1, <4>2
    <3> QED BY <3>2
  <2>3. PICK to \in 0..n : /\ to = Readings!After(at)
                           /\ C[to] = IF kind = "packet" THEN Len(packets) + 1 ELSE Len(packets)
    <3>1. C[at] >= 0
      BY <1>8
    <3>2. /\ Readings!Following(at) \in 0..n
          /\ C[Readings!Following(at)] = C[at] + Readings!Counted(at)
      BY <1>4, <1>8, <2>2, <3>1 DEF Walked
    <3>3. C[at] + Readings!Counted(at) = IF kind = "packet" THEN Len(packets) + 1 ELSE Len(packets)
      BY <1>8, <2>1
    <3> QED BY <2>1, <3>2, <3>3
  <2>4. CASE kind = "packet"
    <3>1. PICK item, status :
            /\ item.captured = Readings!PacketOf(at) /\ status \in {"reading", "failed"}
            /\ replayed' = [replayed EXCEPT !.at = Readings!After(at), !.status = status,
                                           !.packets = Append(@, item)]
      <4>1. PICK p : p = Readings!PacketOf(at)
        OBVIOUS
      <4>2. PICK d : d = Readings!ParsePacket(FrameOf(p.frame), p.captured, p.link_type)
        OBVIOUS
      <4>3. replayed' = [replayed EXCEPT !.at = Readings!After(at),
                            !.status = IF d = Readings!Malformed THEN "failed" ELSE @,
                            !.packets = Append(@, [captured |-> p, packet |-> d])]
        BY <1>4, <1>6, <1>10, <1>13, <2>4, <4>1, <4>2 DEF Readings!ReadBlock
      <4>4. PICK item : item = [captured |-> p, packet |-> d]
        OBVIOUS
      <4>5. item.captured = Readings!PacketOf(at)
        BY <4>1, <4>4
      <4>6. CASE d = Readings!Malformed
        BY <4>3, <4>4, <4>5, <4>6
      <4>7. CASE d # Readings!Malformed
        <5>1. replayed' = [replayed EXCEPT !.at = Readings!After(at), !.status = "reading",
                                           !.packets = Append(@, item)]
          BY <1>1, <1>6, <4>3, <4>4, <4>7
        <5> QED BY <4>5, <5>1
      <4> QED BY <4>6, <4>7
    <3>2. replayed' = [status |-> status, at |-> to, interfaces |-> interfaces,
                       packets |-> Append(packets, item)]
      BY <1>6, <2>3, <3>1
    <3>3. PICK T : T = S \cup {item}
      OBVIOUS
    <3>4. Timed(T)
      <4>1. item.captured.timestamp.microseconds \in Microseconds
        BY <1>3, <1>4, <1>6, <1>10, <1>13, <2>4, <3>1, PacketsHaveTimes
      <4> QED BY <1>5, <3>3, <4>1 DEF Timed
    <3>5. packets \in Seq(T) /\ item \in T
      BY <3>3, WiderSeq
    <3>6. Append(packets, item) \in Seq(T) /\ Len(Append(packets, item)) = Len(packets) + 1
      BY <3>5
    <3>7. Len(Append(packets, item)) <= MaxRecords /\ C[to] = Len(Append(packets, item))
      BY <1>3, <1>7, <1>13, <2>3, <2>4, <3>6
    <3>8. status \in {"reading", "done", "failed"} /\ status # "done"
      BY <3>1
    <3> QED BY <1>7, <1>9, <3>2, <3>4, <3>6, <3>7, <3>8
  <2>5. CASE kind = "interface"
    <3>1. replayed' = [replayed EXCEPT !.at = Readings!After(at),
                            !.interfaces = Append(@, Readings!Interface(at))]
      BY <1>4, <1>6, <1>10, <1>13, <2>5 DEF Readings!ReadBlock
    <3>2. PICK i : i = Readings!Interface(at) /\ i \in Interfaces /\ Len(interfaces) < MaxInterfaces
      BY <1>3, <1>4, <1>6, <1>10, <1>13, <2>5, InterfacesAreTyped
    <3>3. replayed' = [status |-> "reading", at |-> to, interfaces |-> Append(interfaces, i),
                       packets |-> packets]
      <4>1. PICK more : more = Append(interfaces, i)
        OBVIOUS
      <4>2. PICK moved : moved = [replayed EXCEPT !.at = Readings!After(at)]
        OBVIOUS
      <4>3. moved = [status |-> "reading", at |-> to, interfaces |-> interfaces,
                     packets |-> packets]
        BY <1>6, <2>3, <4>2
      <4>4. more = Append(replayed.interfaces, Readings!Interface(at))
        BY <1>6, <3>2, <4>1
      <4>5. replayed' = [moved EXCEPT !.interfaces = more]
        BY <3>1, <4>2, <4>4, Zenon
      <4>6. [moved EXCEPT !.interfaces = more]
                = [status |-> "reading", at |-> to, interfaces |-> more, packets |-> packets]
        BY <4>3
      <4> QED BY <4>1, <4>5, <4>6, Zenon
    <3>4. Append(interfaces, i) \in Seq(Interfaces) /\ Len(Append(interfaces, i)) <= MaxInterfaces
      <4>1. MaxInterfaces \in Nat
        BY DEF CapturesAssumption
      <4> QED BY <3>2, <4>1
    <3>5. C[to] = Len(packets)
      BY <2>3, <2>5
    <3> QED BY <1>5, <1>7, <1>9, <3>3, <3>4, <3>5
  <2>6. CASE kind = "other"
    <3>1. replayed' = [replayed EXCEPT !.at = Readings!After(at)]
      BY <1>4, <1>6, <1>10, <1>13, <2>6 DEF Readings!ReadBlock
    <3>2. replayed' = [status |-> "reading", at |-> to, interfaces |-> interfaces,
                       packets |-> packets]
      BY <1>6, <2>3, <3>1
    <3>3. C[to] = Len(packets)
      BY <2>3, <2>6
    <3> QED BY <1>5, <1>7, <1>9, <3>2, <3>3
  <2> QED BY <2>1, <2>4, <2>5, <2>6
<1> QED BY <1>11, <1>12, <1>13

LEMMA CapturesStep ==
    CapturesAssumption /\ CapturesInv /\ [Readings!Next]_(Readings!vars) => CapturesInv'
<1>1. CapturesInv /\ UNCHANGED Readings!vars => CapturesInv'
  <2> SUFFICES ASSUME CapturesInv, UNCHANGED Readings!vars PROVE CapturesInv'
    OBVIOUS
  <2>1. capture' = capture /\ inspected' = inspected /\ replayed' = replayed
    BY DEF Readings!vars
  <2>2. /\ Readings!Size' = Readings!Size
        /\ \A at : /\ Readings!Accepted(at)' <=> Readings!Accepted(at)
                   /\ Readings!Counted(at)' = Readings!Counted(at)
        /\ \A C, at, count : Walked(C, at, count)' <=> Walked(C, at, count)
    BY <2>1, CaptureStays
  <2>3. ReplayTyped'
    BY <2>1, <2>2 DEF CapturesInv, ReplayTyped
  <2>4. Follows'
    BY <2>1, <2>2 DEF CapturesInv, Follows
  <2> QED BY <2>1, <2>2, <2>3, <2>4 DEF CapturesInv
<1> QED BY <1>1, InspectKeeps, ReadKeeps DEF Readings!Next

LEMMA CapturesHold == StorageSpec => [](part = "captures" => CapturesInv)
<1>1. StorageInit => (part = "captures" => CapturesInv)
  BY StorageAssumption, CapturesInit DEF StorageInit
<1>2. (part = "captures" => CapturesInv) /\ [StorageNext]_StorageVars
        => (part = "captures" => CapturesInv)'
  <2> SUFFICES ASSUME part = "captures" => CapturesInv, [StorageNext]_StorageVars,
                      part' = "captures"
               PROVE  CapturesInv'
    OBVIOUS
  <2>1. part = "captures" /\ [Readings!Next]_(Readings!vars)
    BY DEF StorageNext, StoreNext, FilesNext, CapturesNext, SegmentNext, DataFilesNext, GatesNext,
           SchemaNext, RowSessionsNext, StorageVars, StoreVars, FileVars, CaptureVars, SegmentVars,
           DataFileVars, GateVars, SchemaVars, SessionVars, Readings!vars
  <2> QED BY <2>1, StorageAssumption, CapturesStep
<1> QED BY <1>1, <1>2, PTL DEF StorageSpec

\* What the decoders of a frame give for fewer bytes: nothing, or the same.
LEMMA TransportIsWhole ==
    ASSUME NEW frame, NEW length, Readings!Transport(frame, length).result = "packet"
    PROVE  Readings!Transport(frame, length).bytes = frame.total
BY DEF Readings!Transport, Readings!Malformed, Readings!Skipped

LEMMA Ipv4IsWhole ==
    ASSUME NEW frame, frame.total \in Nat, frame.ip_header \in Nat,
           NEW whole \in Nat, NEW length \in Int, length <= whole
    PROVE  LET cut == Readings!ParseIpv4(frame, length)
           IN  /\ cut \in {Readings!Malformed, Readings!ParseIpv4(frame, whole)}
               /\ cut.result = "packet" => cut.bytes = frame.total /\ frame.total <= length
<1>1. PICK t : t = Readings!Transport(frame, frame.total - frame.ip_header)
  OBVIOUS
<1>2. t.result = "packet" => t.bytes = frame.total
  BY <1>1, TransportIsWhole
<1>3. Readings!Malformed.result # "packet" /\ Readings!Skipped.result # "packet"
  BY DEF Readings!Malformed, Readings!Skipped
<1>4. PICK total, header \in Nat : total = frame.total /\ header = frame.ip_header
  OBVIOUS
<1>5. ASSUME NEW n \in Int
      PROVE  Readings!ParseIpv4(frame, n) =
                IF n < 20 \/ frame.version # 4 \/ header < 20 \/ n < header
                    \/ total < header \/ total > n
                THEN Readings!Malformed ELSE IF frame.fragment THEN Readings!Skipped ELSE t
  BY <1>1, <1>4 DEF Readings!ParseIpv4
<1>6. CASE length < 20 \/ frame.version # 4 \/ header < 20 \/ length < header
            \/ total < header \/ total > length
  <2>1. Readings!ParseIpv4(frame, length) = Readings!Malformed
    BY <1>5, <1>6
  <2> QED BY <1>3, <2>1
<1>7. CASE ~(length < 20 \/ frame.version # 4 \/ header < 20 \/ length < header
            \/ total < header \/ total > length)
  <2>1. ~(whole < 20 \/ frame.version # 4 \/ header < 20 \/ whole < header
            \/ total < header \/ total > whole)
    BY <1>7
  <2>2. Readings!ParseIpv4(frame, length) = IF frame.fragment THEN Readings!Skipped ELSE t
    BY <1>5, <1>7
  <2>3. Readings!ParseIpv4(frame, whole) = IF frame.fragment THEN Readings!Skipped ELSE t
    BY <1>5, <2>1
  <2>4. frame.total <= length
    BY <1>4, <1>7
  <2> QED BY <1>2, <1>3, <2>2, <2>3, <2>4
<1> QED BY <1>6, <1>7

LEMMA Ipv6IsWhole ==
    ASSUME NEW frame, frame.total \in Nat, NEW whole \in Nat, NEW length \in Int, length <= whole
    PROVE  LET cut == Readings!ParseIpv6(frame, length)
           IN  /\ cut \in {Readings!Malformed, Readings!ParseIpv6(frame, whole)}
               /\ cut.result = "packet" => cut.bytes = frame.total /\ frame.total <= length
<1>1. PICK offset : offset = Readings!TransportOffset(frame.extensions, frame.total)
  OBVIOUS
<1>2. PICK t : t = CASE offset.result = "offset" ->
                            Readings!Transport(frame, frame.total - offset.offset)
                      [] offset.result = "skip" -> Readings!Skipped
                      [] OTHER -> Readings!Malformed
  OBVIOUS
<1>3. Readings!Malformed.result # "packet" /\ Readings!Skipped.result # "packet"
  BY DEF Readings!Malformed, Readings!Skipped
<1>4. t.result = "packet" => t.bytes = frame.total
  <2>1. CASE offset.result = "offset"
    BY <1>2, <2>1, TransportIsWhole
  <2>2. CASE offset.result # "offset"
    BY <1>2, <1>3, <2>2
  <2> QED BY <2>1, <2>2
<1>5. PICK total \in Nat : total = frame.total
  OBVIOUS
<1>6. ASSUME NEW n \in Int
      PROVE  Readings!ParseIpv6(frame, n) =
                IF n < 40 \/ frame.version # 6 \/ total = 40 \/ total > n
                THEN Readings!Malformed ELSE t
  BY <1>1, <1>2, <1>5 DEF Readings!ParseIpv6
<1>7. CASE length < 40 \/ frame.version # 6 \/ total = 40 \/ total > length
  <2>1. Readings!ParseIpv6(frame, length) = Readings!Malformed
    BY <1>6, <1>7
  <2> QED BY <1>3, <2>1
<1>8. CASE ~(length < 40 \/ frame.version # 6 \/ total = 40 \/ total > length)
  <2>1. ~(whole < 40 \/ frame.version # 6 \/ total = 40 \/ total > whole)
    BY <1>8
  <2>2. Readings!ParseIpv6(frame, length) = t /\ Readings!ParseIpv6(frame, whole) = t
    BY <1>6, <1>8, <2>1
  <2>3. frame.total <= length
    BY <1>5, <1>8
  <2> QED BY <1>4, <2>2, <2>3
<1> QED BY <1>7, <1>8

LEMMA NetworkIsWhole ==
    ASSUME NEW frame, frame.total \in Nat, frame.ip_header \in Nat, NEW version,
           NEW whole \in Nat, NEW length \in Int, length <= whole
    PROVE  LET cut == Readings!ParseNetwork(frame, version, length)
           IN  /\ cut \in {Readings!Malformed, Readings!ParseNetwork(frame, version, whole)}
               /\ cut.result = "packet" => cut.bytes = frame.total /\ frame.total <= length
<1>1. CASE version = 4
  BY <1>1, Ipv4IsWhole DEF Readings!ParseNetwork
<1>2. CASE version # 4
  BY <1>2, Ipv6IsWhole DEF Readings!ParseNetwork
<1> QED BY <1>1, <1>2

\* A frame that was cut is not decoded, or as the whole one.
LEMMA CutsFail ==
    ASSUME NEW frame, frame.vlans \in Nat, frame.total \in Nat, frame.ip_header \in Nat, NEW link,
           NEW captured \in 0..(Readings!LinkBytes(frame) + frame.total)
    PROVE  LET cut == Readings!ParsePacket(frame, captured, link)
           IN  /\ cut \in {Readings!Malformed, Readings!ParsePacket(
                            frame, Readings!LinkBytes(frame) + frame.total, link)}
               /\ cut.result = "packet" => cut.bytes <= captured
<1>1. PICK vlans, total \in Nat : vlans = frame.vlans /\ total = frame.total
  OBVIOUS
<1>2. PICK header \in Nat : header = 14 + 4 * vlans
  OBVIOUS
<1>3. PICK whole \in Nat : whole = header + total
  OBVIOUS
<1>4. /\ header = Readings!LinkBytes(frame) /\ whole = Readings!LinkBytes(frame) + frame.total
      /\ captured \in Nat /\ captured <= whole
  BY <1>1, <1>2, <1>3 DEF Readings!LinkBytes
<1>long. whole >= 14 /\ (vlans > 0 => whole >= 18) /\ (vlans > 1 => whole >= 22)
  BY <1>2, <1>3
<1>5. PICK cut : cut = Readings!ParsePacket(frame, captured, link)
  OBVIOUS
<1>6. PICK packet : packet = Readings!ParsePacket(frame, whole, link)
  OBVIOUS
<1>7. Readings!Malformed.result # "packet" /\ Readings!Skipped.result # "packet"
  BY DEF Readings!Malformed, Readings!Skipped
<1>8. CASE link = Readings!Ethernet
  <2>1. ASSUME NEW n \in Nat
        PROVE  Readings!ParsePacket(frame, n, link) =
                 IF n < 14 \/ (vlans > 0 /\ n < 18) \/ (vlans > 1 /\ n < 22) THEN Readings!Malformed
                 ELSE IF vlans > 2 \/ frame.ethertype = "other" THEN Readings!Skipped
                 ELSE Readings!ParseNetwork(
                        frame, IF frame.ethertype = "ipv4" THEN 4 ELSE 6, n - header)
    BY <1>1, <1>4, <1>8 DEF Readings!ParsePacket, Readings!Raw, Readings!Ethernet, Readings!Ipv4Link,
                            Readings!Ipv6Link
  <2>2. PICK version : version = IF frame.ethertype = "ipv4" THEN 4 ELSE 6
    OBVIOUS
  <2>3. PICK n \in Int : n = captured - header /\ n <= total /\ whole - header = total
    <3>1. captured - header \in Int /\ captured - header <= total /\ whole - header = total
      BY <1>3, <1>4
    <3> QED BY <3>1
  <2>4. PICK part_cut : part_cut = Readings!ParseNetwork(frame, version, n)
    OBVIOUS
  <2>5. /\ part_cut \in {Readings!Malformed, Readings!ParseNetwork(frame, version, total)}
        /\ part_cut.result = "packet" => part_cut.bytes = total /\ total <= n
    BY <1>1, <2>3, <2>4, NetworkIsWhole
  <2>6. ~(whole < 14 \/ (vlans > 0 /\ whole < 18) \/ (vlans > 1 /\ whole < 22))
    BY <1>long
  <2>7. packet = IF vlans > 2 \/ frame.ethertype = "other" THEN Readings!Skipped
                 ELSE Readings!ParseNetwork(frame, version, total)
    BY <1>6, <2>1, <2>2, <2>3, <2>6
  <2>8. CASE captured < 14 \/ (vlans > 0 /\ captured < 18) \/ (vlans > 1 /\ captured < 22)
    <3>1. cut = Readings!Malformed
      BY <1>4, <1>5, <2>1, <2>8
    <3> QED BY <1>4, <1>5, <1>6, <1>7, <3>1
  <2>9. CASE ~(captured < 14 \/ (vlans > 0 /\ captured < 18) \/ (vlans > 1 /\ captured < 22))
    <3>1. cut = IF vlans > 2 \/ frame.ethertype = "other" THEN Readings!Skipped ELSE part_cut
      BY <1>4, <1>5, <2>1, <2>2, <2>3, <2>4, <2>9
    <3>2. total <= n => total <= captured
      BY <1>1, <1>2, <1>4, <2>3
    <3> QED BY <1>4, <1>5, <1>6, <1>7, <2>5, <2>7, <3>1, <3>2
  <2> QED BY <2>8, <2>9
<1>9. CASE link = Readings!Raw
  <2>1. ASSUME NEW n \in Nat
        PROVE  Readings!ParsePacket(frame, n, link) =
                 IF n < 1 THEN Readings!Malformed
                 ELSE IF frame.version \notin {4, 6} THEN Readings!Skipped
                 ELSE Readings!ParseNetwork(frame, frame.version, n)
    BY <1>9 DEF Readings!ParsePacket, Readings!Raw, Readings!Ethernet, Readings!Ipv4Link,
                Readings!Ipv6Link
  <2>2. PICK part_cut : part_cut = Readings!ParseNetwork(frame, frame.version, captured)
    OBVIOUS
  <2>3. /\ part_cut \in {Readings!Malformed, Readings!ParseNetwork(frame, frame.version, whole)}
        /\ part_cut.result = "packet" => part_cut.bytes = total /\ total <= captured
    BY <1>1, <1>4, <2>2, NetworkIsWhole
  <2>4. ~(whole < 1)
    BY <1>long
  <2>5. packet = IF frame.version \notin {4, 6} THEN Readings!Skipped
                 ELSE Readings!ParseNetwork(frame, frame.version, whole)
    BY <1>6, <2>1, <2>4
  <2>6. cut = IF captured < 1 THEN Readings!Malformed
              ELSE IF frame.version \notin {4, 6} THEN Readings!Skipped ELSE part_cut
    BY <1>4, <1>5, <2>1, <2>2
  <2> QED BY <1>4, <1>5, <1>6, <1>7, <2>3, <2>5, <2>6
<1>10. CASE link = Readings!Ipv4Link
  <2>1. \A n : Readings!ParsePacket(frame, n, link) = Readings!ParseIpv4(frame, n)
    BY <1>10 DEF Readings!ParsePacket, Readings!Raw, Readings!Ethernet, Readings!Ipv4Link,
                 Readings!Ipv6Link
  <2>2. /\ cut \in {Readings!Malformed, packet}
        /\ cut.result = "packet" => cut.bytes = total /\ total <= captured
    BY <1>1, <1>4, <1>5, <1>6, <2>1, Ipv4IsWhole
  <2> QED BY <1>4, <1>5, <1>6, <2>2
<1>11. CASE link = Readings!Ipv6Link
  <2>1. \A n : Readings!ParsePacket(frame, n, link) = Readings!ParseIpv6(frame, n)
    BY <1>11 DEF Readings!ParsePacket, Readings!Raw, Readings!Ethernet, Readings!Ipv4Link,
                 Readings!Ipv6Link
  <2>2. /\ cut \in {Readings!Malformed, packet}
        /\ cut.result = "packet" => cut.bytes = total /\ total <= captured
    BY <1>1, <1>4, <1>5, <1>6, <2>1, Ipv6IsWhole
  <2> QED BY <1>4, <1>5, <1>6, <2>2
<1>12. CASE link \notin {Readings!Ethernet, Readings!Raw, Readings!Ipv4Link, Readings!Ipv6Link}
  <2>1. cut = Readings!Skipped /\ packet = Readings!Skipped
    BY <1>5, <1>6, <1>12 DEF Readings!ParsePacket
  <2> QED BY <1>4, <1>5, <1>6, <1>7, <2>1
<1> QED BY <1>8, <1>9, <1>10, <1>11, <1>12

\* The frame of an answer goes the other way.
Answers(frame, answer) ==
    /\ \A field \in Readings!FrameFields : field # "ends" => answer[field] = frame[field]
    /\ answer.ends = << frame.ends[2], frame.ends[1] >>

SameKey(packet, answer) ==
    packet.result = "packet" => Readings!CanonicalFlowKey(packet) = Readings!CanonicalFlowKey(answer)

LEMMA AnswerFields ==
    ASSUME NEW frame, NEW answer, Answers(frame, answer)
    PROVE  /\ answer.vlans = frame.vlans /\ answer.ethertype = frame.ethertype
           /\ answer.version = frame.version /\ answer.ip_header = frame.ip_header
           /\ answer.total = frame.total /\ answer.fragment = frame.fragment
           /\ answer.protocol = frame.protocol /\ answer.header = frame.header
           /\ answer.icmp = frame.icmp /\ answer.extensions = frame.extensions
           /\ answer.ends = << frame.ends[2], frame.ends[1] >>
BY DEF Answers, Readings!FrameFields

LEMMA TransportAnswered ==
    ASSUME NEW frame, NEW answer, Answers(frame, answer), NEW length
    PROVE  SameKey(Readings!Transport(frame, length), Readings!Transport(answer, length))
<1> DEFINE Packet(f) ==
        [result |-> "packet", bytes |-> f.total, version |-> f.version,
         protocol |-> f.protocol, ends |-> f.ends,
         discriminator |-> IF f.protocol = "icmp" THEN f.icmp ELSE << "ports" >>]
<1>1. Readings!CanonicalFlowKey(Packet(frame)) = Readings!CanonicalFlowKey(Packet(answer))
  <2>1. answer.ends[1] = frame.ends[2] /\ answer.ends[2] = frame.ends[1]
    BY AnswerFields
  <2>2. {frame.ends[1], frame.ends[2]} = {answer.ends[1], answer.ends[2]}
    BY <2>1
  <2> QED BY <2>2, AnswerFields DEF Readings!CanonicalFlowKey
<1>2. \/ Readings!Transport(frame, length) = Packet(frame)
         /\ Readings!Transport(answer, length) = Packet(answer)
      \/ Readings!Transport(frame, length) = Readings!Malformed
      \/ Readings!Transport(frame, length) = Readings!Skipped
  BY AnswerFields DEF Readings!Transport
<1>3. Readings!Malformed.result # "packet" /\ Readings!Skipped.result # "packet"
  BY DEF Readings!Malformed, Readings!Skipped
<1> HIDE DEF Packet
<1> QED BY <1>1, <1>2, <1>3 DEF SameKey

LEMMA NetworkAnswered ==
    ASSUME NEW frame, NEW answer, Answers(frame, answer), NEW length, NEW version
    PROVE  /\ SameKey(Readings!ParseIpv4(frame, length), Readings!ParseIpv4(answer, length))
           /\ SameKey(Readings!ParseIpv6(frame, length), Readings!ParseIpv6(answer, length))
           /\ SameKey(Readings!ParseNetwork(frame, version, length),
                      Readings!ParseNetwork(answer, version, length))
<1>1. SameKey(Readings!Malformed, Readings!Malformed) /\ SameKey(Readings!Skipped, Readings!Skipped)
  BY DEF SameKey
<1>2. SameKey(Readings!ParseIpv4(frame, length), Readings!ParseIpv4(answer, length))
  <2>1. SameKey(Readings!Transport(frame, frame.total - frame.ip_header),
                Readings!Transport(answer, frame.total - frame.ip_header))
    BY TransportAnswered
  <2> QED BY <1>1, <2>1, AnswerFields DEF Readings!ParseIpv4
<1>3. SameKey(Readings!ParseIpv6(frame, length), Readings!ParseIpv6(answer, length))
  <2>1. PICK offset : /\ offset = Readings!TransportOffset(frame.extensions, frame.total)
                      /\ offset = Readings!TransportOffset(answer.extensions, answer.total)
    BY AnswerFields
  <2>2. SameKey(Readings!Transport(frame, frame.total - offset.offset),
                Readings!Transport(answer, frame.total - offset.offset))
    BY TransportAnswered
  <2> QED BY <1>1, <2>1, <2>2, AnswerFields DEF Readings!ParseIpv6
<1>4. SameKey(Readings!ParseNetwork(frame, version, length),
              Readings!ParseNetwork(answer, version, length))
  BY <1>2, <1>3 DEF Readings!ParseNetwork
<1> QED BY <1>2, <1>3, <1>4

LEMMA PacketAnswered ==
    ASSUME NEW frame, NEW answer, Answers(frame, answer), NEW captured, NEW link
    PROVE  SameKey(Readings!ParsePacket(frame, captured, link),
                   Readings!ParsePacket(answer, captured, link))
<1>1. SameKey(Readings!Malformed, Readings!Malformed) /\ SameKey(Readings!Skipped, Readings!Skipped)
  BY DEF SameKey
<1>2. PICK version : version = IF frame.ethertype = "ipv4" THEN 4 ELSE 6
  OBVIOUS
<1>3. Readings!LinkBytes(answer) = Readings!LinkBytes(frame)
  BY AnswerFields DEF Readings!LinkBytes
<1>4. PICK length : length = captured - Readings!LinkBytes(frame)
  OBVIOUS
<1>5. /\ SameKey(Readings!ParseNetwork(frame, version, length),
                 Readings!ParseNetwork(answer, version, length))
      /\ SameKey(Readings!ParseNetwork(frame, frame.version, captured),
                 Readings!ParseNetwork(answer, frame.version, captured))
      /\ SameKey(Readings!ParseIpv4(frame, captured), Readings!ParseIpv4(answer, captured))
      /\ SameKey(Readings!ParseIpv6(frame, captured), Readings!ParseIpv6(answer, captured))
  BY NetworkAnswered
<1>6. ASSUME NEW f, f = frame \/ f = answer
      PROVE  Readings!ParsePacket(f, captured, link) =
                CASE link = 1 ->
                        IF captured < 14 \/ (frame.vlans > 0 /\ captured < 18)
                            \/ (frame.vlans > 1 /\ captured < 22)
                        THEN Readings!Malformed
                        ELSE IF frame.vlans > 2 \/ frame.ethertype = "other" THEN Readings!Skipped
                        ELSE Readings!ParseNetwork(f, version, length)
                  [] link = 101 ->
                        IF captured < 1 THEN Readings!Malformed
                        ELSE IF frame.version \notin {4, 6} THEN Readings!Skipped
                        ELSE Readings!ParseNetwork(f, frame.version, captured)
                  [] link = 228 -> Readings!ParseIpv4(f, captured)
                  [] link = 229 -> Readings!ParseIpv6(f, captured)
                  [] OTHER -> Readings!Skipped
  BY <1>2, <1>3, <1>4, <1>6, AnswerFields
     DEF Readings!ParsePacket, Readings!Raw, Readings!Ethernet, Readings!Ipv4Link, Readings!Ipv6Link
<1>7. PICK p, q : /\ p = Readings!ParsePacket(frame, captured, link)
                  /\ q = Readings!ParsePacket(answer, captured, link)
  OBVIOUS
<1>8. CASE link = 1
  BY <1>1, <1>5, <1>6, <1>8
<1>9. CASE link = 101
  BY <1>1, <1>5, <1>6, <1>9
<1>10. CASE link = 228
  BY <1>5, <1>6, <1>10
<1>11. CASE link = 229
  BY <1>5, <1>6, <1>11
<1>12. CASE link \notin {1, 101, 228, 229}
  BY <1>1, <1>6, <1>12
<1> QED BY <1>8, <1>9, <1>10, <1>11, <1>12

\* Decoding is sound for every frame.
LEMMA DecodingIsSound == ASSUME CapturesAssumption PROVE Readings!CutFramesFail
<1> SUFFICES ASSUME NEW word \in FrameWords, NEW link
             PROVE  LET frame == FrameOf(word)
                        whole == Readings!LinkBytes(frame) + frame.total
                        answer == [frame EXCEPT !.ends = << frame.ends[2], frame.ends[1] >>]
                        packet == Readings!ParsePacket(frame, whole, link)
                    IN  /\ \A captured \in 0..whole :
                            LET cut == Readings!ParsePacket(frame, captured, link)
                            IN  /\ cut \in {Readings!Malformed, packet}
                                /\ cut.result = "packet" => cut.bytes <= captured
                        /\ packet.result = "packet" =>
                            Readings!CanonicalFlowKey(packet)
                                = Readings!CanonicalFlowKey(Readings!ParsePacket(answer, whole, link))
  BY DEF Readings!CutFramesFail
<1>1. PICK frame : frame = FrameOf(word)
  OBVIOUS
<1>2. /\ Readings!FrameFields \subseteq DOMAIN frame
      /\ frame.vlans \in Nat /\ frame.total \in Nat /\ frame.ip_header \in Nat
  BY <1>1 DEF CapturesAssumption
<1>3. PICK answer : answer = [frame EXCEPT !.ends = << frame.ends[2], frame.ends[1] >>]
  OBVIOUS
<1>4. Answers(frame, answer)
  <2>1. "ends" \in DOMAIN frame
    BY <1>2 DEF Readings!FrameFields
  <2> QED BY <1>2, <1>3, <2>1 DEF Answers
<1>5. PICK whole : whole = Readings!LinkBytes(frame) + frame.total
  OBVIOUS
<1>6. PICK packet : packet = Readings!ParsePacket(frame, whole, link)
  OBVIOUS
<1>7. SameKey(packet, Readings!ParsePacket(answer, whole, link))
  BY <1>4, <1>6, PacketAnswered
<1>8. ASSUME NEW captured \in 0..whole
      PROVE  LET cut == Readings!ParsePacket(frame, captured, link)
             IN  /\ cut \in {Readings!Malformed, packet}
                 /\ cut.result = "packet" => cut.bytes <= captured
  BY <1>2, <1>5, <1>6, CutsFail
<1> QED BY <1>1, <1>3, <1>5, <1>6, <1>7, <1>8 DEF SameKey

LEMMA CapturesSound == CapturesAssumption /\ CapturesInv => Readings!TypeOK /\ Readings!CaptureIsSound
<1> SUFFICES ASSUME CapturesAssumption, CapturesInv PROVE Readings!TypeOK /\ Readings!CaptureIsSound
  OBVIOUS
<1>1. IsCapture(capture)
  BY CapturesAreOfWords DEF CapturesInv
<1>2. PICK n \in Nat : n = Readings!Size
  BY CapturesAreOfWords DEF CapturesInv
<1>3. PICK S : /\ Timed(S)
               /\ replayed \in [status : {"reading", "done", "failed"}, at : 0..n,
                                interfaces : Seq(Interfaces), packets : Seq(S)]
  BY <1>2 DEF CapturesInv, ReplayTyped
<1>4. Readings!TypeOK
  BY <1>1, <1>2, <1>3 DEF CapturesInv, Readings!TypeOK, IsCapture
<1>5. PICK C : /\ Walked(C, inspected.at, inspected.count)
               /\ C[replayed.at] = Len(replayed.packets)
  BY DEF CapturesInv, Follows
<1>6. PICK at \in 0..n, position \in 0..n, count \in Nat, found \in Nat :
            /\ at = inspected.at /\ position = replayed.at /\ count = inspected.count
            /\ found = Len(replayed.packets)
  <2>1. /\ inspected.at \in 0..n /\ replayed.at \in 0..n /\ inspected.count \in Nat
        /\ Len(replayed.packets) \in Nat
    <3>1. MaxRecords \in Nat
      BY DEF CapturesAssumption
    <3> QED BY <1>2, <1>3, <3>1 DEF CapturesInv
  <2> QED BY <2>1
<1>7. /\ C[at] = count /\ C[position] = found /\ position <= at /\ found <= count
      /\ position # at => Readings!Accepted(position)
  BY <1>2, <1>5, <1>6 DEF Walked
<1>8. \A i \in 1..Len(replayed.packets) :
        replayed.packets[i].captured.timestamp.microseconds < Readings!MicrosPerSecond
  <2>1. \A i \in 1..Len(replayed.packets) : replayed.packets[i] \in S
    BY <1>3
  <2>2. \A m \in Microseconds : m < Readings!MicrosPerSecond
    BY SecondsAreCounted DEF Microseconds
  <2> QED BY <1>3, <2>1, <2>2 DEF Timed
<1>9. replayed.status = "done" => inspected.status = "accepted" /\ found = count
  <2>1. SUFFICES ASSUME replayed.status = "done" PROVE inspected.status = "accepted" /\ found = count
    OBVIOUS
  <2>2. position = n /\ at = n
    BY <1>2, <1>6, <1>7, <2>1 DEF CapturesInv
  <2> QED BY <1>2, <1>6, <1>7, <2>1, <2>2 DEF CapturesInv
<1>10. inspected.status = "accepted" /\ replayed.at < n =>
        IF capture.format = "pcapng" THEN Readings!Framed(replayed.at)
        ELSE Readings!ClassicRecord(replayed.at)
  <2>1. SUFFICES ASSUME inspected.status = "accepted", position < n
                 PROVE  Readings!Accepted(position)
    BY <1>6 DEF Readings!Accepted
  <2>2. at = n
    BY <1>2, <1>6, <2>1 DEF CapturesInv
  <2> QED BY <1>7, <2>1, <2>2
<1>11. Readings!ReadersAgree
  BY <1>2, <1>6, <1>7, <1>8, <1>9, <1>10 DEF Readings!ReadersAgree
<1> QED BY <1>4, <1>11, DecodingIsSound DEF Readings!CaptureIsSound

\* What the two readers of a capture hold is of its words.
THEOREM CapturesTypesCorrect == ASSUME CapturesAssumption PROVE Readings!Spec => []Readings!TypeOK
<1>1. Readings!Spec => []CapturesInv
  <2>1. Readings!Init => CapturesInv
    BY CapturesInit
  <2>2. CapturesInv /\ [Readings!Next]_(Readings!vars) => CapturesInv'
    BY CapturesStep
  <2> QED BY <2>1, <2>2, PTL DEF Readings!Spec
<1>2. CapturesInv => Readings!TypeOK
  BY CapturesSound
<1> QED BY <1>1, <1>2, PTL

-----------------------------------------------------------------------------
(* Features of a flow segment.                                             *)

PartialSums(P, numbers) ==
    /\ P \in [0..Len(numbers) -> Int] /\ P[0] = 0
    /\ \A m \in 1..Len(numbers) : P[m] = P[m - 1] + numbers[m]

\* Sum is the last of the partial sums.
LEMMA SumUnfolds ==
    ASSUME NEW numbers \in Seq(Int)
    PROVE  \E P : PartialSums(P, numbers) /\ Segment!Sum(numbers) = P[Len(numbers)]
<1> DEFINE IsSum(p) == p = [n \in 0..Len(numbers) |-> IF n = 0 THEN 0 ELSE p[n - 1] + numbers[n]]
<1>1. PICK N \in Nat : N = Len(numbers)
  OBVIOUS
<1>2. \A m \in 1..N : numbers[m] \in Int
  BY <1>1
<1>3. PICK turn : turn = [p \in Int \X (1..N) |-> p[1] + numbers[p[2]]]
  OBVIOUS
<1>4. turn \in [Int \X (1..N) -> Int]
  BY <1>2, <1>3
<1>5. PICK walk \in [0..N -> Int] : IsWalk(walk, N, 0, turn)
  <2>1. PICK zero \in Int : zero = 0
    OBVIOUS
  <2>2. \E walk \in [0..N -> Int] : IsWalk(walk, N, zero, turn)
    BY <1>4, WalkExists
  <2> QED BY <2>1, <2>2
<1>6. ASSUME NEW m \in 1..N PROVE turn[<< walk[m - 1], m >>] = walk[m - 1] + numbers[m]
  <2>1. m - 1 \in 0..N
    BY <1>1
  <2>2. << walk[m - 1], m >> \in Int \X (1..N)
    BY <1>5, <2>1
  <2> QED BY <1>3, <2>2
<1>7. walk = [m \in 0..N |-> IF m = 0 THEN 0 ELSE walk[m - 1] + numbers[m]]
  <2>1. \A m \in 0..N : m # 0 => m \in 1..N
    OBVIOUS
  <2> QED BY <1>5, <1>6, <2>1 DEF IsWalk
<1>8. IsSum(walk)
  BY <1>1, <1>7
<1>9. PICK P : IsSum(P) /\ Segment!Sum(numbers) = P[N]
  <2>1. PICK p : p = CHOOSE r : IsSum(r)
    OBVIOUS
  <2>2. IsSum(p)
    <3> HIDE DEF IsSum
    <3> QED BY <1>8, <2>1
  <2>3. Segment!Sum(numbers) = (CHOOSE r : IsSum(r))[Len(numbers)]
    BY DEF Segment!Sum
  <2>4. Segment!Sum(numbers) = p[N]
    BY <1>1, <2>1, <2>3
  <2> HIDE DEF IsSum
  <2> QED BY <2>2, <2>4
<1>10. /\ P[0] = 0 /\ DOMAIN P = 0..N
       /\ \A m \in 0..N : m # 0 => P[m] = P[m - 1] + numbers[m]
       /\ P = [m \in 0..N |-> P[m]]
  <2>1. 0 \in 0..N
    OBVIOUS
  <2>2. DOMAIN P = 0..N
    BY <1>1, <1>9
  <2>3. P[0] = 0
    BY <1>1, <1>9, <2>1
  <2>4. \A m \in 0..N : m # 0 => P[m] = P[m - 1] + numbers[m]
    BY <1>1, <1>9
  <2>5. P = [m \in 0..N |-> P[m]]
    BY <1>1, <1>9
  <2> QED BY <2>2, <2>3, <2>4, <2>5
<1>11. \A m \in 0..N : P[m] \in Int
  <2> DEFINE G == {m \in 0..N : P[m] \in Int}
  <2>1. 0 \in G
    BY <1>10
  <2>2. ASSUME NEW k \in 0..N, k # 0, k - 1 \in G PROVE k \in G
    <3>1. k # 0 /\ k \in 1..N /\ P[k - 1] \in Int /\ numbers[k] \in Int
      BY <1>2, <2>2
    <3>2. P[k] = P[k - 1] + numbers[k]
      BY <1>10, <3>1
    <3>3. P[k] \in Int
      BY <3>1, <3>2
    <3> QED BY <3>3
  <2>3. 0..N \subseteq G
    <3> HIDE DEF G
    <3> QED BY <2>1, <2>2, Climb
  <2> QED BY <2>3
<1>12. P \in [0..N -> Int]
  BY <1>10, <1>11
<1>13. \A m \in 1..N : P[m] = P[m - 1] + numbers[m]
  <2>1. \A m \in 1..N : m \in 0..N /\ m # 0
    OBVIOUS
  <2> QED BY <1>10, <2>1
<1> QED BY <1>1, <1>9, <1>10, <1>12, <1>13 DEF PartialSums

\* A sum lies between as many times the least and the greatest number.
LEMMA SumIsBetween ==
    ASSUME NEW numbers \in Seq(Int), NEW low \in Int, NEW high \in Int,
           \A i \in 1..Len(numbers) : low <= numbers[i] /\ numbers[i] <= high
    PROVE  /\ Segment!Sum(numbers) \in Int
           /\ Len(numbers) * low <= Segment!Sum(numbers)
           /\ Segment!Sum(numbers) <= Len(numbers) * high
<1>1. PICK P : PartialSums(P, numbers) /\ Segment!Sum(numbers) = P[Len(numbers)]
  BY SumUnfolds
<1>2. PICK N \in Nat : N = Len(numbers)
  OBVIOUS
<1> DEFINE G == {m \in 0..N : m * low <= P[m] /\ P[m] <= m * high}
<1>3. 0 \in G
  BY <1>1, <1>2 DEF PartialSums
<1>4. ASSUME NEW k \in 0..N, k # 0, k - 1 \in G PROVE k \in G
  <2>1. k # 0 /\ k \in 1..N /\ k - 1 \in 0..N
    BY <1>4
  <2>2. PICK was \in Int, is \in Int, x \in Int : was = P[k - 1] /\ is = P[k] /\ x = numbers[k]
    <3>1. P \in [0..N -> Int] /\ numbers \in [1..N -> Int]
      BY <1>1, <1>2 DEF PartialSums
    <3>2. P[k - 1] \in Int /\ P[k] \in Int /\ numbers[k] \in Int
      BY <2>1, <3>1
    <3> QED BY <3>2
  <2>3. is = was + x /\ low <= x /\ x <= high
    BY <1>1, <1>2, <2>1, <2>2 DEF PartialSums
  <2>4. (k - 1) * low <= was /\ was <= (k - 1) * high
    BY <1>4, <2>2
  <2>5. (k - 1) * low = k * low - low /\ (k - 1) * high = k * high - high
    BY <2>1
  <2>6. PICK a \in Int, b \in Int : a = k * low /\ b = k * high
    BY <2>1
  <2>7. a <= is /\ is <= b
    BY <2>3, <2>4, <2>5, <2>6
  <2> QED BY <2>2, <2>6, <2>7
<1>5. 0..N \subseteq G
  <2> HIDE DEF G
  <2> QED BY <1>3, <1>4, Climb
<1>6. N \in G
  BY <1>5
<1> QED BY <1>1, <1>2, <1>6 DEF PartialSums

\* The gaps of an ascending sequence add up to the distance of its ends.
LEMMA GapsAddUp ==
    ASSUME NEW t \in Seq(Int), t # << >>, \A i \in 1..(Len(t) - 1) : t[i] <= t[i + 1]
    PROVE  /\ Segment!Gaps(t) \in Seq(Nat) /\ Len(Segment!Gaps(t)) = Len(t) - 1
           /\ Segment!Sum(Segment!Gaps(t)) = t[Len(t)] - t[1]
<1>1. PICK N \in Nat : N = Len(t) - 1 /\ Len(t) = N + 1
  <2>1. Len(t) \in Nat /\ Len(t) # 0
    BY EmptySeq
  <2>2. Len(t) - 1 \in Nat /\ Len(t) = (Len(t) - 1) + 1
    BY <2>1
  <2> QED BY <2>2
<1>2. t \in [1..(N + 1) -> Int]
  BY <1>1
<1>3. ASSUME NEW i \in 1..N
      PROVE  /\ Segment!NotNegative(t[i + 1] - t[i]) = t[i + 1] - t[i]
             /\ t[i + 1] - t[i] \in Nat
  <2>1. i \in 1..(N + 1) /\ i + 1 \in 1..(N + 1)
    BY <1>1
  <2>2. t[i] \in Int /\ t[i + 1] \in Int /\ t[i] <= t[i + 1]
    BY <1>1, <1>2, <2>1
  <2>3. t[i + 1] - t[i] \in Nat
    BY <2>2
  <2>4. ~(t[i + 1] - t[i] < 0)
    BY <2>3
  <2> QED BY <2>3, <2>4 DEF Segment!NotNegative
<1>4. PICK g : g = [i \in 1..N |-> t[i + 1] - t[i]]
  OBVIOUS
<1>5. g \in Seq(Nat) /\ g \in Seq(Int) /\ Len(g) = N
  <2>1. g \in [1..N -> Nat] /\ g \in [1..N -> Int]
    BY <1>3, <1>4
  <2> QED BY <1>1, <1>4, <2>1, SeqDef
<1>6. Segment!Gaps(t) = g
  BY <1>1, <1>3, <1>4 DEF Segment!Gaps
<1>7. PICK P : PartialSums(P, g) /\ Segment!Sum(g) = P[N]
  BY <1>5, SumUnfolds
<1> DEFINE G == {m \in 0..N : P[m] = t[m + 1] - t[1]}
<1>8. 0 \in G
  <2>1. P[0] = 0 /\ t[0 + 1] = t[1] /\ t[1] \in Int
    BY <1>1, <1>2, <1>7 DEF PartialSums
  <2> QED BY <2>1
<1>9. ASSUME NEW k \in 0..N, k # 0, k - 1 \in G PROVE k \in G
  <2>1. k # 0 /\ k \in 1..N /\ (k - 1) + 1 = k /\ k \in 1..(N + 1) /\ k + 1 \in 1..(N + 1)
        /\ 1 \in 1..(N + 1)
    BY <1>9
  <2>2. P[k] = P[k - 1] + g[k]
    BY <1>5, <1>7, <2>1 DEF PartialSums
  <2>3. g[k] = t[k + 1] - t[k] /\ P[k - 1] = t[k] - t[1]
    BY <1>4, <1>9, <2>1
  <2>4. t[k + 1] \in Int /\ t[k] \in Int /\ t[1] \in Int
    BY <1>2, <2>1
  <2> QED BY <2>2, <2>3, <2>4
<1>10. 0..N \subseteq G
  <2> HIDE DEF G
  <2> QED BY <1>8, <1>9, Climb
<1>11. N \in G
  BY <1>10
<1> QED BY <1>1, <1>5, <1>6, <1>7, <1>11

LEMMA SquaresAreCounted == \A x \in Int : x * x >= 0 /\ (x * x = 0 => x = 0)
  OBVIOUS

LEMMA DeviationGrows ==
    ASSUME NEW q \in Int, NEW p \in Int, NEW m \in Int, NEW y \in Int, NEW x \in Int
    PROVE  (q + x * x) - 2 * (y * (p + x)) + (m + 1) * (y * y)
             = (q - 2 * (y * p) + m * (y * y)) + (x - y) * (x - y)
  OBVIOUS

LEMMA VarianceGrows ==
    ASSUME NEW q \in Int, NEW p \in Int, NEW m \in Int, NEW x \in Int
    PROVE  (m + 1) * (q + x * x) - (p + x) * (p + x)
             = (m * q - p * p) + (q - 2 * (x * p) + m * (x * x))
  OBVIOUS

Squares(numbers) == [i \in 1..Len(numbers) |-> numbers[i] * numbers[i]]

\* A sum of squared distances from a number is not negative, and zero if all numbers
\* are that one.
LEMMA DeviationsAdd ==
    ASSUME NEW x \in Seq(Int), NEW P, NEW Q, PartialSums(P, x), PartialSums(Q, Squares(x)),
           NEW y \in Int, NEW n \in 0..Len(x)
    PROVE  /\ Q[n] \in Int /\ P[n] \in Int
           /\ Q[n] - 2 * (y * P[n]) + n * (y * y) >= 0
           /\ Q[n] - 2 * (y * P[n]) + n * (y * y) = 0 => \A i \in 1..n : x[i] = y
<1>1. PICK N \in Nat : N = Len(x)
  OBVIOUS
<1>2. Len(Squares(x)) = N /\ \A i \in 1..N : Squares(x)[i] = x[i] * x[i]
  BY <1>1 DEF Squares
<1>3. P \in [0..N -> Int] /\ Q \in [0..N -> Int] /\ P[0] = 0 /\ Q[0] = 0 /\ x \in [1..N -> Int]
  BY <1>1, <1>2 DEF PartialSums
<1>4. \A m \in 1..N : P[m] = P[m - 1] + x[m] /\ Q[m] = Q[m - 1] + x[m] * x[m]
  BY <1>1, <1>2 DEF PartialSums
<1> DEFINE E(m) == Q[m] - 2 * (y * P[m]) + m * (y * y)
           G == {m \in 0..N : E(m) >= 0 /\ (E(m) = 0 => \A i \in 1..m : x[i] = y)}
<1>5. 0 \in G
  <2>1. E(0) = 0 - 2 * (y * 0) + 0 * (y * y)
    BY <1>3
  <2>2. 0 - 2 * (y * 0) + 0 * (y * y) = 0
    OBVIOUS
  <2>3. E(0) = 0
    BY <2>1, <2>2
  <2> QED BY <2>3
<1>6. ASSUME NEW k \in 0..N, k # 0, k - 1 \in G PROVE k \in G
  <2>1. k # 0 /\ k \in 1..N /\ k - 1 \in 0..N /\ k \in Int /\ k - 1 \in Int /\ (k - 1) + 1 = k
    BY <1>6
  <2>2. PICK q \in Int, p \in Int, v \in Int : q = Q[k - 1] /\ p = P[k - 1] /\ v = x[k]
    <3>1. Q[k - 1] \in Int /\ P[k - 1] \in Int /\ x[k] \in Int
      BY <1>3, <2>1
    <3> QED BY <3>1
  <2>3. P[k] = p + v /\ Q[k] = q + v * v
    BY <1>4, <2>1, <2>2
  <2>4. E(k) = (q + v * v) - 2 * (y * (p + v)) + ((k - 1) + 1) * (y * y)
    BY <2>1, <2>3
  <2>5. PICK was \in Int : was = q - 2 * (y * p) + (k - 1) * (y * y)
    BY <2>1
  <2>6. E(k) = was + (v - y) * (v - y)
    BY <2>1, <2>4, <2>5, DeviationGrows
  <2>7. E(k - 1) = was
    BY <2>2, <2>5
  <2>8. was >= 0 /\ (was = 0 => \A i \in 1..(k - 1) : x[i] = y)
    BY <1>6, <2>7
  <2>9. PICK d \in Int : d = v - y
    OBVIOUS
  <2>10. PICK e \in Int : e = d * d
    OBVIOUS
  <2>11. e >= 0 /\ (e = 0 => d = 0)
    BY <2>10, SquaresAreCounted
  <2>12. E(k) = was + e
    BY <2>6, <2>9, <2>10
  <2>13. PICK now \in Int : now = E(k)
    BY <2>12
  <2>14. now >= 0 /\ (now = 0 => was = 0 /\ d = 0)
    BY <2>8, <2>11, <2>12, <2>13
  <2>15. now = 0 => \A i \in 1..k : x[i] = y
    <3>1. SUFFICES ASSUME now = 0, NEW i \in 1..k PROVE x[i] = y
      OBVIOUS
    <3>2. CASE i = k
      <4>1. d = 0
        BY <2>14, <3>1
      <4> QED BY <2>2, <2>9, <3>2, <4>1
    <3>3. CASE i # k
      <4>1. i \in 1..(k - 1)
        BY <2>1, <3>3
      <4> QED BY <2>8, <2>14, <3>1, <4>1
    <3> QED BY <3>2, <3>3
  <2> HIDE DEF E
  <2> QED BY <2>13, <2>14, <2>15
<1>7. 0..N \subseteq G
  <2> HIDE DEF G
  <2> QED BY <1>5, <1>6, Climb
<1>8. n \in 0..N
  BY <1>1
<1>9. n \in G
  BY <1>7, <1>8
<1> QED BY <1>3, <1>8, <1>9

\* n times the sum of the squares is at least the square of the sum, and equal to it
\* only if all numbers are the same.
LEMMA VarianceIsCounted ==
    ASSUME NEW x \in Seq(Int), NEW d, d = Len(x) * Segment!Sum(Squares(x)) - Segment!Sum(x) * Segment!Sum(x)
    PROVE  /\ d \in Int /\ d >= 0
           /\ d = 0 => \A i \in 1..Len(x) : x[i] = x[Len(x)]
<1>1. PICK N \in Nat : N = Len(x)
  OBVIOUS
<1>2. Squares(x) \in Seq(Int) /\ Len(Squares(x)) = N
  <2>1. x \in [1..N -> Int]
    BY <1>1
  <2>2. PICK s : s = [i \in 1..N |-> x[i] * x[i]]
    OBVIOUS
  <2>3. s \in [1..N -> Int]
    BY <2>1, <2>2
  <2>4. s \in Seq(Int) /\ Len(s) = N
    BY <1>1, <2>2, <2>3, SeqDef
  <2> QED BY <1>1, <2>2, <2>4 DEF Squares
<1>3. PICK P : PartialSums(P, x) /\ Segment!Sum(x) = P[N]
  BY <1>1, SumUnfolds
<1>4. PICK Q : PartialSums(Q, Squares(x)) /\ Segment!Sum(Squares(x)) = Q[N]
  BY <1>2, SumUnfolds
<1>5. P \in [0..N -> Int] /\ Q \in [0..N -> Int] /\ P[0] = 0 /\ Q[0] = 0 /\ x \in [1..N -> Int]
  BY <1>1, <1>2, <1>3, <1>4 DEF PartialSums
<1>6. \A m \in 1..N : P[m] = P[m - 1] + x[m] /\ Q[m] = Q[m - 1] + x[m] * x[m]
  BY <1>1, <1>2, <1>3, <1>4 DEF PartialSums, Squares
<1> DEFINE D(m) == m * Q[m] - P[m] * P[m]
           G == {m \in 0..N : D(m) >= 0 /\ (D(m) = 0 => \A i \in 1..m : x[i] = x[m])}
<1>7. 0 \in G
  <2>1. D(0) = 0
    BY <1>5
  <2> QED BY <2>1
<1>8. ASSUME NEW k \in 0..N, k # 0, k - 1 \in G PROVE k \in G
  <2>1. k # 0 /\ k \in 1..N /\ k - 1 \in 0..N /\ k \in Int /\ k - 1 \in Int /\ (k - 1) + 1 = k
    BY <1>8
  <2>2. PICK q \in Int, p \in Int, v \in Int : q = Q[k - 1] /\ p = P[k - 1] /\ v = x[k]
    <3>1. Q[k - 1] \in Int /\ P[k - 1] \in Int /\ x[k] \in Int
      BY <1>5, <2>1
    <3> QED BY <3>1
  <2>3. P[k] = p + v /\ Q[k] = q + v * v
    BY <1>6, <2>1, <2>2
  <2>4. D(k) = ((k - 1) + 1) * (q + v * v) - (p + v) * (p + v)
    BY <2>1, <2>3
  <2>5. PICK was \in Int : was = (k - 1) * q - p * p
    BY <2>1
  <2>6. PICK e \in Int : e = q - 2 * (v * p) + (k - 1) * (v * v)
    BY <2>1
  <2>7. D(k) = was + e
    BY <2>1, <2>4, <2>5, <2>6, VarianceGrows
  <2>8. was >= 0
    BY <1>8, <2>2, <2>5
  <2>9. e >= 0 /\ (e = 0 => \A i \in 1..(k - 1) : x[i] = v)
    <3>1. k - 1 \in 0..Len(x)
      BY <1>1, <2>1
    <3>2. /\ Q[k - 1] - 2 * (v * P[k - 1]) + (k - 1) * (v * v) >= 0
          /\ Q[k - 1] - 2 * (v * P[k - 1]) + (k - 1) * (v * v) = 0
                => \A i \in 1..(k - 1) : x[i] = v
      <4>1. PICK m \in 0..Len(x) : m = k - 1
        BY <3>1
      <4>2. /\ Q[m] - 2 * (v * P[m]) + m * (v * v) >= 0
            /\ Q[m] - 2 * (v * P[m]) + m * (v * v) = 0 => \A i \in 1..m : x[i] = v
        BY <1>3, <1>4, DeviationsAdd
      <4> QED BY <4>1, <4>2
    <3> QED BY <2>2, <2>6, <3>2
  <2>10. PICK now \in Int : now = D(k)
    BY <2>7
  <2>11. now >= 0 /\ (now = 0 => e = 0)
    BY <2>7, <2>8, <2>9, <2>10
  <2>12. now = 0 => \A i \in 1..k : x[i] = x[k]
    <3>1. SUFFICES ASSUME now = 0, NEW i \in 1..k PROVE x[i] = x[k]
      OBVIOUS
    <3>2. CASE i # k
      <4>1. i \in 1..(k - 1)
        BY <2>1, <3>2
      <4> QED BY <2>2, <2>9, <2>11, <3>1, <4>1
    <3> QED BY <3>2
  <2> HIDE DEF D
  <2> QED BY <2>10, <2>11, <2>12
<1>9. 0..N \subseteq G
  <2> HIDE DEF G
  <2> QED BY <1>7, <1>8, Climb
<1>10. N \in G
  BY <1>9
<1>11. d = D(N) /\ d \in Int
  <2>1. Q[N] \in Int /\ P[N] \in Int
    BY <1>5
  <2> QED BY <1>1, <1>3, <1>4, <2>1
<1> HIDE DEF D
<1> QED BY <1>1, <1>10, <1>11

LEMMA SegmentCardinality == \A S : Segment!Cardinality(S) = Cardinality(S)
BY DEF Segment!Cardinality, Cardinality

\* How many numbers are not above v: more for a greater v, all if none is above it.
LEMMA NotAboveCounts ==
    ASSUME NEW x \in Seq(Nat), NEW v \in Int
    PROVE  /\ Segment!NotAbove(x, v) \in 0..Len(x)
           /\ Segment!NotAbove(x, v) >= 1 <=> \E i \in 1..Len(x) : x[i] <= v
           /\ Segment!NotAbove(x, v) = Len(x) <=> \A i \in 1..Len(x) : x[i] <= v
           /\ \A w \in Int : v <= w => Segment!NotAbove(x, v) <= Segment!NotAbove(x, w)
<1>1. PICK N \in Nat : N = Len(x) /\ x \in [1..N -> Nat]
  OBVIOUS
<1> DEFINE S(u) == {i \in 1..N : x[i] <= u}
<1>2. \A u \in Int : Segment!NotAbove(x, u) = Cardinality(S(u))
  BY <1>1, SegmentCardinality DEF Segment!NotAbove
<1>3. IsFiniteSet(1..N) /\ Cardinality(1..N) = N
  BY FS_Interval
<1>4. \A u \in Int : S(u) \in SUBSET (1..N)
  OBVIOUS
<1>5. \A u \in Int : IsFiniteSet(S(u)) /\ Cardinality(S(u)) \in Nat /\ Cardinality(S(u)) <= N
                     /\ (Cardinality(S(u)) = N => S(u) = 1..N)
  BY <1>3, <1>4, FS_Subset, FS_CardinalityType
<1>6. Segment!NotAbove(x, v) \in 0..Len(x)
  <2>1. PICK c \in Nat : c = Cardinality(S(v)) /\ c <= N
    BY <1>5
  <2>2. Segment!NotAbove(x, v) = c
    BY <1>2, <2>1
  <2>3. c \in 0..N
    BY <2>1
  <2> QED BY <1>1, <2>2, <2>3
<1>7. Segment!NotAbove(x, v) >= 1 <=> \E i \in 1..Len(x) : x[i] <= v
  <2>1. Cardinality(S(v)) = 0 <=> S(v) = {}
    BY <1>5, FS_EmptySet
  <2>2. S(v) = {} <=> ~(\E i \in 1..Len(x) : x[i] <= v)
    BY <1>1
  <2>3. PICK c \in Nat : c = Cardinality(S(v))
    BY <1>5
  <2> QED BY <1>2, <2>1, <2>2, <2>3
<1>8. Segment!NotAbove(x, v) = Len(x) <=> \A i \in 1..Len(x) : x[i] <= v
  <2>1. S(v) = 1..N <=> \A i \in 1..Len(x) : x[i] <= v
    BY <1>1
  <2>2. S(v) = 1..N => Cardinality(S(v)) = N
    BY <1>3
  <2> QED BY <1>1, <1>2, <1>5, <2>1, <2>2
<1>9. ASSUME NEW w \in Int, v <= w
      PROVE  Segment!NotAbove(x, v) <= Segment!NotAbove(x, w)
  <2>1. \A i \in 1..N : x[i] <= v => x[i] <= w
    BY <1>1, <1>9
  <2>2. S(v) \in SUBSET S(w)
    BY <2>1
  <2>3. Cardinality(S(v)) <= Cardinality(S(w))
    BY <1>5, <2>2, FS_Subset
  <2> QED BY <1>2, <2>3
<1> QED BY <1>6, <1>7, <1>8, <1>9

LEMMA LeastIs ==
    ASSUME NEW S \in SUBSET Int, NEW m \in S, \A k \in S : m <= k
    PROVE  Segment!Least(S) = m
<1>1. Segment!Least(S) \in S /\ \A k \in S : Segment!Least(S) <= k
  BY DEF Segment!Least
<1>2. PICK l \in Int : l = Segment!Least(S)
  BY <1>1
<1>3. m \in Int /\ l <= m /\ m <= l
  BY <1>1, <1>2
<1> QED BY <1>2, <1>3

LEMMA GreatestIs ==
    ASSUME NEW S \in SUBSET Int, NEW m \in S, \A k \in S : m >= k
    PROVE  Segment!Greatest(S) = m
<1>1. Segment!Greatest(S) \in S /\ \A k \in S : Segment!Greatest(S) >= k
  BY DEF Segment!Greatest
<1>2. PICK l \in Int : l = Segment!Greatest(S)
  BY <1>1
<1>3. m \in Int /\ l <= m /\ m <= l
  BY <1>1, <1>2
<1> QED BY <1>2, <1>3

\* Of some values, the greatest that is not above v.
LEMMA GreatestBelow ==
    ASSUME NEW S \in SUBSET Nat, NEW v \in Int, \E k \in S : k <= v
    PROVE  \E m \in S : m <= v /\ \A k \in S : k <= v => k <= m
<1>1. PICK D : D = {v - k : k \in {j \in S : j <= v}}
  OBVIOUS
<1>2. D \in SUBSET Nat /\ D # {}
  <2>1. \A j \in S : j <= v => v - j \in Nat
    OBVIOUS
  <2> QED BY <1>1, <2>1
<1>3. PICK d \in D : \A e \in D : d <= e
  BY <1>2, LeastOf
<1>4. PICK m \in S : m <= v /\ d = v - m
  BY <1>1
<1>5. ASSUME NEW k \in S, k <= v PROVE k <= m
  <2>1. v - k \in D
    BY <1>1, <1>5
  <2>2. v - m <= v - k
    BY <1>3, <1>4, <2>1
  <2>3. k \in Int /\ m \in Int
    OBVIOUS
  <2> QED BY <2>2, <2>3
<1> QED BY <1>4, <1>5

IsOrder(t, x) ==
    /\ t \in Seq(Nat) /\ Len(t) = Len(x)
    /\ \A i \in 1..Len(x) : \A v \in Int : t[i] <= v <=> i <= Segment!NotAbove(x, v)
    /\ \A i \in 1..Len(x) : \E j \in 1..Len(x) : t[i] = x[j]

\* The i-th number in ascending order is not above v just when i numbers are not.
LEMMA SortedOrders == ASSUME NEW x \in Seq(Nat) PROVE IsOrder(Segment!Sorted(x), x)
<1>1. PICK N \in Nat : N = Len(x) /\ x \in [1..N -> Nat]
  OBVIOUS
<1>2. PICK V : V = Segment!Values(x)
  OBVIOUS
<1>3. V \in SUBSET Nat /\ \A v \in Nat : v \in V <=> \E j \in 1..N : x[j] = v
  BY <1>1, <1>2 DEF Segment!Values
<1> DEFINE Of(i) == {v \in V : i <= Segment!NotAbove(x, v)}
           t == Segment!Sorted(x)
<1>4. t = [i \in 1..N |-> Segment!Least(Of(i))]
  BY <1>1, <1>2 DEF Segment!Sorted
<1>5. \A i \in 1..N : Of(i) \in SUBSET Nat
  BY <1>3
<1>6. ASSUME NEW i \in 1..N, NEW v \in Int, i <= Segment!NotAbove(x, v)
      PROVE  \E w \in Of(i) : w <= v
  <2>1. Segment!NotAbove(x, v) \in Int /\ Segment!NotAbove(x, v) >= 1
    BY <1>1, <1>6, NotAboveCounts
  <2>2. \E j \in 1..N : x[j] <= v
    BY <1>1, <2>1, NotAboveCounts
  <2>3. \E k \in V : k <= v
    BY <1>1, <1>3, <2>2
  <2>4. PICK w \in V : w <= v /\ \A k \in V : k <= v => k <= w
    <3>1. V \in SUBSET Nat
      BY <1>3
    <3> QED BY <2>3, <3>1, GreatestBelow
  <2>5. \A j \in 1..N : x[j] <= v <=> x[j] <= w
    <3>1. w \in Nat
      BY <1>3
    <3>2. \A j \in 1..N : x[j] \in V /\ x[j] \in Nat
      BY <1>1, <1>3
    <3>3. ASSUME NEW j \in 1..N PROVE x[j] <= v <=> x[j] <= w
      BY <2>4, <3>1, <3>2
    <3> QED BY <3>3
  <2>6. Segment!NotAbove(x, w) = Segment!NotAbove(x, v)
    BY <1>1, <2>5 DEF Segment!NotAbove
  <2> QED BY <1>6, <2>4, <2>6
<1>7. ASSUME NEW i \in 1..N
      PROVE  t[i] \in Of(i) /\ \A w \in Of(i) : t[i] <= w
  <2>1. N # 0
    BY <1>7
  <2>2. x \in [1..N -> Int]
    BY <1>1
  <2>3. PICK f \in 1..N : \A g \in 1..N : x[f] > x[g] \/ (x[f] = x[g] /\ f <= g)
    BY <2>1, <2>2, FirstGreatest
  <2>4. x[f] \in Nat /\ x[f] \in Int
    BY <1>1
  <2>5. \A g \in 1..N : x[g] <= x[f]
    BY <1>1, <2>3
  <2>6. Segment!NotAbove(x, x[f]) = N
    BY <1>1, <2>4, <2>5, NotAboveCounts
  <2>7. i <= Segment!NotAbove(x, x[f])
    BY <2>6
  <2>8. Of(i) # {}
    BY <1>6, <2>4, <2>7
  <2>9. PICK m \in Of(i) : \A k \in Of(i) : m <= k
    <3> HIDE DEF Of
    <3> QED BY <1>5, <2>8, LeastOf
  <2>10. Segment!Least(Of(i)) \in Of(i) /\ \A k \in Of(i) : Segment!Least(Of(i)) <= k
    <3> HIDE DEF Of
    <3> QED BY <2>9 DEF Segment!Least
  <2> QED BY <1>4, <2>10
<1> HIDE DEF t
<1>8. ASSUME NEW i \in 1..N PROVE t[i] \in V /\ t[i] \in Nat /\ i <= Segment!NotAbove(x, t[i])
  <2>1. t[i] \in Of(i)
    BY <1>7
  <2> QED BY <1>3, <2>1
<1>9. t \in [1..N -> Nat] /\ t \in Seq(Nat) /\ Len(t) = N
  <2>1. DOMAIN t = 1..N
    BY <1>4
  <2>2. t = [i \in 1..N |-> t[i]]
    BY <1>4
  <2>3. t \in [1..N -> Nat]
    BY <1>8, <2>1, <2>2
  <2> QED BY <1>1, <2>1, <2>3, SeqDef
<1>10. ASSUME NEW i \in 1..N, NEW v \in Int PROVE t[i] <= v <=> i <= Segment!NotAbove(x, v)
  <2>1. CASE t[i] <= v
    <3>1. t[i] \in Int
      BY <1>8
    <3>2. Segment!NotAbove(x, t[i]) <= Segment!NotAbove(x, v)
      BY <2>1, <3>1, NotAboveCounts
    <3>3. Segment!NotAbove(x, t[i]) \in Int /\ Segment!NotAbove(x, v) \in Int
      BY <3>1, NotAboveCounts
    <3> QED BY <1>8, <2>1, <3>2, <3>3
  <2>2. CASE i <= Segment!NotAbove(x, v)
    <3>1. PICK w \in Of(i) : w <= v
      BY <1>6, <2>2
    <3>2. t[i] <= w
      BY <1>7
    <3>3. w \in Nat /\ t[i] \in Nat
      BY <1>3, <1>8
    <3> QED BY <2>2, <3>1, <3>2, <3>3
  <2> QED BY <2>1, <2>2
<1>11. \A i \in 1..N : \E j \in 1..N : t[i] = x[j]
  BY <1>3, <1>8
<1>12. IsOrder(t, x)
  BY <1>1, <1>9, <1>10, <1>11 DEF IsOrder
<1> QED BY <1>12 DEF t

\* In order, numbers ascend from the least to the greatest.
LEMMA OrderAscends ==
    ASSUME NEW x \in Seq(Nat), x # << >>, NEW t, IsOrder(t, x)
    PROVE  /\ \A i, j \in 1..Len(x) : i <= j => t[i] <= t[j]
           /\ t[1] = Segment!Least(Segment!Values(x))
           /\ t[Len(x)] = Segment!Greatest(Segment!Values(x))
           /\ \A i \in 1..Len(x) : t[1] <= x[i] /\ x[i] <= t[Len(x)]
<1>1. PICK N \in Nat : N = Len(x) /\ x \in [1..N -> Nat] /\ N # 0 /\ t \in [1..N -> Nat]
  <2>1. Len(x) \in Nat /\ Len(x) # 0
    BY EmptySeq
  <2>2. t \in Seq(Nat) /\ Len(t) = Len(x)
    BY DEF IsOrder
  <2>3. x \in [1..Len(x) -> Nat] /\ t \in [1..Len(t) -> Nat]
    BY <2>2
  <2> QED BY <2>1, <2>2, <2>3
<1>2. 1 \in 1..N /\ N \in 1..N
  BY <1>1
<1>3. ASSUME NEW i \in 1..N, NEW j \in 1..N, i <= j PROVE t[i] <= t[j]
  <2>1. t[j] \in Int /\ j <= Segment!NotAbove(x, t[j])
    <3>1. t[j] \in Int /\ t[j] <= t[j]
      BY <1>1
    <3> QED BY <1>1, <3>1 DEF IsOrder
  <2>2. Segment!NotAbove(x, t[j]) \in Int
    <3>1. Segment!NotAbove(x, t[j]) \in 0..N
      BY <1>1, <2>1, NotAboveCounts
    <3> QED BY <3>1
  <2>3. i <= Segment!NotAbove(x, t[j])
    BY <1>3, <2>1, <2>2
  <2> QED BY <1>1, <2>1, <2>3 DEF IsOrder
<1>4. ASSUME NEW i \in 1..N PROVE t[1] <= x[i] /\ x[i] <= t[N]
  <2>1. x[i] \in Int /\ x[i] <= x[i]
    BY <1>1
  <2>2. Segment!NotAbove(x, x[i]) >= 1 /\ Segment!NotAbove(x, x[i]) \in Int
    BY <1>1, <2>1, NotAboveCounts
  <2>3. t[1] <= x[i]
    BY <1>1, <1>2, <2>1, <2>2 DEF IsOrder
  <2>4. t[N] \in Int /\ t[N] <= t[N]
    BY <1>1, <1>2
  <2>5. N <= Segment!NotAbove(x, t[N])
    BY <1>1, <1>2, <2>4 DEF IsOrder
  <2>6. Segment!NotAbove(x, t[N]) = N
    <3>1. Segment!NotAbove(x, t[N]) \in 0..N
      BY <1>1, <2>4, NotAboveCounts
    <3> QED BY <2>5, <3>1
  <2>7. x[i] <= t[N]
    BY <1>1, <2>4, <2>6, NotAboveCounts
  <2> QED BY <2>3, <2>7
<1>5. PICK V : V = Segment!Values(x)
  OBVIOUS
<1>6. V \in SUBSET Int /\ \A v \in V : \E i \in 1..N : v = x[i]
  BY <1>1, <1>5 DEF Segment!Values
<1>7. t[1] \in V /\ t[N] \in V
  <2>1. \A i \in 1..N : \E j \in 1..N : t[i] = x[j]
    BY <1>1 DEF IsOrder
  <2>2. \A i \in 1..N : t[i] \in V
    BY <1>1, <1>5, <2>1 DEF Segment!Values
  <2> QED BY <1>2, <2>2
<1>8. \A v \in V : t[1] <= v /\ v <= t[N]
  BY <1>4, <1>6
<1>9. t[1] = Segment!Least(V)
  BY <1>6, <1>7, <1>8, LeastIs
<1>10. \A v \in V : t[N] >= v
  <2>1. t[N] \in Int
    BY <1>6, <1>7
  <2> QED BY <1>6, <1>8, <2>1
<1>11. t[N] = Segment!Greatest(V)
  BY <1>6, <1>7, <1>10, GreatestIs
<1> QED BY <1>1, <1>3, <1>4, <1>5, <1>9, <1>11

Interpolated(t, position) ==
    t[1 + (position \div 4)] * (4 - (position % 4))
        + (IF position % 4 = 0 THEN 0 ELSE t[2 + (position \div 4)] * (position % 4))

LEMMA QuartersDivide ==
    ASSUME NEW p \in Nat
    PROVE  p \div 4 \in Nat /\ p % 4 \in 0..3 /\ p = 4 * (p \div 4) + (p % 4)
  OBVIOUS

\* c lies w quarters of the way from a to b.
IsBlend(c, a, b, w) ==
    \/ w = 0 /\ c = 4 * a
    \/ w = 1 /\ c = 3 * a + b
    \/ w = 2 /\ c = 2 * a + 2 * b
    \/ w = 3 /\ c = a + 3 * b

LEMMA Blends ==
    ASSUME NEW a \in Nat, NEW b \in Nat, NEW w \in 0..3
    PROVE  IsBlend(a * (4 - w) + b * w, a, b, w)
<1>1. CASE w = 0
  BY <1>1 DEF IsBlend
<1>2. CASE w = 1
  BY <1>2 DEF IsBlend
<1>3. CASE w = 2
  BY <1>3 DEF IsBlend
<1>4. CASE w = 3
  BY <1>4 DEF IsBlend
<1> QED BY <1>1, <1>2, <1>3, <1>4

\* Between two positions of an ascending sequence, at quarters.
LEMMA InterpolatesBetween ==
    ASSUME NEW n \in Nat, NEW t \in [1..n -> Nat], NEW p \in Nat,
           \A i, j \in 1..n : i <= j => t[i] <= t[j],
           p <= 4 * (n - 1)
    PROVE  /\ Interpolated(t, p) \in Nat
           /\ 1 + (p \div 4) \in 1..n
           /\ 4 * t[1 + (p \div 4)] <= Interpolated(t, p)
           /\ p % 4 = 0 => Interpolated(t, p) = 4 * t[1 + (p \div 4)]
           /\ p % 4 # 0 => /\ 2 + (p \div 4) \in 1..n
                           /\ Interpolated(t, p) <= 4 * t[2 + (p \div 4)]
<1>1. PICK l \in Nat, w \in 0..3 : l = p \div 4 /\ w = p % 4 /\ p = 4 * l + w
  BY QuartersDivide
<1>2. 1 + l \in 1..n /\ (w # 0 => 2 + l \in 1..n)
  BY <1>1
<1>3. PICK a \in Nat : a = t[1 + l]
  BY <1>2
<1>4. CASE w = 0
  <2>1. Interpolated(t, p) = a * 4
    BY <1>1, <1>3, <1>4 DEF Interpolated
  <2> QED BY <1>1, <1>2, <1>3, <1>4, <2>1
<1>5. CASE w # 0
  <2>1. 2 + l \in 1..n /\ w \in {1, 2, 3}
    BY <1>2, <1>5
  <2>2. PICK b \in Nat : b = t[2 + l] /\ a <= b
    BY <1>2, <1>3, <2>1
  <2>3. Interpolated(t, p) = a * (4 - w) + b * w
    BY <1>1, <1>3, <1>5, <2>2 DEF Interpolated
  <2>4. a * (4 - w) + b * w \in Nat /\ 4 * a <= a * (4 - w) + b * w /\ a * (4 - w) + b * w <= 4 * b
    <3>1. PICK c : c = a * (4 - w) + b * w /\ IsBlend(c, a, b, w)
      BY Blends
    <3>2. a <= b
      BY <2>2
    <3>3. c \in Nat /\ 4 * a <= c /\ c <= 4 * b
      BY <2>1, <3>1, <3>2 DEF IsBlend
    <3> QED BY <3>1, <3>3
  <2> QED BY <1>1, <1>2, <1>3, <1>5, <2>1, <2>2, <2>3, <2>4
<1> QED BY <1>4, <1>5

LEMMA InterpolationAscends ==
    ASSUME NEW n \in Nat, NEW t \in [1..n -> Nat], NEW p \in Nat, NEW q \in Nat,
           \A i, j \in 1..n : i <= j => t[i] <= t[j],
           p <= q, q <= 4 * (n - 1)
    PROVE  Interpolated(t, p) <= Interpolated(t, q)
<1>1. PICK l \in Nat, w \in 0..3 : l = p \div 4 /\ w = p % 4 /\ p = 4 * l + w
  BY QuartersDivide
<1>2. PICK k \in Nat, v \in 0..3 : k = q \div 4 /\ v = q % 4 /\ q = 4 * k + v
  BY QuartersDivide
<1>3. p <= 4 * (n - 1)
  BY <1>1, <1>2
<1>4. PICK is \in Nat, then \in Nat : is = Interpolated(t, p) /\ then = Interpolated(t, q)
  BY <1>3, InterpolatesBetween
<1>5. /\ 1 + l \in 1..n
      /\ w = 0 => is = 4 * t[1 + l]
      /\ w # 0 => 2 + l \in 1..n /\ is <= 4 * t[2 + l]
  <2>1. /\ 1 + (p \div 4) \in 1..n
        /\ p % 4 = 0 => Interpolated(t, p) = 4 * t[1 + (p \div 4)]
        /\ p % 4 # 0 => 2 + (p \div 4) \in 1..n /\ Interpolated(t, p) <= 4 * t[2 + (p \div 4)]
    BY <1>3, InterpolatesBetween
  <2> QED BY <1>1, <1>4, <2>1
<1>6. 1 + k \in 1..n /\ 4 * t[1 + k] <= then
  BY <1>2, <1>4, InterpolatesBetween
<1>7. CASE l < k
  <2>1. CASE w = 0
    <3>1. t[1 + l] <= t[1 + k] /\ t[1 + l] \in Nat /\ t[1 + k] \in Nat
      BY <1>5, <1>6, <1>7
    <3> QED BY <1>4, <1>5, <1>6, <2>1, <3>1
  <2>2. CASE w # 0
    <3>1. t[2 + l] <= t[1 + k] /\ t[2 + l] \in Nat /\ t[1 + k] \in Nat
      BY <1>5, <1>6, <1>7, <2>2
    <3> QED BY <1>4, <1>5, <1>6, <2>2, <3>1
  <2> QED BY <2>1, <2>2
<1>8. CASE l = k /\ w <= v
  <2>1. CASE w = v
    <3>1. p = q
      BY <1>1, <1>2, <1>8, <2>1
    <3> QED BY <1>4, <3>1
  <2>2. CASE w # v
    <3>1. v # 0 /\ 2 + l \in 1..n
      <4>1. v # 0
        BY <1>8, <2>2
      <4> QED BY <1>2, <1>8, <4>1, InterpolatesBetween
    <3>2. PICK a \in Nat, b \in Nat : a = t[1 + l] /\ b = t[2 + l] /\ a <= b
      <4>1. t[1 + l] \in Nat /\ t[2 + l] \in Nat /\ t[1 + l] <= t[2 + l]
        BY <1>5, <3>1
      <4> QED BY <4>1
    <3>3. then = a * (4 - v) + b * v
      BY <1>2, <1>4, <1>8, <3>1, <3>2 DEF Interpolated
    <3>4. is = a * (4 - w) + b * w
      <4>1. CASE w = 0
        BY <1>4, <1>5, <3>2, <4>1
      <4>2. CASE w # 0
        BY <1>1, <1>4, <3>2, <4>2 DEF Interpolated
      <4> QED BY <4>1, <4>2
    <3>5. w \in 0..2 /\ v \in 1..3 /\ w < v
      BY <1>8, <2>2
    <3>6. IsBlend(is, a, b, w) /\ IsBlend(then, a, b, v)
      BY <3>3, <3>4, Blends
    <3>7. a <= b
      BY <3>2
    <3>8. is <= then
      BY <3>5, <3>6, <3>7 DEF IsBlend
    <3> QED BY <1>4, <3>8
  <2> QED BY <2>1, <2>2
<1> QED BY <1>1, <1>2, <1>7, <1>8

\* Least, quartiles and greatest ascend, as fractions.
LEMMA QuartilesAscend ==
    ASSUME NEW x \in Seq(Nat)
    PROVE  LET five == Segment!Quartiles(x)
           IN  /\ \A i \in 1..5 : five[i][1] \in Nat /\ five[i][2] \in Nat \ {0}
               /\ Segment!Ascending(five)
               /\ five[1] = << IF x = << >> THEN 0 ELSE Segment!Least(Segment!Values(x)), 1 >>
               /\ five[5] = << IF x = << >> THEN 0 ELSE Segment!Greatest(Segment!Values(x)), 1 >>
<1>1. PICK five : five = Segment!Quartiles(x)
  OBVIOUS
<1>2. /\ five[1] = Segment!Smallest(x) /\ five[2] = Segment!Quantile(x, 1)
      /\ five[3] = Segment!Quantile(x, 2) /\ five[4] = Segment!Quantile(x, 3)
      /\ five[5] = Segment!Largest(x) /\ DOMAIN five = 1..5 /\ five \in Seq({five[i] : i \in 1..5})
  BY <1>1 DEF Segment!Quartiles
<1>3. CASE x = << >>
  <2>1. \A i \in 1..5 : five[i] = << 0, 1 >>
    <3>1. five[1] = << 0, 1 >> /\ five[5] = << 0, 1 >>
      BY <1>2, <1>3 DEF Segment!Smallest, Segment!Largest
    <3>2. five[2] = << 0, 1 >> /\ five[3] = << 0, 1 >> /\ five[4] = << 0, 1 >>
      BY <1>2, <1>3 DEF Segment!Quantile
    <3> QED BY <3>1, <3>2
  <2>3. \A i \in 1..5 : five[i][1] \in Nat /\ five[i][2] \in Nat \ {0}
    BY <2>1
  <2>4. Segment!Ascending(five)
    BY <2>1 DEF Segment!Ascending, Segment!AtMost
  <2> QED BY <1>1, <1>3, <2>1, <2>3, <2>4
<1>4. CASE x # << >>
  <2>1. PICK n \in Nat : n = Len(x) /\ n # 0
    BY <1>4, EmptySeq
  <2>2. PICK t : t = Segment!Sorted(x) /\ IsOrder(t, x)
    BY SortedOrders
  <2>3. t \in [1..n -> Nat]
    <3>1. t \in Seq(Nat) /\ Len(t) = n
      BY <2>1, <2>2 DEF IsOrder
    <3> QED BY <3>1
  <2>4. \A i, j \in 1..n : i <= j => t[i] <= t[j]
    BY <1>4, <2>1, <2>2, OrderAscends
  <2>5. /\ t[1] = Segment!Least(Segment!Values(x))
        /\ t[n] = Segment!Greatest(Segment!Values(x))
    BY <1>4, <2>1, <2>2, OrderAscends
  <2>6. \A k \in 1..3 : Segment!Quantile(x, k) = << Interpolated(t, (n - 1) * k), 4 >>
    BY <1>4, <2>1, <2>2 DEF Segment!Quantile, Interpolated
  <2>7. PICK one \in Nat, two \in Nat, three \in Nat, all \in Nat :
            one = (n - 1) * 1 /\ two = (n - 1) * 2 /\ three = (n - 1) * 3 /\ all = 4 * (n - 1)
    BY <2>1
  <2>8. 0 <= one /\ one <= two /\ two <= three /\ three <= all
    BY <2>1, <2>7
  <2>9. \A p \in {one, two, three, all} : p <= 4 * (n - 1)
    <3>1. one <= all /\ two <= all
      BY <2>8
    <3> QED BY <2>7, <2>8, <3>1
  <2>10. one <= 4 * (n - 1) /\ two <= 4 * (n - 1) /\ three <= 4 * (n - 1) /\ all <= 4 * (n - 1)
    BY <2>9
  <2>11. PICK a \in Nat, b \in Nat, c \in Nat, low \in Nat, high \in Nat :
            /\ a = Interpolated(t, one) /\ b = Interpolated(t, two) /\ c = Interpolated(t, three)
            /\ low = t[1] /\ high = t[n]
    <3>1. Interpolated(t, one) \in Nat
      BY <2>3, <2>4, <2>10, InterpolatesBetween
    <3>2. Interpolated(t, two) \in Nat
      BY <2>3, <2>4, <2>10, InterpolatesBetween
    <3>3. Interpolated(t, three) \in Nat
      BY <2>3, <2>4, <2>10, InterpolatesBetween
    <3>4. t[1] \in Nat /\ t[n] \in Nat
      BY <2>1, <2>3
    <3> QED BY <3>1, <3>2, <3>3, <3>4
  <2>12. a <= b /\ b <= c
    <3>2. Interpolated(t, one) <= Interpolated(t, two)
      BY <2>3, <2>4, <2>8, <2>10, InterpolationAscends
    <3>3. Interpolated(t, two) <= Interpolated(t, three)
      BY <2>3, <2>4, <2>8, <2>10, InterpolationAscends
    <3> QED BY <2>11, <3>2, <3>3
  <2>13. 4 * low <= a
    <3>1. PICK zero \in Nat : zero = 0
      OBVIOUS
    <3>2. Interpolated(t, zero) <= Interpolated(t, one)
      <4>1. zero <= one
        BY <2>8, <3>1
      <4> QED BY <2>3, <2>4, <2>10, <4>1, InterpolationAscends
    <3>3. zero % 4 = 0 /\ zero \div 4 = 0 /\ zero <= 4 * (n - 1)
      BY <2>1, <3>1
    <3>4. Interpolated(t, zero) = 4 * t[1 + 0]
      <4>1. zero % 4 = 0 => Interpolated(t, zero) = 4 * t[1 + (zero \div 4)]
        BY <2>3, <2>4, <3>3, InterpolatesBetween
      <4> QED BY <3>3, <4>1
    <3> QED BY <2>11, <3>2, <3>4
  <2>14. c <= 4 * high
    <3>1. Interpolated(t, three) <= Interpolated(t, all)
      BY <2>3, <2>4, <2>8, <2>10, InterpolationAscends
    <3>2. all % 4 = 0 /\ all \div 4 = n - 1
      BY <2>1, <2>7
    <3>3. Interpolated(t, all) = 4 * t[1 + (n - 1)]
      <4>1. all % 4 = 0 => Interpolated(t, all) = 4 * t[1 + (all \div 4)]
        BY <2>3, <2>4, <2>10, InterpolatesBetween
      <4> QED BY <3>2, <4>1
    <3>4. 1 + (n - 1) = n
      BY <2>1
    <3> QED BY <2>11, <3>1, <3>3, <3>4
  <2>15. /\ five[1] = << low, 1 >> /\ five[2] = << a, 4 >> /\ five[3] = << b, 4 >>
         /\ five[4] = << c, 4 >> /\ five[5] = << high, 1 >>
    <3>1. five[1] = << low, 1 >> /\ five[5] = << high, 1 >>
      BY <1>2, <1>4, <2>5, <2>11 DEF Segment!Smallest, Segment!Largest
    <3>2. five[2] = << a, 4 >> /\ five[3] = << b, 4 >> /\ five[4] = << c, 4 >>
      BY <1>2, <2>6, <2>7, <2>11
    <3> QED BY <3>1, <3>2
  <2>16. \A i \in 1..5 : five[i][1] \in Nat /\ five[i][2] \in Nat \ {0}
    <3>1. \A i \in 1..5 : i = 1 \/ i = 2 \/ i = 3 \/ i = 4 \/ i = 5
      OBVIOUS
    <3> QED BY <2>15, <3>1
  <2>17. Segment!Ascending(five)
    <3>1. SUFFICES ASSUME NEW i \in 1..4 PROVE Segment!AtMost(five[i], five[i + 1])
      BY DEF Segment!Ascending
    <3>2. CASE i = 1
      BY <2>11, <2>13, <2>15, <3>2 DEF Segment!AtMost
    <3>3. CASE i = 2
      BY <2>12, <2>15, <3>3 DEF Segment!AtMost
    <3>4. CASE i = 3
      BY <2>12, <2>15, <3>4 DEF Segment!AtMost
    <3>5. CASE i = 4
      BY <2>14, <2>15, <3>5 DEF Segment!AtMost
    <3> QED BY <3>2, <3>3, <3>4, <3>5
  <2> QED BY <1>1, <1>4, <2>5, <2>11, <2>15, <2>16, <2>17
<1> QED BY <1>3, <1>4

\* The phase says how much of a handshake was captured so far.
LEMMA HandshakeFound ==
    ASSUME NEW seen, Len(seen) \in Nat
    PROVE  /\ Segment!Handshake(seen) \in {0, 1}
           /\ Segment!Handshake(seen) = 1 <=> Segment!HandshakeCaptured(seen)
<1> DEFINE Turned(was, m) == IF was = 0 /\ Segment!Opens(seen[m]) THEN 1
                             ELSE IF was = 1 /\ Segment!Answers(seen[m]) THEN 2
                             ELSE IF was = 2 /\ Segment!Confirms(seen[m]) THEN 3
                             ELSE was
           IsPhase(p) == p = [n \in 0..Len(seen) |->
                            IF n = 0 THEN 0
                            ELSE IF p[n - 1] = 0 /\ Segment!Opens(seen[n]) THEN 1
                            ELSE IF p[n - 1] = 1 /\ Segment!Answers(seen[n]) THEN 2
                            ELSE IF p[n - 1] = 2 /\ Segment!Confirms(seen[n]) THEN 3
                            ELSE p[n - 1]]
<1>1. PICK N \in Nat : N = Len(seen)
  OBVIOUS
<1>2. PICK turn : turn = [p \in (0..3) \X (1..N) |-> Turned(p[1], p[2])]
  OBVIOUS
<1>3. turn \in [(0..3) \X (1..N) -> 0..3]
  BY <1>2
<1>4. PICK walk \in [0..N -> 0..3] : IsWalk(walk, N, 0, turn)
  <2>1. PICK zero \in 0..3 : zero = 0
    OBVIOUS
  <2>2. \E walk \in [0..N -> 0..3] : IsWalk(walk, N, zero, turn)
    BY <1>3, WalkExists
  <2> QED BY <2>1, <2>2
<1>5. ASSUME NEW m \in 1..N PROVE turn[<< walk[m - 1], m >>] = Turned(walk[m - 1], m)
  <2>1. m - 1 \in 0..N
    BY <1>1
  <2>2. << walk[m - 1], m >> \in (0..3) \X (1..N)
    BY <1>4, <2>1
  <2> HIDE DEF Turned
  <2> QED BY <1>2, <2>2
<1>6. walk = [m \in 0..N |-> IF m = 0 THEN 0 ELSE Turned(walk[m - 1], m)]
  <2>1. \A m \in 0..N : m # 0 => m \in 1..N
    OBVIOUS
  <2> HIDE DEF Turned
  <2> QED BY <1>4, <1>5, <2>1 DEF IsWalk
<1>7. IsPhase(walk)
  BY <1>1, <1>6
<1>8. PICK phase : IsPhase(phase) /\ Segment!Handshake(seen) = IF phase[N] = 3 THEN 1 ELSE 0
  <2>1. PICK p : p = CHOOSE r : IsPhase(r)
    OBVIOUS
  <2>2. IsPhase(p)
    <3> HIDE DEF IsPhase
    <3> QED BY <1>7, <2>1
  <2>3. Segment!Handshake(seen) = IF (CHOOSE r : IsPhase(r))[Len(seen)] = 3 THEN 1 ELSE 0
    BY DEF Segment!Handshake
  <2>4. Segment!Handshake(seen) = IF p[N] = 3 THEN 1 ELSE 0
    BY <1>1, <2>1, <2>3
  <2> HIDE DEF IsPhase
  <2> QED BY <2>2, <2>4
<1>9. phase[0] = 0 /\ \A m \in 1..N : phase[m] = Turned(phase[m - 1], m)
  <2>1. 0 \in 0..N /\ \A m \in 1..N : m \in 0..N /\ m # 0
    OBVIOUS
  <2>2. phase[0] = 0
    BY <1>1, <1>8, <2>1
  <2>3. ASSUME NEW m \in 1..N PROVE phase[m] = Turned(phase[m - 1], m)
    BY <1>1, <1>8, <2>1
  <2> QED BY <2>2, <2>3
<1> DEFINE One(m) == \E i \in 1..m : Segment!Opens(seen[i])
           Two(m) == \E i, j \in 1..m : i < j /\ Segment!Opens(seen[i]) /\ Segment!Answers(seen[j])
           Three(m) == \E i, j, k \in 1..m :
                i < j /\ j < k /\ Segment!Opens(seen[i]) /\ Segment!Answers(seen[j])
                /\ Segment!Confirms(seen[k])
           G == {m \in 0..N : /\ phase[m] \in 0..3
                              /\ phase[m] >= 1 <=> One(m)
                              /\ phase[m] >= 2 <=> Two(m)
                              /\ phase[m] = 3 <=> Three(m)}
<1>10. 0 \in G
  BY <1>9
<1>11. ASSUME NEW m \in 0..N, m # 0, m - 1 \in G PROVE m \in G
  <2>1. m # 0 /\ m \in 1..N /\ m \in 1..m /\ m \in Nat
    BY <1>11
  <2>2. \A i \in 1..m : i \in 1..(m - 1) \/ i = m
    BY <2>1
  <2>3. \A i \in 1..(m - 1) : i \in 1..m /\ i < m
    BY <2>1
  <2>4. PICK was \in 0..3 : was = phase[m - 1]
    BY <1>11
  <2>5. /\ was >= 1 <=> One(m - 1)
        /\ was >= 2 <=> Two(m - 1)
        /\ was = 3 <=> Three(m - 1)
    BY <1>11, <2>4
  <2>6. phase[m] = Turned(was, m)
    BY <1>9, <2>1, <2>4
  <2>7. One(m) <=> One(m - 1) \/ Segment!Opens(seen[m])
    BY <2>1, <2>2, <2>3
  <2>8. Two(m) <=> Two(m - 1) \/ (One(m - 1) /\ Segment!Answers(seen[m]))
    <3>1. ASSUME NEW i \in 1..m, NEW j \in 1..m, i < j PROVE i \in 1..(m - 1)
      BY <2>1, <3>1
    <3>2. ASSUME Two(m) PROVE Two(m - 1) \/ (One(m - 1) /\ Segment!Answers(seen[m]))
      <4>1. PICK i \in 1..m, j \in 1..m :
                i < j /\ Segment!Opens(seen[i]) /\ Segment!Answers(seen[j])
        BY <3>2
      <4>2. i \in 1..(m - 1)
        BY <3>1, <4>1
      <4> QED BY <2>2, <4>1, <4>2
    <3>3. ASSUME Two(m - 1) \/ (One(m - 1) /\ Segment!Answers(seen[m])) PROVE Two(m)
      BY <2>1, <2>3, <3>3
    <3> HIDE DEF One, Two
    <3> QED BY <3>2, <3>3
  <2>9. Three(m) <=> Three(m - 1) \/ (Two(m - 1) /\ Segment!Confirms(seen[m]))
    <3>1. ASSUME NEW i \in 1..m, NEW j \in 1..m, i < j PROVE i \in 1..(m - 1)
      BY <2>1, <3>1
    <3>2. ASSUME Three(m) PROVE Three(m - 1) \/ (Two(m - 1) /\ Segment!Confirms(seen[m]))
      <4>1. PICK i \in 1..m, j \in 1..m, k \in 1..m :
                /\ i < j /\ j < k /\ Segment!Opens(seen[i]) /\ Segment!Answers(seen[j])
                /\ Segment!Confirms(seen[k])
        BY <3>2
      <4>2. i \in 1..(m - 1) /\ j \in 1..(m - 1)
        BY <3>1, <4>1
      <4> QED BY <2>2, <4>1, <4>2
    <3>3. ASSUME Three(m - 1) \/ (Two(m - 1) /\ Segment!Confirms(seen[m])) PROVE Three(m)
      BY <2>1, <2>3, <3>3
    <3> HIDE DEF Two, Three
    <3> QED BY <3>2, <3>3
  <2> HIDE DEF One, Two, Three
  <2>10. was = 0 \/ was = 1 \/ was = 2 \/ was = 3
    OBVIOUS
  <2>11. Turned(was, m) \in 0..3
    BY <2>10
  <2>12. Turned(was, m) >= 1 <=> One(m)
    BY <2>5, <2>7, <2>10
  <2>13. Turned(was, m) >= 2 <=> Two(m)
    BY <2>5, <2>8, <2>10
  <2>14. Turned(was, m) = 3 <=> Three(m)
    BY <2>5, <2>9, <2>10
  <2> HIDE DEF Turned
  <2> QED BY <2>6, <2>11, <2>12, <2>13, <2>14
<1>12. 0..N \subseteq G
  <2> HIDE DEF G
  <2> QED BY <1>10, <1>11, Climb
<1>13. phase[N] = 3 <=> Three(N)
  <2>1. N \in G
    BY <1>12
  <2> QED BY <2>1
<1>14. Three(N) <=> Segment!HandshakeCaptured(seen)
  BY <1>1 DEF Segment!HandshakeCaptured
<1> HIDE DEF Three
<1> QED BY <1>8, <1>13, <1>14

LeftAt(t, r, l) ==
    /\ l \in 1..r /\ t[r] - t[l] <= Segment!BurstWindow
    /\ \A i \in 1..r : t[r] - t[i] <= Segment!BurstWindow => l <= i

\* Where the window is after the m-th time, and the largest one so far.
IsWindow(t, m, w) ==
    /\ w \in [left : Nat, largest : Nat]
    /\ m = 0 => w.left = 1 /\ w.largest = 1
    /\ m # 0 => /\ LeftAt(t, m, w.left)
                /\ \A q \in 1..m : \A l \in 1..q : LeftAt(t, q, l) => (q - l) + 1 <= w.largest
                /\ \E q \in 1..m : \E l \in 1..q : LeftAt(t, q, l) /\ (q - l) + 1 = w.largest

LeftFrom(t, w, m) ==
    Segment!Least({i \in w.left..m : t[m] - t[i] <= Segment!BurstWindow})
Moved(t, w, m) ==
    [left |-> LeftFrom(t, w, m),
     largest |-> Segment!Greatest({w.largest, (m - LeftFrom(t, w, m)) + 1})]

LEMMA LeftIsOne ==
    ASSUME NEW t, NEW r \in Nat, NEW k, NEW l, LeftAt(t, r, k), LeftAt(t, r, l)
    PROVE  k = l
<1>1. k \in 1..r /\ l \in 1..r /\ k <= l /\ l <= k
  BY DEF LeftAt
<1> QED BY <1>1

LEMMA GreaterOfTwo ==
    ASSUME NEW a \in Nat, NEW b \in Nat
    PROVE  Segment!Greatest({a, b}) = IF a >= b THEN a ELSE b
<1>1. {a, b} \in SUBSET Int
  OBVIOUS
<1>2. CASE a >= b
  <2>1. a \in {a, b} /\ \A k \in {a, b} : a >= k
    BY <1>2
  <2> QED BY <1>1, <1>2, <2>1, GreatestIs
<1>3. CASE ~(a >= b)
  <2>1. b \in {a, b} /\ \A k \in {a, b} : b >= k
    BY <1>3
  <2> QED BY <1>1, <1>3, <2>1, GreatestIs
<1> QED BY <1>2, <1>3

LEMMA WindowMoves ==
    ASSUME NEW n \in Nat, NEW t \in [1..n -> Nat],
           \A i, j \in 1..n : i <= j => t[i] <= t[j],
           NEW m \in 1..n, NEW w, IsWindow(t, m - 1, w)
    PROVE  IsWindow(t, m, Moved(t, w, m))
<1>1. PICK W \in Nat : W = Segment!BurstWindow
  BY DEF Segment!BurstWindow
<1>2. m \in Nat /\ m # 0 /\ m \in 1..m /\ \A i \in 1..m : i \in 1..n /\ t[i] \in Nat
  OBVIOUS
<1>3. PICK left \in Nat, largest \in Nat : left = w.left /\ largest = w.largest
  BY DEF IsWindow
<1>4. left \in 1..m /\ (m = 1 => left = 1 /\ largest = 1)
  <2>1. CASE m = 1
    <3>1. m - 1 = 0
      BY <2>1
    <3>2. left = 1 /\ largest = 1
      BY <1>3, <3>1 DEF IsWindow
    <3> QED BY <1>2, <2>1, <3>2
  <2>2. CASE m # 1
    <3>1. m - 1 # 0
      BY <2>2
    <3>2. left \in 1..(m - 1)
      BY <1>3, <3>1 DEF IsWindow, LeftAt
    <3> QED BY <1>2, <2>2, <3>2
  <2> QED BY <2>1, <2>2
<1>5. PICK A : A = {i \in left..m : t[m] - t[i] <= W}
  OBVIOUS
<1>6. A \in SUBSET Nat /\ A \in SUBSET Int /\ m \in A
  <2>1. m \in left..m /\ t[m] - t[m] <= W
    BY <1>1, <1>2, <1>4
  <2> QED BY <1>5, <2>1
<1>7. PICK l \in A : \A k \in A : l <= k
  <2>1. A # {}
    BY <1>6
  <2> QED BY <1>6, <2>1, LeastOf
<1>8. Segment!Least(A) = l
  BY <1>6, <1>7, LeastIs
<1>9. LeftFrom(t, w, m) = l
  BY <1>1, <1>3, <1>5, <1>8 DEF LeftFrom
<1>10. l \in left..m /\ t[m] - t[l] <= W
  BY <1>5
<1>11. l \in 1..m
  BY <1>4, <1>10
<1>12. ASSUME NEW i \in 1..m, t[m] - t[i] <= W PROVE l <= i
  <2>1. CASE left <= i
    <3>1. i \in A
      BY <1>5, <1>12, <2>1
    <3> QED BY <1>7, <3>1
  <2>2. CASE ~(left <= i)
    <3>1. i < left /\ m # 1
      BY <1>4, <2>2
    <3>2. m - 1 # 0 /\ m - 1 \in 1..n /\ i \in 1..(m - 1) /\ m - 1 <= m
      BY <1>4, <3>1
    <3>3. t[m - 1] <= t[m] /\ t[m - 1] \in Nat /\ t[m] \in Nat /\ t[i] \in Nat
      BY <1>2, <3>2
    <3>4. t[m - 1] - t[i] <= W
      BY <1>12, <3>3
    <3>5. LeftAt(t, m - 1, left)
      BY <1>3, <3>2 DEF IsWindow
    <3>6. left <= i
      BY <1>1, <3>2, <3>4, <3>5 DEF LeftAt
    <3> QED BY <2>2, <3>6
  <2> QED BY <2>1, <2>2
<1>13. LeftAt(t, m, l)
  BY <1>1, <1>10, <1>11, <1>12 DEF LeftAt
<1>14. PICK size \in Nat : size = (m - l) + 1
  BY <1>11
<1>15. PICK most \in Nat : most = IF largest >= size THEN largest ELSE size
  OBVIOUS
<1>16. Moved(t, w, m) = [left |-> l, largest |-> most]
  BY <1>3, <1>9, <1>14, <1>15, GreaterOfTwo DEF Moved
<1>17. ASSUME NEW q \in 1..m, NEW k \in 1..q, LeftAt(t, q, k) PROVE (q - k) + 1 <= most
  <2>1. CASE q = m
    <3>1. k = l
      BY <1>2, <1>13, <1>17, <2>1, LeftIsOne
    <3> QED BY <1>14, <1>15, <2>1, <3>1
  <2>2. CASE q # m
    <3>1. q \in 1..(m - 1) /\ m - 1 # 0
      BY <1>2, <2>2
    <3>2. (q - k) + 1 <= largest
      BY <1>3, <1>17, <3>1 DEF IsWindow
    <3> QED BY <1>15, <3>2
  <2> QED BY <2>1, <2>2
<1>18. \E q \in 1..m : \E k \in 1..q : LeftAt(t, q, k) /\ (q - k) + 1 = most
  <2>1. CASE most = size
    BY <1>2, <1>11, <1>13, <1>14, <2>1
  <2>2. CASE most # size
    <3>1. most = largest /\ m # 1
      <4>1. most = largest /\ ~(size >= largest)
        BY <1>15, <2>2
      <4>2. size >= 1
        BY <1>11, <1>14
      <4> QED BY <1>4, <4>1, <4>2
    <3>2. m - 1 # 0 /\ \A q \in 1..(m - 1) : q \in 1..m
      BY <1>2, <3>1
    <3>3. \E q \in 1..(m - 1) : \E k \in 1..q : LeftAt(t, q, k) /\ (q - k) + 1 = largest
      BY <1>3, <3>2 DEF IsWindow
    <3> QED BY <3>1, <3>2, <3>3
  <2> QED BY <2>1, <2>2
<1>19. PICK moved : moved = [left |-> l, largest |-> most]
  OBVIOUS
<1>20. moved \in [left : Nat, largest : Nat] /\ moved.left = l /\ moved.largest = most
  BY <1>11, <1>19
<1>21. IsWindow(t, m, moved)
  BY <1>2, <1>13, <1>17, <1>18, <1>20 DEF IsWindow
<1> QED BY <1>16, <1>19, <1>21

\* The burst is the largest of the windows that end with some time.
LEMMA BurstIsLargest ==
    ASSUME NEW x \in Seq(Nat), x # << >>, NEW t, t = Segment!Sorted(x)
    PROVE  \E w : IsWindow(t, Len(x), w) /\ Segment!Burst(x) = w.largest
<1> DEFINE First == [left |-> 1, largest |-> 1]
           IsWindows(p) == p = [r \in 0..Len(x) |-> IF r = 0 THEN First ELSE Moved(t, p[r - 1], r)]
<1>1. PICK N \in Nat : N = Len(x)
  OBVIOUS
<1>2. IsOrder(t, x)
  BY SortedOrders
<1>3. t \in [1..N -> Nat]
  <2>1. t \in Seq(Nat) /\ Len(t) = N
    BY <1>1, <1>2 DEF IsOrder
  <2> QED BY <2>1
<1>4. \A i, j \in 1..N : i <= j => t[i] <= t[j]
  BY <1>1, <1>2, OrderAscends
<1>5. PICK X : X = [left : Nat, largest : Nat]
  OBVIOUS
<1>6. PICK first \in X : first = First
  BY <1>5
<1>7. PICK turn : turn = [p \in X \X (1..N) |->
                            IF Moved(t, p[1], p[2]) \in X THEN Moved(t, p[1], p[2]) ELSE first]
  OBVIOUS
<1>8. turn \in [X \X (1..N) -> X]
  BY <1>7
<1>9. PICK walk \in [0..N -> X] : IsWalk(walk, N, first, turn)
  BY <1>8, WalkExists
<1>10. IsWindow(t, 0, first)
  BY <1>5, <1>6 DEF IsWindow
<1>11. ASSUME NEW m \in 1..N, IsWindow(t, m - 1, walk[m - 1])
       PROVE  walk[m] = Moved(t, walk[m - 1], m) /\ IsWindow(t, m, walk[m])
  <2>1. m - 1 \in 0..N /\ m \in 0..N /\ m # 0
    BY <1>1
  <2>2. IsWindow(t, m, Moved(t, walk[m - 1], m))
    BY <1>3, <1>4, <1>11, WindowMoves
  <2>3. Moved(t, walk[m - 1], m) \in X
    BY <1>5, <2>2 DEF IsWindow
  <2>4. << walk[m - 1], m >> \in X \X (1..N)
    BY <1>9, <2>1
  <2>5. turn[<< walk[m - 1], m >>] = Moved(t, walk[m - 1], m)
    BY <1>7, <2>3, <2>4
  <2>6. walk[m] = turn[<< walk[m - 1], m >>]
    BY <1>9, <2>1 DEF IsWalk
  <2> QED BY <2>2, <2>5, <2>6
<1>12. walk[0] = first
  <2>1. 0 \in 0..N
    OBVIOUS
  <2> QED BY <1>9, <2>1 DEF IsWalk
<1>13. \A m \in 0..N : IsWindow(t, m, walk[m])
  <2> DEFINE G == {m \in 0..N : IsWindow(t, m, walk[m])}
  <2>1. 0 \in G
    BY <1>10, <1>12
  <2>2. ASSUME NEW k \in 0..N, k # 0, k - 1 \in G PROVE k \in G
    <3>1. k \in 1..N
      BY <2>2
    <3> QED BY <1>11, <2>2, <3>1
  <2>3. 0..N \subseteq G
    <3> HIDE DEF G
    <3> QED BY <2>1, <2>2, Climb
  <2> QED BY <2>3
<1>14. walk = [r \in 0..N |-> IF r = 0 THEN First ELSE Moved(t, walk[r - 1], r)]
  <2>1. ASSUME NEW r \in 0..N
        PROVE  walk[r] = IF r = 0 THEN First ELSE Moved(t, walk[r - 1], r)
    <3>1. CASE r = 0
      BY <1>6, <1>12, <3>1
    <3>2. CASE r # 0
      <4>1. r \in 1..N /\ r - 1 \in 0..N
        BY <3>2
      <4> QED BY <1>11, <1>13, <3>2, <4>1
    <3> QED BY <3>1, <3>2
  <2>2. walk = [r \in 0..N |-> walk[r]]
    BY <1>9
  <2> HIDE DEF First
  <2> QED BY <2>1, <2>2
<1>15. IsWindows(walk)
  BY <1>1, <1>14
<1>16. PICK window : IsWindows(window) /\ Segment!Burst(x) = window[N].largest
  <2>1. PICK p : p = CHOOSE r : IsWindows(r)
    OBVIOUS
  <2>2. IsWindows(p)
    <3> HIDE DEF IsWindows
    <3> QED BY <1>15, <2>1
  <2>3. Segment!Burst(x) = (CHOOSE r : IsWindows(r))[Len(x)].largest
    BY DEF Segment!Burst, Moved, LeftFrom
  <2>4. Segment!Burst(x) = p[N].largest
    BY <1>1, <2>1, <2>3
  <2> HIDE DEF IsWindows
  <2> QED BY <2>2, <2>4
<1>17. window[0] = first /\ \A m \in 1..N : window[m] = Moved(t, window[m - 1], m)
  <2>1. 0 \in 0..N /\ \A m \in 1..N : m \in 0..N /\ m # 0
    OBVIOUS
  <2>2. window[0] = first
    BY <1>1, <1>6, <1>16, <2>1
  <2>3. ASSUME NEW m \in 1..N PROVE window[m] = Moved(t, window[m - 1], m)
    BY <1>1, <1>16, <2>1
  <2> QED BY <2>2, <2>3
<1>18. \A m \in 0..N : IsWindow(t, m, window[m])
  <2> DEFINE G == {m \in 0..N : IsWindow(t, m, window[m])}
  <2>1. 0 \in G
    BY <1>10, <1>17
  <2>2. ASSUME NEW k \in 0..N, k # 0, k - 1 \in G PROVE k \in G
    <3>1. k \in 1..N /\ IsWindow(t, k - 1, window[k - 1])
      BY <2>2
    <3>2. IsWindow(t, k, Moved(t, window[k - 1], k))
      BY <1>3, <1>4, <3>1, WindowMoves
    <3> QED BY <1>17, <3>1, <3>2
  <2>3. 0..N \subseteq G
    <3> HIDE DEF G
    <3> QED BY <2>1, <2>2, Climb
  <2> QED BY <2>3
<1>19. N \in 0..N
  OBVIOUS
<1> QED BY <1>1, <1>16, <1>18, <1>19

\* The packets of a second from a on are those not above its end without those not
\* above a - 1.
LEMMA SecondCounts ==
    ASSUME NEW x \in Seq(Nat), NEW i \in 1..Len(x), NEW a \in Nat, a = x[i],
           NEW W \in Nat, W = Segment!BurstWindow
    PROVE  Segment!Cardinality(Segment!SecondFrom(x, i))
             = Segment!NotAbove(x, a + W) - Segment!NotAbove(x, a - 1)
<1>1. PICK N \in Nat : N = Len(x) /\ x \in [1..N -> Nat]
  OBVIOUS
<1>2. PICK S : S = {j \in 1..N : x[j] <= a + W}
  OBVIOUS
<1>3. PICK T : T = {j \in 1..N : x[j] <= a - 1}
  OBVIOUS
<1>4. \A j \in 1..N : x[j] \in Nat
  BY <1>1
<1>5. Segment!SecondFrom(x, i) = S \ T
  <2>1. ASSUME NEW j \in 1..N
        PROVE  x[j] >= a /\ x[j] - a <= W <=> x[j] <= a + W /\ ~(x[j] <= a - 1)
    BY <1>4
  <2>2. Segment!SecondFrom(x, i) = {j \in 1..N : x[j] >= a /\ x[j] - a <= W}
    BY <1>1 DEF Segment!SecondFrom
  <2> QED BY <1>2, <1>3, <2>1, <2>2
<1>6. S \cap T = T
  <2>1. ASSUME NEW j \in 1..N, x[j] <= a - 1 PROVE x[j] <= a + W
    BY <1>4, <2>1
  <2> QED BY <1>2, <1>3, <2>1
<1>7. IsFiniteSet(S)
  <2>1. IsFiniteSet(1..N)
    BY FS_Interval
  <2>2. S \in SUBSET (1..N)
    BY <1>2
  <2> QED BY <2>1, <2>2, FS_Subset
<1>8. Cardinality(S \ T) = Cardinality(S) - Cardinality(T)
  <2>1. Cardinality(S \ T) = Cardinality(S) - Cardinality(S \cap T)
    BY <1>7, FS_Difference
  <2> QED BY <1>6, <2>1
<1>9. Segment!NotAbove(x, a + W) = Cardinality(S) /\ Segment!NotAbove(x, a - 1) = Cardinality(T)
  BY <1>1, <1>2, <1>3, SegmentCardinality DEF Segment!NotAbove
<1> QED BY <1>5, <1>8, <1>9, SegmentCardinality

\* The burst is the densest second.
LEMMA BurstIsDensest ==
    ASSUME NEW x \in Seq(Nat), x # << >>
    PROVE  /\ Segment!DensestSecond(x, Segment!Burst(x))
           /\ Segment!Burst(x) \in 1..Len(x)
<1>1. PICK N \in Nat : N = Len(x) /\ x \in [1..N -> Nat] /\ N # 0
  <2>1. Len(x) \in Nat /\ Len(x) # 0
    BY EmptySeq
  <2> QED BY <2>1
<1>2. PICK W \in Nat : W = Segment!BurstWindow
  BY DEF Segment!BurstWindow
<1>3. PICK t : t = Segment!Sorted(x) /\ IsOrder(t, x)
  BY SortedOrders
<1>4. PICK w : IsWindow(t, N, w) /\ Segment!Burst(x) = w.largest
  BY <1>1, <1>3, BurstIsLargest
<1>5. PICK B \in Nat : B = w.largest /\ B = Segment!Burst(x)
  BY <1>4 DEF IsWindow
<1>6. /\ \A q \in 1..N : \A l \in 1..q : LeftAt(t, q, l) => (q - l) + 1 <= B
      /\ \E q \in 1..N : \E l \in 1..q : LeftAt(t, q, l) /\ (q - l) + 1 = B
  BY <1>1, <1>4, <1>5 DEF IsWindow
<1>7. \A r \in 1..N : t[r] \in Nat
  <2>1. t \in Seq(Nat) /\ Len(t) = N
    BY <1>1, <1>3 DEF IsOrder
  <2> QED BY <2>1
<1>8. \A r \in 1..N : \A v \in Int : t[r] <= v <=> r <= Segment!NotAbove(x, v)
  BY <1>1, <1>3 DEF IsOrder
<1>9. ASSUME NEW i \in 1..N, NEW a \in Nat, a = x[i],
             NEW low, NEW high, low = Segment!NotAbove(x, a - 1), high = Segment!NotAbove(x, a + W)
      PROVE  /\ low \in 0..N /\ high \in 0..N /\ low < high
             /\ Segment!Cardinality(Segment!SecondFrom(x, i)) = high - low
  <2>1. low \in 0..N /\ high \in 0..N
    <3>1. a - 1 \in Int /\ a + W \in Int
      OBVIOUS
    <3>2. Segment!NotAbove(x, a - 1) \in 0..N /\ Segment!NotAbove(x, a + W) \in 0..N
      BY <1>1, <3>1, NotAboveCounts
    <3> QED BY <1>9, <3>2
  <2>2. Segment!Cardinality(Segment!SecondFrom(x, i)) = high - low
    BY <1>1, <1>2, <1>9, SecondCounts
  <2>3. low < high
    <3>1. PICK k \in Nat : k = Segment!NotAbove(x, a) /\ k <= high
      <4>1. a \in Int /\ a + W \in Int /\ a <= a + W
        OBVIOUS
      <4>2. Segment!NotAbove(x, a) \in 0..N /\ Segment!NotAbove(x, a) <= Segment!NotAbove(x, a + W)
        BY <1>1, <4>1, NotAboveCounts
      <4> QED BY <1>9, <4>2
    <3>2. SUFFICES ASSUME ~(low < high) PROVE FALSE
      OBVIOUS
    <3>3. k <= low /\ low \in 0..N
      BY <2>1, <3>1, <3>2
    <3>4. k >= 1
      <4>1. a \in Int /\ x[i] <= a /\ i \in 1..Len(x)
        BY <1>1, <1>9
      <4> QED BY <3>1, <4>1, NotAboveCounts
    <3>5. k \in 1..N
      BY <3>1, <3>3, <3>4
    <3>6. \A v \in Int : t[k] <= v <=> k <= Segment!NotAbove(x, v)
      BY <1>8, <3>5
    <3>7. a - 1 \in Int /\ k <= Segment!NotAbove(x, a - 1)
      BY <1>9, <3>3
    <3>8. t[k] <= a - 1
      BY <3>6, <3>7
    <3>9. FALSE
      <4>1. PICK S : S = {j \in 1..N : x[j] <= a}
        OBVIOUS
      <4>2. PICK T : T = {j \in 1..N : x[j] <= a - 1}
        OBVIOUS
      <4>3. IsFiniteSet(S) /\ T \in SUBSET S
        <5>1. IsFiniteSet(1..N) /\ S \in SUBSET (1..N)
          <6>1. IsFiniteSet(1..N)
            BY FS_Interval
          <6> QED BY <4>1, <6>1
        <5>2. ASSUME NEW j \in 1..N, x[j] <= a - 1 PROVE x[j] <= a
          <6>1. x[j] \in Nat
            BY <1>1
          <6> QED BY <5>2, <6>1
        <5> QED BY <4>1, <4>2, <5>1, <5>2, FS_Subset
      <4>4. Cardinality(S) = k /\ Cardinality(T) = low
        BY <1>1, <1>9, <3>1, <4>1, <4>2, SegmentCardinality DEF Segment!NotAbove
      <4>5. Cardinality(T) <= Cardinality(S) /\ (Cardinality(S) = Cardinality(T) => S = T)
        BY <4>3, FS_Subset
      <4>6. S = T
        BY <3>1, <3>3, <4>4, <4>5
      <4>7. i \in S /\ i \notin T
        BY <1>9, <4>1, <4>2
      <4> QED BY <4>6, <4>7
    <3> QED BY <3>9
  <2> QED BY <2>1, <2>2, <2>3
<1>10. ASSUME NEW i \in 1..N PROVE Segment!Cardinality(Segment!SecondFrom(x, i)) <= B
  <2>1. PICK a \in Nat : a = x[i]
    BY <1>1
  <2>2. PICK low, high : low = Segment!NotAbove(x, a - 1) /\ high = Segment!NotAbove(x, a + W)
    OBVIOUS
  <2>3. /\ low \in 0..N /\ high \in 0..N /\ low < high
        /\ Segment!Cardinality(Segment!SecondFrom(x, i)) = high - low
    BY <1>9, <2>1, <2>2
  <2>4. high \in 1..N /\ low + 1 \in 1..N /\ low + 1 <= high /\ low + 1 \in 1..high
    BY <2>3
  <2>5. t[high] <= a + W /\ t[high] \in Nat
    BY <1>7, <1>8, <2>2, <2>3, <2>4
  <2>6. ~(t[low + 1] <= a - 1) /\ t[low + 1] \in Nat
    <3>1. ~(low + 1 <= Segment!NotAbove(x, a - 1))
      BY <2>2, <2>3
    <3>2. a - 1 \in Int
      OBVIOUS
    <3> QED BY <1>7, <1>8, <2>4, <3>1, <3>2
  <2>7. t[high] - t[low + 1] <= W
    BY <2>5, <2>6
  <2>8. PICK A : A = {k \in 1..high : t[high] - t[k] <= W}
    OBVIOUS
  <2>9. A \in SUBSET Nat /\ low + 1 \in A
    BY <2>4, <2>7, <2>8
  <2>10. PICK l \in A : \A k \in A : l <= k
    <3>1. A # {}
      BY <2>9
    <3> QED BY <2>9, <3>1, LeastOf
  <2>11. l \in 1..high /\ LeftAt(t, high, l)
    BY <1>2, <2>8, <2>10 DEF LeftAt
  <2>12. (high - l) + 1 <= B
    BY <1>6, <2>4, <2>11
  <2>13. l <= low + 1
    BY <2>9, <2>10
  <2> QED BY <2>3, <2>11, <2>12, <2>13
<1>11. \E i \in 1..N : Segment!Cardinality(Segment!SecondFrom(x, i)) = B
  <2>1. PICK q \in 1..N : \E l \in 1..q : LeftAt(t, q, l) /\ (q - l) + 1 = B
    BY <1>6
  <2>2. PICK l \in 1..q : LeftAt(t, q, l) /\ (q - l) + 1 = B
    BY <2>1
  <2>3. l \in 1..N
    BY <2>1, <2>2
  <2>4. PICK i \in 1..N : t[l] = x[i]
    BY <1>1, <1>3, <2>3 DEF IsOrder
  <2>5. PICK a \in Nat : a = x[i] /\ a = t[l]
    BY <1>7, <2>3, <2>4
  <2>6. PICK low, high : low = Segment!NotAbove(x, a - 1) /\ high = Segment!NotAbove(x, a + W)
    OBVIOUS
  <2>7. /\ low \in 0..N /\ high \in 0..N /\ low < high
        /\ Segment!Cardinality(Segment!SecondFrom(x, i)) = high - low
    <3>1. a = x[i]
      BY <2>5
    <3> QED BY <1>9, <2>6, <3>1
  <2>8. q <= high
    <3>1. t[q] \in Nat /\ t[q] - a <= W
      BY <1>2, <1>7, <2>2, <2>5 DEF LeftAt
    <3>2. t[q] <= a + W /\ a + W \in Int
      BY <3>1
    <3> QED BY <1>8, <2>6, <3>2
  <2>9. low < l
    <3>1. ~(t[l] <= a - 1) /\ a - 1 \in Int
      BY <2>5
    <3>2. ~(l <= Segment!NotAbove(x, a - 1))
      BY <1>8, <2>3, <3>1
    <3> QED BY <2>6, <2>7, <3>2
  <2>10. high - low <= B
    BY <1>10, <2>7
  <2>11. high - low = B
    BY <2>2, <2>7, <2>8, <2>9, <2>10
  <2> QED BY <2>7, <2>11
<1>12. B \in 1..N
  <2>1. PICK q \in 1..N : \E l \in 1..q : (q - l) + 1 = B
    BY <1>6
  <2> QED BY <2>1
<1> QED BY <1>1, <1>5, <1>10, <1>11, <1>12 DEF Segment!DensestSecond

\* A fraction that is not negative.
IsFraction(x) == x[1] \in Nat /\ x[2] \in Nat \ {0}

LEMMA FractionsAreAmounts ==
    ASSUME NEW x, IsFraction(x)
    PROVE  x[2] # 0 /\ Segment!AtMost(<< 0, 1 >>, x)
BY DEF IsFraction, Segment!AtMost

LEMMA RatioIsFraction ==
    ASSUME NEW a \in Nat, NEW b \in Nat
    PROVE  /\ IsFraction(Segment!Ratio(a, b))
           /\ a <= b => Segment!AtMost(Segment!Ratio(a, b), << 1, 1 >>)
BY DEF IsFraction, Segment!Ratio, Segment!AtMost

LEMMA SumIsCounted ==
    ASSUME NEW x \in Seq(Nat)
    PROVE  Segment!Sum(x) \in Nat /\ (x = << >> => Segment!Sum(x) = 0)
<1>1. PICK N \in Nat : N = Len(x) /\ x \in [1..N -> Nat] /\ x \in Seq(Int)
  OBVIOUS
<1>2. PICK P : PartialSums(P, x) /\ Segment!Sum(x) = P[N]
  BY <1>1, SumUnfolds
<1> DEFINE G == {m \in 0..N : P[m] \in Nat}
<1>3. 0 \in G
  BY <1>2 DEF PartialSums
<1>4. ASSUME NEW k \in 0..N, k # 0, k - 1 \in G PROVE k \in G
  <2>1. k # 0 /\ k \in 1..N /\ P[k - 1] \in Nat /\ x[k] \in Nat
    BY <1>1, <1>4
  <2>2. P[k] = P[k - 1] + x[k]
    BY <1>1, <1>2, <2>1 DEF PartialSums
  <2>3. P[k] \in Nat
    BY <2>1, <2>2
  <2> QED BY <2>3
<1>5. 0..N \subseteq G
  <2> HIDE DEF G
  <2> QED BY <1>3, <1>4, Climb
<1>6. N \in G
  BY <1>5
<1>7. x = << >> => N = 0
  BY <1>1
<1> QED BY <1>2, <1>6, <1>7 DEF PartialSums

LEMMA MeanIsFraction ==
    ASSUME NEW x \in Seq(Nat)
    PROVE  IsFraction(Segment!Mean(x)) /\ Segment!Mean(x)[1] = Segment!Sum(x)
<1>1. Segment!Sum(x) \in Nat /\ Len(x) \in Nat
  BY SumIsCounted
<1>2. IsFraction(Segment!Mean(x))
  BY <1>1, RatioIsFraction DEF Segment!Mean
<1>3. CASE Len(x) = 0
  <2>1. x = << >>
    BY <1>3, EmptySeq
  <2>2. Segment!Sum(x) = 0
    BY <2>1, SumIsCounted
  <2> QED BY <1>2, <1>3, <2>2 DEF Segment!Mean, Segment!Ratio
<1>4. CASE Len(x) # 0
  BY <1>2, <1>4 DEF Segment!Mean, Segment!Ratio
<1> QED BY <1>3, <1>4

\* The mean lies between the least and the greatest.
LEMMA MeanIsBetween ==
    ASSUME NEW x \in Seq(Nat), x # << >>
    PROVE  /\ Segment!AtMost(Segment!Smallest(x), Segment!Mean(x))
           /\ Segment!AtMost(Segment!Mean(x), Segment!Largest(x))
<1>1. PICK N \in Nat : N = Len(x) /\ x \in [1..N -> Nat] /\ N # 0 /\ x \in Seq(Int)
  <2>1. Len(x) \in Nat /\ Len(x) # 0 /\ x \in Seq(Int)
    BY EmptySeq
  <2> QED BY <2>1
<1>2. PICK t : t = Segment!Sorted(x) /\ IsOrder(t, x)
  BY SortedOrders
<1>3. /\ t[1] = Segment!Least(Segment!Values(x)) /\ t[N] = Segment!Greatest(Segment!Values(x))
      /\ \A i \in 1..N : t[1] <= x[i] /\ x[i] <= t[N]
  BY <1>1, <1>2, OrderAscends
<1>4. PICK low \in Int, high \in Int : low = t[1] /\ high = t[N]
  <2>1. t \in Seq(Nat) /\ Len(t) = N
    BY <1>1, <1>2 DEF IsOrder
  <2>2. t[1] \in Int /\ t[N] \in Int
    BY <1>1, <2>1
  <2> QED BY <2>2
<1>5. \A i \in 1..Len(x) : low <= x[i] /\ x[i] <= high
  BY <1>1, <1>3, <1>4
<1>6. PICK sum \in Int : sum = Segment!Sum(x) /\ N * low <= sum /\ sum <= N * high
  BY <1>1, <1>5, SumIsBetween
<1>7. Segment!Mean(x) = << sum, N >>
  BY <1>1, <1>6 DEF Segment!Mean, Segment!Ratio
<1>8. Segment!Smallest(x) = << low, 1 >> /\ Segment!Largest(x) = << high, 1 >>
  BY <1>3, <1>4 DEF Segment!Smallest, Segment!Largest
<1>9. low * N <= sum * 1 /\ sum * 1 <= high * N
  BY <1>6
<1> QED BY <1>7, <1>8, <1>9 DEF Segment!AtMost

LEMMA VarianceIsFraction ==
    ASSUME NEW x \in Seq(Nat)
    PROVE  /\ IsFraction(Segment!Variance(x))
           /\ Len(x) >= 2 /\ Segment!Variance(x)[1] = 0
                => Segment!Smallest(x) = Segment!Largest(x)
<1>1. PICK N \in Nat : N = Len(x) /\ x \in [1..N -> Nat] /\ x \in Seq(Int)
  OBVIOUS
<1>2. CASE N < 2
  <2>1. Segment!Variance(x) = << 0, 1 >> /\ ~(Len(x) >= 2)
    BY <1>1, <1>2 DEF Segment!Variance
  <2> QED BY <2>1 DEF IsFraction
<1>3. CASE ~(N < 2)
  <2>1. PICK d : d = N * Segment!Sum(Squares(x)) - Segment!Sum(x) * Segment!Sum(x)
    OBVIOUS
  <2>2. d \in Int /\ d >= 0 /\ (d = 0 => \A i \in 1..N : x[i] = x[N])
    BY <1>1, <2>1, VarianceIsCounted
  <2>3. Segment!Variance(x) = << d, N * N >>
    BY <1>1, <1>3, <2>1 DEF Segment!Variance, Squares
  <2>4. PICK square \in Nat : square = N * N /\ square # 0
    <3>1. N * N \in Nat
      OBVIOUS
    <3>2. N * N # 0
      <4>1. N * N = 0 => N = 0
        BY SquaresAreCounted
      <4> QED BY <1>3, <4>1
    <3> QED BY <3>1, <3>2
  <2>5. IsFraction(Segment!Variance(x))
    BY <2>2, <2>3, <2>4 DEF IsFraction
  <2>6. ASSUME d = 0 PROVE Segment!Smallest(x) = Segment!Largest(x)
    <3>1. x # << >> /\ N \in 1..N
      BY <1>1, <1>3
    <3>2. PICK v \in Int : v = x[N]
      BY <1>1, <3>1
    <3>3. Segment!Values(x) = {v}
      BY <1>1, <2>2, <2>6, <3>1, <3>2 DEF Segment!Values
    <3>4. v \in {v} /\ {v} \in SUBSET Int /\ (\A k \in {v} : v <= k) /\ (\A k \in {v} : v >= k)
      BY <3>2
    <3>5. Segment!Least({v}) = v
      BY <3>4, LeastIs
    <3>6. Segment!Greatest({v}) = v
      BY <3>4, GreatestIs
    <3> QED BY <3>1, <3>3, <3>5, <3>6 DEF Segment!Smallest, Segment!Largest
  <2> QED BY <2>3, <2>5, <2>6
<1> QED BY <1>2, <1>3

\* The gaps between the sorted times cover them.
LEMMA IatsCover ==
    ASSUME NEW x \in Seq(Nat), NEW iats, iats = Segment!Iats(x)
    PROVE  /\ iats \in Seq(Nat)
           /\ x # << >> => Segment!Sum(iats) = Segment!Greatest(Segment!Values(x))
                                               - Segment!Least(Segment!Values(x))
<1>1. CASE x = << >>
  BY <1>1 DEF Segment!Iats
<1>2. CASE x # << >>
  <2>1. PICK N \in Nat : N = Len(x) /\ N # 0
    BY <1>2, EmptySeq
  <2>2. PICK t : t = Segment!Sorted(x) /\ IsOrder(t, x)
    BY SortedOrders
  <2>3. t \in Seq(Int) /\ Len(t) = N /\ t # << >>
    <3>1. t \in Seq(Nat) /\ Len(t) = N
      BY <2>1, <2>2 DEF IsOrder
    <3>2. t \in Seq(Int)
      BY <3>1
    <3> QED BY <2>1, <3>1, <3>2
  <2>4. \A i, j \in 1..N : i <= j => t[i] <= t[j]
    BY <1>2, <2>1, <2>2, OrderAscends
  <2>5. \A i \in 1..(Len(t) - 1) : t[i] <= t[i + 1]
    <3>1. \A i \in 1..(N - 1) : i \in 1..N /\ i + 1 \in 1..N /\ i <= i + 1
      BY <2>1
    <3> QED BY <2>3, <2>4, <3>1
  <2>6. /\ Segment!Gaps(t) \in Seq(Nat)
        /\ Segment!Sum(Segment!Gaps(t)) = t[Len(t)] - t[1]
    BY <2>3, <2>5, GapsAddUp
  <2>7. t[1] = Segment!Least(Segment!Values(x)) /\ t[N] = Segment!Greatest(Segment!Values(x))
    BY <1>2, <2>1, <2>2, OrderAscends
  <2>8. iats = Segment!Gaps(t)
    BY <1>2, <2>2 DEF Segment!Iats
  <2> QED BY <1>2, <2>3, <2>6, <2>7, <2>8
<1> QED BY <1>1, <1>2

Senders == {packet.from : packet \in ObservedPackets}
SeenFlags == [direction : Segment!Directions, flags : {packet.flags : packet \in ObservedPackets}]

IsSegment(s) ==
    s \in [protocol : FlowProtocols, forward_source : Senders, first_seen : Int, last_seen : Int,
           sizes : [Segment!Directions -> Seq(Nat)], timestamps : [Segment!Directions -> Seq(Nat)],
           packet_sizes : Seq(Nat), packet_timestamps : Seq(Nat),
           flag_counts : [Segment!Flags -> Nat], observations : Seq(SeenFlags),
           finalized : BOOLEAN]

\* first and last are the outermost of the times.
Spans(times, first, last) ==
    IF times = << >> THEN first = -1 /\ last = -1
    ELSE /\ \E i \in 1..Len(times) : times[i] = first
         /\ \E i \in 1..Len(times) : times[i] = last
         /\ \A i \in 1..Len(times) : first <= times[i] /\ times[i] <= last

\* What add keeps of the packets of a segment agrees.
PacketsAgree(s) ==
    /\ IsSegment(s)
    /\ Len(s.packet_sizes) = Segment!PacketCount(s)
    /\ Len(s.packet_timestamps) = Segment!PacketCount(s)
    /\ Spans(s.packet_timestamps, s.first_seen, s.last_seen)
    /\ s.protocol # "tcp" => s.observations = << >>
    /\ \A f \in Segment!Flags :
        /\ s.flag_counts[f] <= Segment!PacketCount(s)
        /\ s.protocol # "tcp" => s.flag_counts[f] = 0

LEMMA SpanIsDistance ==
    ASSUME NEW x \in Seq(Nat), x # << >>, NEW first \in Int, NEW last \in Int, Spans(x, first, last)
    PROVE  /\ first = Segment!Least(Segment!Values(x)) /\ last = Segment!Greatest(Segment!Values(x))
           /\ Segment!NotNegative(last - first) = last - first /\ last - first \in Nat
<1>1. PICK V : V = Segment!Values(x)
  OBVIOUS
<1>2. V \in SUBSET Int /\ \A v \in V : \E i \in 1..Len(x) : v = x[i]
  BY <1>1 DEF Segment!Values
<1>3. first \in V /\ last \in V
  BY <1>1 DEF Spans, Segment!Values
<1>4. \A v \in V : first <= v /\ last >= v
  <2>1. \A i \in 1..Len(x) : first <= x[i] /\ x[i] <= last /\ x[i] \in Int
    BY DEF Spans
  <2> QED BY <1>2, <2>1
<1>5. first = Segment!Least(V)
  BY <1>2, <1>3, <1>4, LeastIs
<1>6. last = Segment!Greatest(V)
  BY <1>2, <1>3, <1>4, GreatestIs
<1>7. last - first \in Nat
  BY <1>3, <1>4
<1>8. Segment!NotNegative(last - first) = last - first
  BY <1>7 DEF Segment!NotNegative
<1> QED BY <1>1, <1>5, <1>6, <1>7, <1>8

\* The features of a segment, with what the others are made of named.
LEMMA ExtractedSound ==
    ASSUME NEW s, PacketsAgree(s), Segment!PacketCount(s) > 0
    PROVE  LET f == Segment!Extracted(s)
           IN  f.result = "features" /\ Segment!InBounds(f) /\ Segment!AreOf(f, s)
<1>1. PICK forward \in Seq(Nat), backward \in Seq(Nat), times \in Seq(Nat), sizes \in Seq(Nat) :
        /\ forward = s.sizes["forward"] /\ backward = s.sizes["backward"]
        /\ times = s.packet_timestamps /\ sizes = s.packet_sizes
  <2>1. /\ s.sizes \in [Segment!Directions -> Seq(Nat)]
        /\ s.packet_timestamps \in Seq(Nat) /\ s.packet_sizes \in Seq(Nat)
    BY DEF PacketsAgree, IsSegment
  <2>2. s.sizes["forward"] \in Seq(Nat) /\ s.sizes["backward"] \in Seq(Nat)
    BY <2>1 DEF Segment!Directions
  <2> QED BY <2>1, <2>2
<1>2. PICK n \in Nat : /\ n = Segment!PacketCount(s) /\ n = Len(forward) + Len(backward) /\ n > 0
                       /\ Len(times) = n /\ Len(sizes) = n
  <2>1. Segment!PacketCount(s) = Len(forward) + Len(backward)
    BY <1>1 DEF Segment!PacketCount
  <2>2. Len(forward) \in Nat /\ Len(backward) \in Nat
    OBVIOUS
  <2>3. Len(times) = Segment!PacketCount(s) /\ Len(sizes) = Segment!PacketCount(s)
    BY <1>1 DEF PacketsAgree
  <2> QED BY <2>1, <2>2, <2>3
<1>3. times # << >> /\ sizes # << >>
  BY <1>2
<1>4. PICK first \in Int, last \in Int :
        first = s.first_seen /\ last = s.last_seen /\ Spans(times, first, last)
  BY <1>1 DEF PacketsAgree, IsSegment
<1>5. PICK duration \in Nat :
        /\ duration = Segment!NotNegative(s.last_seen - s.first_seen)
        /\ duration = Segment!Greatest(Segment!Values(times)) - Segment!Least(Segment!Values(times))
  <2>1. /\ first = Segment!Least(Segment!Values(times))
        /\ last = Segment!Greatest(Segment!Values(times))
        /\ Segment!NotNegative(last - first) = last - first /\ last - first \in Nat
    BY <1>3, <1>4, SpanIsDistance
  <2> QED BY <1>4, <2>1
<1>6. PICK iats \in Seq(Nat) : iats = Segment!Iats(times) /\ Segment!Sum(iats) = duration
  BY <1>3, <1>5, IatsCover
<1>7. PICK there \in Seq(Nat), back \in Seq(Nat) :
        there = Segment!Iats(s.timestamps["forward"]) /\ back = Segment!Iats(s.timestamps["backward"])
  <2>1. s.timestamps \in [Segment!Directions -> Seq(Nat)]
    BY DEF PacketsAgree, IsSegment
  <2>2. s.timestamps["forward"] \in Seq(Nat) /\ s.timestamps["backward"] \in Seq(Nat)
    BY <2>1 DEF Segment!Directions
  <2>3. Segment!Iats(s.timestamps["forward"]) \in Seq(Nat)
    BY <2>2, IatsCover
  <2>4. Segment!Iats(s.timestamps["backward"]) \in Seq(Nat)
    BY <2>2, IatsCover
  <2> QED BY <2>3, <2>4
<1>8. PICK handshake \in {0, 1} :
        /\ handshake = IF s.protocol = "tcp" THEN Segment!Handshake(s.observations) ELSE 0
        /\ handshake = 1 <=> Segment!HandshakeCaptured(s.observations)
  <2>1. Len(s.observations) \in Nat
    BY DEF PacketsAgree, IsSegment
  <2>2. /\ Segment!Handshake(s.observations) \in {0, 1}
        /\ Segment!Handshake(s.observations) = 1 <=> Segment!HandshakeCaptured(s.observations)
    BY <2>1, HandshakeFound
  <2>3. s.protocol # "tcp" => ~Segment!HandshakeCaptured(s.observations)
    <3>1. ASSUME s.observations = << >> PROVE ~Segment!HandshakeCaptured(s.observations)
      BY <3>1 DEF Segment!HandshakeCaptured
    <3> QED BY <3>1 DEF PacketsAgree
  <2> QED BY <2>2, <2>3
<1>9. PICK ahead \in Nat, behind \in Nat : ahead = Segment!Sum(forward) /\ behind = Segment!Sum(backward)
  <2>1. Segment!Sum(forward) \in Nat
    BY SumIsCounted
  <2>2. Segment!Sum(backward) \in Nat
    BY SumIsCounted
  <2> QED BY <2>1, <2>2
<1>10. PICK imbalance \in Nat :
        /\ imbalance = IF Segment!Sum(forward) - Segment!Sum(backward) < 0
                       THEN -(Segment!Sum(forward) - Segment!Sum(backward))
                       ELSE Segment!Sum(forward) - Segment!Sum(backward)
        /\ imbalance <= ahead + behind
  <2>1. PICK d \in Int : d = ahead - behind
    OBVIOUS
  <2>2. (IF d < 0 THEN -d ELSE d) \in Nat /\ (IF d < 0 THEN -d ELSE d) <= ahead + behind
    BY <2>1
  <2> QED BY <1>9, <2>1, <2>2
<1>11. PICK burst \in Nat : burst = Segment!Burst(times) /\ burst <= n
                            /\ Segment!DensestSecond(times, burst)
  <2>1. Segment!DensestSecond(times, Segment!Burst(times)) /\ Segment!Burst(times) \in 1..n
    BY <1>2, <1>3, BurstIsDensest
  <2> QED BY <2>1
<1>12. \A flag \in Segment!Flags : s.flag_counts[flag] \in Nat /\ s.flag_counts[flag] <= n
                                   /\ (s.protocol # "tcp" => s.flag_counts[flag] = 0)
  BY <1>2 DEF PacketsAgree, IsSegment
<1>13. PICK f : f = Segment!Extracted(s)
  OBVIOUS
<1>14. /\ f.result = "features"
       /\ f.packets_per_second = Segment!Ratio(1000 * n, duration)
       /\ f.forward_backward_packet_ratio = Segment!Ratio(Len(forward), Len(backward))
       /\ f.packet_size = Segment!Quartiles(sizes)
       /\ f.mean_packet_size = Segment!Mean(sizes)
       /\ f.std_packet_size = Segment!Variance(sizes)
       /\ f.forward_mean_packet_size = Segment!Mean(forward)
       /\ f.backward_mean_packet_size = Segment!Mean(backward)
  BY <1>1, <1>2, <1>5, <1>13 DEF Segment!Extracted
<1>15. /\ f.flow_duration = duration
       /\ f.inter_arrival_time = Segment!Quartiles(iats)
       /\ f.mean_inter_arrival_time = Segment!Mean(iats)
       /\ f.std_inter_arrival_time = Segment!Variance(iats)
       /\ f.forward_mean_iat = Segment!Mean(there)
       /\ f.backward_mean_iat = Segment!Mean(back)
  BY <1>1, <1>5, <1>6, <1>7, <1>13 DEF Segment!Extracted
<1>16. /\ f.flag_ratio = [flag \in Segment!Flags |-> Segment!Ratio(s.flag_counts[flag], n)]
       /\ f.completed_handshake_indicator = handshake
       /\ f.asymmetry_score = Segment!Ratio(imbalance, ahead + behind)
       /\ f.connection_burst_score = Segment!Ratio(burst, n)
       /\ f.periodicity_score = Segment!Irregularity(iats)
       /\ f.failed_connection_indicator = IF Segment!Failed(s, handshake) THEN 1 ELSE 0
  BY <1>1, <1>2, <1>6, <1>8, <1>9, <1>10, <1>11, <1>13 DEF Segment!Extracted
<1>17. /\ \A flag \in Segment!Flags :
            IsFraction(f.flag_ratio[flag]) /\ Segment!AtMost(f.flag_ratio[flag], << 1, 1 >>)
       /\ IsFraction(f.asymmetry_score) /\ Segment!AtMost(f.asymmetry_score, << 1, 1 >>)
       /\ IsFraction(f.connection_burst_score)
       /\ Segment!AtMost(f.connection_burst_score, << 1, 1 >>)
  <2>1. ASSUME NEW flag \in Segment!Flags
        PROVE  IsFraction(f.flag_ratio[flag]) /\ Segment!AtMost(f.flag_ratio[flag], << 1, 1 >>)
    <3>1. PICK count \in Nat : count = s.flag_counts[flag] /\ count <= n
      BY <1>12
    <3>2. f.flag_ratio[flag] = Segment!Ratio(count, n)
      BY <1>16, <3>1
    <3> QED BY <3>1, <3>2, RatioIsFraction
  <2>2. IsFraction(f.asymmetry_score) /\ Segment!AtMost(f.asymmetry_score, << 1, 1 >>)
    <3>1. PICK all \in Nat : all = ahead + behind /\ imbalance <= all
      BY <1>10
    <3>2. f.asymmetry_score = Segment!Ratio(imbalance, all)
      BY <1>16, <3>1
    <3> QED BY <3>1, <3>2, RatioIsFraction
  <2>3. /\ IsFraction(f.connection_burst_score)
        /\ Segment!AtMost(f.connection_burst_score, << 1, 1 >>)
    BY <1>11, <1>16, RatioIsFraction
  <2> QED BY <2>1, <2>2, <2>3
<1>18. \A x \in Segment!Shares(f) : IsFraction(x) /\ Segment!AtMost(x, << 1, 1 >>)
  BY <1>17 DEF Segment!Shares
<1>19. /\ \A i \in 1..5 : IsFraction(f.packet_size[i]) /\ IsFraction(f.inter_arrival_time[i])
       /\ Segment!Ascending(f.packet_size) /\ Segment!Ascending(f.inter_arrival_time)
       /\ f.packet_size[1] = Segment!Smallest(sizes) /\ f.packet_size[5] = Segment!Largest(sizes)
       /\ f.inter_arrival_time[1] = Segment!Smallest(iats)
       /\ f.inter_arrival_time[5] = Segment!Largest(iats)
  <2>1. PICK five : five = Segment!Quartiles(sizes)
    OBVIOUS
  <2>2. /\ \A i \in 1..5 : IsFraction(five[i])
        /\ Segment!Ascending(five) /\ five[1] = Segment!Smallest(sizes)
        /\ five[5] = Segment!Largest(sizes)
    <3>1. /\ \A i \in 1..5 : five[i][1] \in Nat /\ five[i][2] \in Nat \ {0}
          /\ Segment!Ascending(five)
      BY <2>1, QuartilesAscend
    <3>2. five[1] = Segment!Smallest(sizes) /\ five[5] = Segment!Largest(sizes)
      BY <2>1 DEF Segment!Quartiles
    <3> QED BY <3>1, <3>2 DEF IsFraction
  <2>3. PICK gaps : gaps = Segment!Quartiles(iats)
    OBVIOUS
  <2>4. /\ \A i \in 1..5 : IsFraction(gaps[i])
        /\ Segment!Ascending(gaps) /\ gaps[1] = Segment!Smallest(iats)
        /\ gaps[5] = Segment!Largest(iats)
    <3>1. /\ \A i \in 1..5 : gaps[i][1] \in Nat /\ gaps[i][2] \in Nat \ {0}
          /\ Segment!Ascending(gaps)
      BY <2>3, QuartilesAscend
    <3>2. gaps[1] = Segment!Smallest(iats) /\ gaps[5] = Segment!Largest(iats)
      BY <2>3 DEF Segment!Quartiles
    <3> QED BY <3>1, <3>2 DEF IsFraction
  <2> QED BY <1>14, <1>15, <2>1, <2>2, <2>3, <2>4
<1>20. /\ IsFraction(f.packets_per_second) /\ IsFraction(f.forward_backward_packet_ratio)
       /\ IsFraction(<< f.flow_duration, 1 >>)
  <2>1. PICK thousands \in Nat : thousands = 1000 * n
    OBVIOUS
  <2>2. Len(forward) \in Nat /\ Len(backward) \in Nat
    OBVIOUS
  <2>3. IsFraction(f.packets_per_second)
    BY <1>14, <2>1, RatioIsFraction
  <2>4. IsFraction(f.forward_backward_packet_ratio)
    BY <1>14, <2>2, RatioIsFraction
  <2> QED BY <1>15, <2>3, <2>4 DEF IsFraction
<1>21. /\ IsFraction(f.mean_packet_size) /\ IsFraction(f.forward_mean_packet_size)
       /\ IsFraction(f.backward_mean_packet_size) /\ IsFraction(f.mean_inter_arrival_time)
       /\ IsFraction(f.forward_mean_iat) /\ IsFraction(f.backward_mean_iat)
       /\ IsFraction(f.std_packet_size) /\ IsFraction(f.std_inter_arrival_time)
  <2>1. \A x \in Seq(Nat) : IsFraction(Segment!Mean(x)) /\ IsFraction(Segment!Variance(x))
    BY MeanIsFraction, VarianceIsFraction
  <2> QED BY <1>14, <1>15, <2>1
<1>22. \A x \in Segment!Amounts(f) : IsFraction(x)
  BY <1>19, <1>20, <1>21 DEF Segment!Amounts
<1>23. Segment!InBounds(f)
  <2>1. \A x \in Segment!Shares(f) \union Segment!Amounts(f) :
            x[2] # 0 /\ Segment!AtMost(<< 0, 1 >>, x)
    BY <1>18, <1>22, FractionsAreAmounts
  <2>2. {f.completed_handshake_indicator, f.failed_connection_indicator} \subseteq {0, 1}
    BY <1>16
  <2> QED BY <1>18, <2>1, <2>2 DEF Segment!InBounds
<1>24. f.mean_inter_arrival_time[1] = f.flow_duration
  BY <1>6, <1>15, MeanIsFraction
<1>25. /\ Segment!AtMost(f.packet_size[1], f.mean_packet_size)
       /\ Segment!AtMost(f.mean_packet_size, f.packet_size[5])
  BY <1>3, <1>14, <1>19, MeanIsBetween
<1>26. f.connection_burst_score[1] = burst
  BY <1>2, <1>16 DEF Segment!Ratio
<1>27. (f.completed_handshake_indicator = 1) <=> Segment!HandshakeCaptured(s.observations)
  BY <1>8, <1>16
<1>28. s.flag_counts["syn"] > 0 /\ f.failed_connection_indicator = 0 =>
            f.completed_handshake_indicator = 1
  <2>1. SUFFICES ASSUME s.flag_counts["syn"] > 0, f.failed_connection_indicator = 0
                 PROVE  handshake = 1
    BY <1>16
  <2>2. s.protocol = "tcp"
    <3>1. "syn" \in Segment!Flags
      BY DEF Segment!Flags
    <3> QED BY <1>12, <2>1, <3>1
  <2>3. ~Segment!Failed(s, handshake)
    BY <1>16, <2>1
  <2> QED BY <2>1, <2>2, <2>3 DEF Segment!Failed
<1>29. f.periodicity_score.score = "positive" /\ f.periodicity_score.square[1] = 0 =>
            f.inter_arrival_time[1] = f.inter_arrival_time[5]
  <2>1. SUFFICES ASSUME f.periodicity_score.score = "positive", f.periodicity_score.square[1] = 0
                 PROVE  Segment!Smallest(iats) = Segment!Largest(iats)
    BY <1>19
  <2>2. ~(Len(iats) < 3 \/ Segment!Sum(iats) = 0)
    BY <1>16, <2>1 DEF Segment!Irregularity
  <2>3. Segment!Variance(iats)[1] = 0
    BY <1>16, <2>1, <2>2 DEF Segment!Irregularity
  <2>4. Len(iats) >= 2
    <3>1. Len(iats) \in Nat
      OBVIOUS
    <3> QED BY <2>2, <3>1
  <2> QED BY <2>3, <2>4, VarianceIsFraction
<1>30. Segment!AreOf(f, s)
  BY <1>1, <1>5, <1>11, <1>15, <1>19, <1>24, <1>25, <1>26, <1>27, <1>28, <1>29 DEF Segment!AreOf
<1> QED BY <1>13, <1>14, <1>23, <1>30

SegmentInv ==
    /\ PacketsAgree(flow_state) /\ Segment!PacketCount(flow_state) \in 0..MaxFlowPackets
    /\ \/ flow_features = Segment!NotExtracted
       \/ /\ flow_state.finalized /\ Segment!PacketCount(flow_state) > 0
          /\ flow_features = Segment!Validated(Segment!Extracted(flow_state))

LEMMA SegmentInit == SegmentAssumption /\ Segment!Init => SegmentInv
<1> SUFFICES ASSUME SegmentAssumption, Segment!Init PROVE SegmentInv
  OBVIOUS
<1>1. PICK protocol \in FlowProtocols, packet \in ObservedPackets :
        flow_state = Segment!EmptyState(protocol, packet.from)
  BY DEF Segment!Init
<1>2. PICK s : s = flow_state
  OBVIOUS
<1>3. << >> \in Seq(Nat) /\ << >> \in Seq(SeenFlags) /\ Len(<< >>) = 0
  BY EmptySeq
<1>4. packet.from \in Senders
  BY DEF Senders
<1>5. IsSegment(s)
  <2>1. [d \in Segment!Directions |-> << >>] \in [Segment!Directions -> Seq(Nat)]
    BY <1>3
  <2>2. [f \in Segment!Flags |-> 0] \in [Segment!Flags -> Nat]
    OBVIOUS
  <2>3. -1 \in Int
    OBVIOUS
  <2> QED BY <1>1, <1>2, <1>3, <1>4, <2>1, <2>2, <2>3 DEF IsSegment, Segment!EmptyState
<1>6. Segment!PacketCount(s) = 0
  <2>1. s.sizes["forward"] = << >> /\ s.sizes["backward"] = << >>
    BY <1>1, <1>2 DEF Segment!EmptyState, Segment!Directions
  <2> QED BY <1>3, <2>1 DEF Segment!PacketCount
<1>7. /\ s.packet_sizes = << >> /\ s.packet_timestamps = << >> /\ s.observations = << >>
      /\ s.first_seen = -1 /\ s.last_seen = -1
      /\ \A f \in Segment!Flags : s.flag_counts[f] = 0
  BY <1>1, <1>2 DEF Segment!EmptyState
<1>8. PacketsAgree(s)
  BY <1>3, <1>5, <1>6, <1>7 DEF PacketsAgree, Spans
<1>9. flow_features = Segment!NotExtracted
  BY DEF Segment!Init
<1>10. 0 \in 0..MaxFlowPackets
  BY DEF SegmentAssumption
<1> QED BY <1>2, <1>6, <1>8, <1>9, <1>10 DEF SegmentInv

\* One more time moves the outermost ones apart.
LEMMA SpansGrow ==
    ASSUME NEW times \in Seq(Nat), NEW first \in Int, NEW last \in Int, Spans(times, first, last),
           NEW time \in Nat
    PROVE  Spans(Append(times, time), Segment!Earliest(first, time), Segment!Latest(last, time))
<1>1. PICK n \in Nat : n = Len(times)
  OBVIOUS
<1>2. PICK more \in Seq(Nat) : more = Append(times, time)
  <2>1. Append(times, time) \in Seq(Nat)
    OBVIOUS
  <2> QED BY <2>1
<1>3. /\ Len(more) = n + 1 /\ more # << >> /\ more[n + 1] = time
      /\ \A i \in 1..n : more[i] = times[i] /\ more[i] \in Nat
  BY <1>1, <1>2
<1>4. /\ \A i \in 1..(n + 1) : i \in 1..n \/ i = n + 1
      /\ \A i \in 1..n : i \in 1..(n + 1)
      /\ n + 1 \in 1..(n + 1)
  OBVIOUS
<1>5. PICK from \in Int, to \in Int :
        from = Segment!Earliest(first, time) /\ to = Segment!Latest(last, time)
  BY DEF Segment!Earliest, Segment!Latest
<1>6. CASE times = << >>
  <2>1. n = 0 /\ first = -1 /\ last = -1
    BY <1>1, <1>6 DEF Spans
  <2>2. from = time /\ to = time
    BY <1>5, <2>1 DEF Segment!Earliest, Segment!Latest
  <2>3. Spans(more, from, to)
    BY <1>3, <1>4, <2>1, <2>2 DEF Spans
  <2> QED BY <1>2, <1>5, <2>3
<1>7. CASE times # << >>
  <2>1. PICK i \in 1..n : times[i] = first
    BY <1>1, <1>7 DEF Spans
  <2>2. PICK j \in 1..n : times[j] = last
    BY <1>1, <1>7 DEF Spans
  <2>3. \A k \in 1..n : first <= more[k] /\ more[k] <= last
    BY <1>1, <1>3, <1>7 DEF Spans
  <2>4. first \in Nat /\ last \in Nat
    BY <1>1, <2>1, <2>2
  <2>5. from = (IF time < first THEN time ELSE first) /\ to = (IF time > last THEN time ELSE last)
    BY <1>5, <2>4 DEF Segment!Earliest, Segment!Latest
  <2>6. \E k \in 1..(n + 1) : more[k] = from
    BY <1>3, <1>4, <2>1, <2>5
  <2>7. \E k \in 1..(n + 1) : more[k] = to
    BY <1>3, <1>4, <2>2, <2>5
  <2>8. ASSUME NEW k \in 1..(n + 1) PROVE from <= more[k] /\ more[k] <= to
    <3>1. first <= last
      BY <1>3, <2>1, <2>3, <2>4
    <3>2. CASE k = n + 1
      BY <1>3, <2>4, <2>5, <3>2
    <3>3. CASE k \in 1..n
      <4>1. PICK m \in Nat : m = more[k] /\ first <= m /\ m <= last
        BY <1>3, <2>3, <3>3
      <4> QED BY <2>4, <2>5, <4>1
    <3> QED BY <1>4, <3>2, <3>3
  <2>9. Spans(more, from, to)
    BY <1>3, <2>6, <2>7, <2>8 DEF Spans
  <2> QED BY <1>2, <1>5, <2>9
<1> QED BY <1>6, <1>7

LEMMA SegmentAdds ==
    ASSUME SegmentAssumption, NEW s, PacketsAgree(s), NEW packet \in ObservedPackets,
           NEW moved, moved = Segment!Added(s, packet)
    PROVE  PacketsAgree(moved) /\ Segment!PacketCount(moved) = Segment!PacketCount(s) + 1
<1>1. PICK time \in Nat, bytes \in Nat : time = packet.time /\ bytes = packet.bytes
  BY DEF SegmentAssumption
<1>2. PICK d \in Segment!Directions : d = Segment!Direction(s, packet)
  BY DEF Segment!Direction, Segment!Directions
<1>3. /\ s.protocol \in FlowProtocols /\ s.forward_source \in Senders
      /\ s.first_seen \in Int /\ s.last_seen \in Int
      /\ s.sizes \in [Segment!Directions -> Seq(Nat)]
      /\ s.timestamps \in [Segment!Directions -> Seq(Nat)]
      /\ s.packet_sizes \in Seq(Nat) /\ s.packet_timestamps \in Seq(Nat)
      /\ s.flag_counts \in [Segment!Flags -> Nat] /\ s.observations \in Seq(SeenFlags)
  BY DEF PacketsAgree, IsSegment
<1>4. PICK sizes : sizes = [s.sizes EXCEPT ![d] = Append(@, bytes)]
  OBVIOUS
<1>5. PICK timestamps : timestamps = [s.timestamps EXCEPT ![d] = Append(@, time)]
  OBVIOUS
<1>6. PICK counts : counts = [f \in Segment!Flags |->
            s.flag_counts[f] + (IF s.protocol = "tcp" /\ f \in packet.flags THEN 1 ELSE 0)]
  OBVIOUS
<1>7. PICK observations : observations =
            IF s.protocol = "tcp"
            THEN Append(s.observations, [direction |-> d, flags |-> packet.flags])
            ELSE s.observations
  OBVIOUS
<1>8. PICK from \in Int, to \in Int :
        from = Segment!Earliest(s.first_seen, time) /\ to = Segment!Latest(s.last_seen, time)
  <2>1. \A seen \in Int : Segment!Earliest(seen, time) \in Int /\ Segment!Latest(seen, time) \in Int
    BY DEF Segment!Earliest, Segment!Latest
  <2>2. Segment!Earliest(s.first_seen, time) \in Int /\ Segment!Latest(s.last_seen, time) \in Int
    BY <1>3, <2>1
  <2> QED BY <2>2
<1>9. moved = [protocol |-> s.protocol, forward_source |-> s.forward_source,
               first_seen |-> from, last_seen |-> to,
               sizes |-> sizes, timestamps |-> timestamps,
               packet_sizes |-> Append(s.packet_sizes, bytes),
               packet_timestamps |-> Append(s.packet_timestamps, time),
               flag_counts |-> counts, observations |-> observations, finalized |-> FALSE]
  BY <1>1, <1>2, <1>4, <1>5, <1>6, <1>7, <1>8 DEF Segment!Added
<1>10. sizes \in [Segment!Directions -> Seq(Nat)] /\ timestamps \in [Segment!Directions -> Seq(Nat)]
  <2>1. \A e \in Segment!Directions : s.sizes[e] \in Seq(Nat) /\ s.timestamps[e] \in Seq(Nat)
    BY <1>3
  <2>2. Append(s.sizes[d], bytes) \in Seq(Nat) /\ Append(s.timestamps[d], time) \in Seq(Nat)
    BY <2>1
  <2> QED BY <1>3, <1>4, <1>5, <2>2
<1>11. /\ Append(s.packet_sizes, bytes) \in Seq(Nat)
       /\ Append(s.packet_timestamps, time) \in Seq(Nat)
       /\ Len(Append(s.packet_sizes, bytes)) = Len(s.packet_sizes) + 1
       /\ Len(Append(s.packet_timestamps, time)) = Len(s.packet_timestamps) + 1
  BY <1>3
<1>12. counts \in [Segment!Flags -> Nat]
  <2>1. \A f \in Segment!Flags : s.flag_counts[f] \in Nat
    BY <1>3
  <2> QED BY <1>6, <2>1
<1>13. observations \in Seq(SeenFlags)
  <2>1. PICK seen : seen = [direction |-> d, flags |-> packet.flags]
    OBVIOUS
  <2>2. seen \in SeenFlags
    BY <2>1 DEF SeenFlags
  <2>3. Append(s.observations, seen) \in Seq(SeenFlags)
    BY <1>3, <2>2
  <2> QED BY <1>3, <1>7, <2>1, <2>3
<1>14. IsSegment(moved)
  BY <1>3, <1>9, <1>10, <1>11, <1>12, <1>13 DEF IsSegment
<1>15. /\ moved.sizes = sizes /\ moved.packet_sizes = Append(s.packet_sizes, bytes)
       /\ moved.packet_timestamps = Append(s.packet_timestamps, time)
       /\ moved.first_seen = from /\ moved.last_seen = to /\ moved.protocol = s.protocol
       /\ moved.flag_counts = counts /\ moved.observations = observations
  BY <1>9
<1>16. Segment!PacketCount(moved) = Segment!PacketCount(s) + 1 /\ Segment!PacketCount(s) \in Nat
  <2>1. /\ "forward" \in Segment!Directions /\ "backward" \in Segment!Directions
        /\ d = "forward" \/ d = "backward"
    BY DEF Segment!Directions
  <2>2. PICK a \in Seq(Nat), b \in Seq(Nat) : a = s.sizes["forward"] /\ b = s.sizes["backward"]
    BY <1>3, <2>1
  <2>3. Len(Append(a, bytes)) = Len(a) + 1 /\ Len(Append(b, bytes)) = Len(b) + 1
        /\ Len(a) \in Nat /\ Len(b) \in Nat
    OBVIOUS
  <2>4. Segment!PacketCount(s) = Len(a) + Len(b)
    BY <2>2 DEF Segment!PacketCount
  <2>5. Segment!PacketCount(moved) = Len(sizes["forward"]) + Len(sizes["backward"])
    BY <1>15 DEF Segment!PacketCount
  <2>6. CASE d = "forward"
    <3>1. sizes["forward"] = Append(a, bytes) /\ sizes["backward"] = b
      BY <1>3, <1>4, <2>1, <2>2, <2>6
    <3> QED BY <2>3, <2>4, <2>5, <3>1
  <2>7. CASE d = "backward"
    <3>1. sizes["forward"] = a /\ sizes["backward"] = Append(b, bytes)
      BY <1>3, <1>4, <2>1, <2>2, <2>7
    <3> QED BY <2>3, <2>4, <2>5, <3>1
  <2> QED BY <2>1, <2>6, <2>7
<1>17. Spans(moved.packet_timestamps, moved.first_seen, moved.last_seen)
  <2>1. Spans(s.packet_timestamps, s.first_seen, s.last_seen)
    BY DEF PacketsAgree
  <2> QED BY <1>3, <1>8, <1>15, <2>1, SpansGrow
<1>18. ASSUME NEW f \in Segment!Flags
       PROVE  /\ counts[f] <= Segment!PacketCount(moved)
              /\ s.protocol # "tcp" => counts[f] = 0
  <2>1. PICK count \in Nat : count = s.flag_counts[f] /\ count <= Segment!PacketCount(s)
                             /\ (s.protocol # "tcp" => count = 0)
    BY <1>3 DEF PacketsAgree
  <2>2. counts[f] = count + (IF s.protocol = "tcp" /\ f \in packet.flags THEN 1 ELSE 0)
    BY <1>6, <2>1
  <2> QED BY <1>16, <2>1, <2>2
<1>19. s.protocol # "tcp" => observations = << >>
  BY <1>7 DEF PacketsAgree
<1>20. /\ Len(moved.packet_sizes) = Segment!PacketCount(moved)
       /\ Len(moved.packet_timestamps) = Segment!PacketCount(moved)
  BY <1>11, <1>15, <1>16 DEF PacketsAgree
<1> QED BY <1>14, <1>15, <1>16, <1>17, <1>18, <1>19, <1>20 DEF PacketsAgree

\* mark_finalized changes nothing but the mark.
LEMMA SegmentIsMarked ==
    ASSUME NEW s, PacketsAgree(s), NEW moved, moved = [s EXCEPT !.finalized = TRUE]
    PROVE  /\ PacketsAgree(moved) /\ moved.finalized
           /\ Segment!PacketCount(moved) = Segment!PacketCount(s)
<1>1. IsSegment(moved) /\ moved.finalized
  BY DEF PacketsAgree, IsSegment
<1>2. /\ moved.sizes = s.sizes /\ moved.packet_sizes = s.packet_sizes
      /\ moved.packet_timestamps = s.packet_timestamps
      /\ moved.first_seen = s.first_seen /\ moved.last_seen = s.last_seen
      /\ moved.protocol = s.protocol /\ moved.flag_counts = s.flag_counts
      /\ moved.observations = s.observations
  BY DEF PacketsAgree, IsSegment
<1>3. Segment!PacketCount(moved) = Segment!PacketCount(s)
  BY <1>2 DEF Segment!PacketCount
<1> QED BY <1>1, <1>2, <1>3 DEF PacketsAgree

LEMMA SegmentStep ==
    SegmentAssumption /\ SegmentInv /\ [Segment!Next]_(Segment!vars) => SegmentInv'
<1> SUFFICES ASSUME SegmentAssumption, SegmentInv, [Segment!Next]_(Segment!vars)
             PROVE  SegmentInv'
  OBVIOUS
<1>1. PICK s, f : s = flow_state /\ f = flow_features
  OBVIOUS
<1>2. PacketsAgree(s) /\ Segment!PacketCount(s) \in 0..MaxFlowPackets /\ MaxFlowPackets \in Nat
  BY <1>1 DEF SegmentInv, SegmentAssumption
<1>3. PICK moved, found : moved = flow_state' /\ found = flow_features'
  OBVIOUS
<1>4. ASSUME PacketsAgree(moved), Segment!PacketCount(moved) \in 0..MaxFlowPackets,
             \/ found = Segment!NotExtracted
             \/ /\ moved.finalized /\ Segment!PacketCount(moved) > 0
                /\ found = Segment!Validated(Segment!Extracted(moved))
      PROVE  SegmentInv'
  BY <1>3, <1>4 DEF SegmentInv
<1>5. CASE Segment!AddPacket
  <2>1. PICK packet \in ObservedPackets : moved = Segment!Added(s, packet)
    BY <1>1, <1>3, <1>5 DEF Segment!AddPacket
  <2>2. PacketsAgree(moved) /\ Segment!PacketCount(moved) = Segment!PacketCount(s) + 1
    BY <1>2, <2>1, SegmentAdds
  <2>3. Segment!PacketCount(s) < MaxFlowPackets /\ ~s.finalized /\ found = f
    BY <1>1, <1>3, <1>5 DEF Segment!AddPacket
  <2>4. found = Segment!NotExtracted
    BY <1>1, <2>3 DEF SegmentInv
  <2>5. Segment!PacketCount(moved) \in 0..MaxFlowPackets
    BY <1>2, <2>2, <2>3
  <2> QED BY <1>4, <2>2, <2>4, <2>5
<1>6. CASE Segment!Finalize
  <2>1. moved = [s EXCEPT !.finalized = TRUE] /\ Segment!PacketCount(s) > 0
        /\ found = Segment!Validated(Segment!Extracted(moved))
    BY <1>1, <1>3, <1>6 DEF Segment!Finalize
  <2>2. PacketsAgree(moved) /\ moved.finalized
        /\ Segment!PacketCount(moved) = Segment!PacketCount(s)
    BY <1>2, <2>1, SegmentIsMarked
  <2> QED BY <1>2, <1>4, <2>1, <2>2
<1>7. CASE UNCHANGED Segment!vars
  <2>1. moved = s /\ found = f
    BY <1>1, <1>3, <1>7 DEF Segment!vars
  <2> QED BY <1>1, <1>2, <1>4, <2>1 DEF SegmentInv
<1> QED BY <1>5, <1>6, <1>7 DEF Segment!Next

LEMMA SegmentSound == SegmentAssumption /\ SegmentInv => Segment!TypeOK /\ Segment!FeaturesAreSound
<1> SUFFICES ASSUME SegmentAssumption, SegmentInv PROVE Segment!TypeOK /\ Segment!FeaturesAreSound
  OBVIOUS
<1>1. CASE flow_features = Segment!NotExtracted
  BY <1>1 DEF SegmentInv, Segment!TypeOK, Segment!FeaturesAreSound, Segment!NotExtracted
<1>2. CASE flow_features # Segment!NotExtracted
  <2>1. PICK f : f = Segment!Extracted(flow_state)
    OBVIOUS
  <2>2. f.result = "features" /\ Segment!InBounds(f) /\ Segment!AreOf(f, flow_state)
    BY <1>2, <2>1, ExtractedSound DEF SegmentInv
  <2>3. flow_features = f
    BY <1>2, <2>1, <2>2 DEF SegmentInv, Segment!Validated
  <2>4. f # Segment!Refused
    BY <2>2 DEF Segment!Refused
  <2> QED BY <2>2, <2>3, <2>4 DEF SegmentInv, Segment!TypeOK, Segment!FeaturesAreSound
<1> QED BY <1>1, <1>2

\* The invariant of the part, in the composition.
LEMMA SegmentHolds == StorageSpec => [](part = "segment" => SegmentInv)
<1>1. StorageInit => (part = "segment" => SegmentInv)
  BY StorageAssumption, SegmentInit DEF StorageInit
<1>2. (part = "segment" => SegmentInv) /\ [StorageNext]_StorageVars
        => (part = "segment" => SegmentInv)'
  <2> SUFFICES ASSUME part = "segment" => SegmentInv, [StorageNext]_StorageVars,
                      part' = "segment"
               PROVE  SegmentInv'
    OBVIOUS
  <2>1. part = "segment" /\ [Segment!Next]_(Segment!vars)
    BY DEF StorageNext, StoreNext, FilesNext, CapturesNext, SegmentNext, DataFilesNext, GatesNext,
           SchemaNext, RowSessionsNext, StorageVars, StoreVars, FileVars, CaptureVars, SegmentVars,
           DataFileVars, GateVars, SchemaVars, SessionVars, Segment!vars
  <2> QED BY <2>1, StorageAssumption, SegmentStep
<1> QED BY <1>1, <1>2, PTL DEF StorageSpec

\* A segment holds as many packets as it was given, and its features are there, refused
\* or not extracted yet.
THEOREM SegmentTypesCorrect == ASSUME SegmentAssumption PROVE Segment!Spec => []Segment!TypeOK
<1>1. Segment!Spec => []SegmentInv
  <2>1. Segment!Init => SegmentInv
    BY SegmentInit
  <2>2. SegmentInv /\ [Segment!Next]_(Segment!vars) => SegmentInv'
    BY SegmentStep
  <2> QED BY <2>1, <2>2, PTL DEF Segment!Spec
<1>2. SegmentInv => Segment!TypeOK
  BY SegmentSound
<1> QED BY <1>1, <1>2, PTL

-----------------------------------------------------------------------------
\* A completed source has the stored file of its checksum and all its flows, one that
\* is not completed has none, and only a call under way or a lost process leaves a
\* source pending or a staged file behind.  The reader of a capture never finds more
\* packets in it than its ingestor counted, and as many once it is through; it is never
\* through with one that the ingestor refused.  A frame that was cut anywhere is not
\* decoded, or as the whole one, and the answer to a packet has the key of the packet.
\* The features a segment is finalised with stay within the bounds of the registry and
\* are those of its packets, whatever the order their times came in.
THEOREM SourcesAreWhole == StorageSpec => []SourcesAreSound
<1>1. FilesInv => Files!CompletedIsWhole
  BY DEF FilesInv, Files!CompletedIsWhole, SourceIsWhole
<1>2. (part = "files" => FilesInv) /\ (part = "captures" => CapturesInv)
      /\ (part = "segment" => SegmentInv) => SourcesAreSound
  BY <1>1, StorageAssumption, CapturesSound, SegmentSound DEF SourcesAreSound
<1> QED BY <1>2, FilesHold, CapturesHold, SegmentHolds, PTL
=============================================================================
