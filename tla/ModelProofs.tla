---------------------------- MODULE ModelProofs -----------------------------
(***************************************************************************)
(* Which models the program uses and shows, for every number of callers,   *)
(* versions, processes, environments and edits: activations that undo      *)
(* nobody's unseen, bundles that are what was evaluated, on rows that no   *)
(* engine was fitted or chosen with, jobs that run with the artifacts they *)
(* are pinned to, and pages that name these and show verified evidence.    *)
(*                                                                         *)
(* The components share no state; each theorem is about one of them.       *)
(***************************************************************************)
EXTENDS ModelWork, FiniteSets, SequenceTheorems, WellFoundedInduction, TLAPS

-----------------------------------------------------------------------------
(* The registry of models.                                                 *)

\* The table of one engine: a row per version.
Actives(R) == {i \in DOMAIN R : R[i].status = "active"}
OfVersion(R, v) == {i \in DOMAIN R : R[i].version = v}
Current(R) ==
    IF Actives(R) = {} THEN Registry!None
    ELSE R[CHOOSE i \in Actives(R) : \A j \in Actives(R) : i <= j].version
Table(R) ==
    /\ R \in Seq(Registry!Row)
    /\ \A i, j \in DOMAIN R : i # j => R[i].version # R[j].version
HasOneActive(R) == R # << >> => \E i \in DOMAIN R : Actives(R) = {i}

Call ==
    [pc : {"verified", "insert", "select", "flush"}, engine : Engines, version : BundleVersions,
     expected : BundleVersions \union {Registry!None},
     target : {Registry!None, "active", "retired"},
     found : BundleVersions \union {Registry!None}, stale : BOOLEAN]

\* What a call knows of the table of its engine: the row of its version is there, and
\* what it read of the table holds until another call changes it.
CallerSees(c) ==
    LET k == caller[c]
        R == rows[k.engine]
    IN  /\ k \in Call
        /\ k.pc \in {"select", "flush"} =>
            \E i \in OfVersion(R, k.version) : ~k.stale => R[i].status = k.target
        /\ k.pc = "flush" => k.found = k.expected
        /\ k.pc = "flush" /\ ~k.stale => k.found = Current(R)

RegistryInv ==
    /\ DOMAIN rows = Engines /\ DOMAIN caller = Callers
    /\ \A e \in Engines : Table(rows[e])
    /\ \A e \in Engines \ overtaken : HasOneActive(rows[e])
    /\ \A c \in Callers : caller[c] # Registry!Idle => CallerSees(c)
    /\ damaged \subseteq Engines \X BundleVersions /\ overtaken \subseteq Engines
    /\ activations \in 0..Activations

LEMMA TableIsFunction ==
    ASSUME NEW R, R \in Seq(Registry!Row)
    PROVE  /\ Len(R) \in Nat /\ DOMAIN R = 1..Len(R)
           /\ \A i \in DOMAIN R : R[i] \in Registry!Row
           /\ R = << >> <=> Len(R) = 0
  BY LenProperties, EmptySeq

LEMMA WithStatusChanges ==
    ASSUME NEW R, Table(R), NEW v, NEW st \in {"active", "retired"}
    PROVE  LET W == Registry!WithStatus(R, v, st)
           IN  /\ Table(W) /\ Len(W) = Len(R) /\ DOMAIN W = DOMAIN R
               /\ \A i \in DOMAIN R :
                    /\ W[i].version = R[i].version
                    /\ W[i].status = IF R[i].version = v THEN st ELSE R[i].status
<1> DEFINE W == Registry!WithStatus(R, v, st)
<1>1. DOMAIN R = 1..Len(R) /\ Len(R) \in Nat /\ \A i \in DOMAIN R : R[i] \in Registry!Row
  BY TableIsFunction DEF Table
<1>2. \A i \in DOMAIN R : [R[i] EXCEPT !.status = st] = [version |-> R[i].version, status |-> st]
  BY <1>1 DEF Registry!Row
<1>3. DOMAIN W = DOMAIN R
        /\ \A i \in DOMAIN R : W[i] = IF R[i].version = v
                                      THEN [version |-> R[i].version, status |-> st] ELSE R[i]
  BY <1>2 DEF Registry!WithStatus
<1>4. \A i \in DOMAIN R : W[i] \in Registry!Row
  BY <1>1, <1>3 DEF Registry!Row
<1>5. W \in [1..Len(R) -> Registry!Row]
  BY <1>1, <1>3, <1>4 DEF Registry!WithStatus
<1>6. W \in Seq(Registry!Row)
  BY <1>1, <1>5, SeqDef
<1>7. Len(W) = Len(R)
  BY <1>1, <1>3, <1>6, TableIsFunction
<1> HIDE DEF W
<1>8. \A i \in DOMAIN R : /\ W[i].version = R[i].version
                          /\ W[i].status = IF R[i].version = v THEN st ELSE R[i].status
  BY <1>3
<1> QED BY <1>3, <1>6, <1>7, <1>8 DEF W, Table

\* Registering a version retires the version x, and appends the new one.
LEMMA RegisteredIsActive ==
    ASSUME NEW R, Table(R), NEW v \in BundleVersions, OfVersion(R, v) = {}, NEW x
    PROVE  LET T == Append(Registry!WithStatus(R, x, "retired"), [version |-> v, status |-> "active"])
           IN  /\ Table(T)
               /\ \A i \in DOMAIN R :
                    /\ i \in DOMAIN T /\ T[i].version = R[i].version
                    /\ R[i].version # x => T[i].status = R[i].status
               /\ (R # << >> => \E i \in DOMAIN R : Actives(R) = {i} /\ R[i].version = x)
                    => HasOneActive(T)
<1> DEFINE W == Registry!WithStatus(R, x, "retired")
           new == [version |-> v, status |-> "active"]
           T == Append(W, new)
<1>1. R \in Seq(Registry!Row) /\ Len(R) \in Nat /\ DOMAIN R = 1..Len(R)
        /\ (R = << >> <=> Len(R) = 0)
  BY TableIsFunction DEF Table
<1>2. /\ W \in Seq(Registry!Row) /\ Len(W) = Len(R) /\ DOMAIN W = DOMAIN R
      /\ \A i \in DOMAIN R :
            /\ W[i].version = R[i].version
            /\ W[i].status = IF R[i].version = x THEN "retired" ELSE R[i].status
  BY <1>1, WithStatusChanges DEF Table
<1>3. new \in Registry!Row
  BY DEF Registry!Row
<1> HIDE DEF W, new
<1>4. /\ T \in Seq(Registry!Row) /\ Len(T) = Len(R) + 1 /\ DOMAIN T = 1..(Len(R) + 1)
      /\ \A i \in DOMAIN R : T[i] = W[i]
      /\ T[Len(R) + 1] = new
  BY <1>1, <1>2, <1>3, AppendProperties
<1> HIDE DEF T
<1>5. new.version = v /\ new.status = "active"
  BY DEF new
<1>6. ASSUME R # << >> => \E i \in DOMAIN R : Actives(R) = {i} /\ R[i].version = x
      PROVE  HasOneActive(T)
  <2>1. \A i \in DOMAIN T : i \in DOMAIN R \/ i = Len(R) + 1
    BY <1>1, <1>4
  <2>2. \A i \in DOMAIN R : W[i].status # "active"
    BY <1>1, <1>2, <1>6 DEF Actives
  <2>3. \A i \in DOMAIN R : T[i].status # "active"
    BY <1>4, <2>2
  <2>4. Len(R) + 1 \in DOMAIN T /\ T[Len(R) + 1].status = "active"
    BY <1>1, <1>4, <1>5
  <2>5. Actives(T) = {Len(R) + 1}
    BY <2>1, <2>3, <2>4 DEF Actives
  <2> QED BY <2>4, <2>5 DEF HasOneActive
<1>7. \A i, j \in DOMAIN T : i # j => T[i].version # T[j].version
  BY <1>1, <1>2, <1>4, <1>5 DEF Table, OfVersion
<1>8. Table(T)
  BY <1>4, <1>7 DEF Table
<1>9. \A i \in DOMAIN R :
        /\ i \in DOMAIN T /\ T[i].version = R[i].version
        /\ R[i].version # x => T[i].status = R[i].status
  BY <1>1, <1>2, <1>4
<1> QED BY <1>6, <1>8, <1>9 DEF T, W, new

LEMMA Smallest == ASSUME NEW S \in SUBSET Nat, S # {} PROVE \E m \in S : \A k \in S : m <= k
<1> DEFINE R == OpToRel(<, Nat)
<1>1. IsWellFoundedOn(R, Nat)
  BY NatLessThanWellFounded
<1>2. \A x, y \in Nat : << x, y >> \in R <=> x < y
  BY DEF OpToRel
<1> HIDE DEF R
<1>3. PICK m \in S : \A k \in S : ~ (<< k, m >> \in R)
  BY <1>1, WFMin
<1>4. ASSUME NEW k \in S PROVE m <= k
  <2>1. m \in Nat /\ k \in Nat
    OBVIOUS
  <2>2. ~(k < m)
    BY <1>2, <1>3, <2>1
  <2> QED BY <2>1, <2>2
<1> QED BY <1>4

\* The version the code finds active is that of the one active row.
LEMMA CurrentIsActive ==
    ASSUME NEW R, Table(R)
    PROVE  /\ HasOneActive(R) /\ R # << >> =>
                \E i \in DOMAIN R : Actives(R) = {i} /\ R[i].version = Current(R)
           /\ Current(R) \in BundleVersions \union {Registry!None}
<1>1. /\ Len(R) \in Nat /\ DOMAIN R = 1..Len(R)
      /\ \A i \in DOMAIN R : R[i].version \in BundleVersions
  BY TableIsFunction DEF Table, Registry!Row
<1>2. ASSUME HasOneActive(R), R # << >>
      PROVE  \E i \in DOMAIN R : Actives(R) = {i} /\ R[i].version = Current(R)
  <2>1. PICK i \in DOMAIN R : Actives(R) = {i}
    BY <1>2 DEF HasOneActive
  <2>2. i <= i
    BY <1>1
  <2>3. (CHOOSE m \in Actives(R) : \A n \in Actives(R) : m <= n) = i
    BY <2>1, <2>2
  <2> QED BY <2>1, <2>3 DEF Current
<1>3. ASSUME Actives(R) # {} PROVE Current(R) \in BundleVersions
  <2>1. Actives(R) \in SUBSET Nat /\ Actives(R) \subseteq DOMAIN R
    BY <1>1 DEF Actives
  <2>2. \E m \in Actives(R) : \A n \in Actives(R) : m <= n
    BY <1>3, <2>1, Smallest
  <2>3. (CHOOSE m \in Actives(R) : \A n \in Actives(R) : m <= n) \in DOMAIN R
    BY <2>1, <2>2
  <2> QED BY <1>1, <1>3, <2>3 DEF Current
<1> QED BY <1>2, <1>3 DEF Current

LEMMA CurrentIsFound ==
    /\ \A e : Registry!CurrentVersion(e) = Current(rows[e])
    /\ \A e, v : Registry!IndexOf(e, v) = OfVersion(rows[e], v)
<1> DEFINE First(S) == CHOOSE i \in S : \A j \in S : i <= j
<1>1. \A e : Registry!ActiveRows(e) = Actives(rows[e])
  BY DEF Registry!ActiveRows, Actives
<1>2. \A e : Registry!CurrentVersion(e) = IF Registry!ActiveRows(e) = {} THEN Registry!None
                                         ELSE rows[e][First(Registry!ActiveRows(e))].version
  BY DEF Registry!CurrentVersion
<1>3. \A R : Current(R) = IF Actives(R) = {} THEN Registry!None ELSE R[First(Actives(R))].version
  BY DEF Current
<1>4. \A e, v : Registry!IndexOf(e, v) = OfVersion(rows[e], v)
  BY DEF Registry!IndexOf, OfVersion
<1> HIDE DEF First
<1> QED BY <1>1, <1>2, <1>3, <1>4

LEMMA RegistryInit == RegistryAssumption /\ Registry!Init => RegistryInv
<1> SUFFICES ASSUME RegistryAssumption, Registry!Init PROVE RegistryInv
  OBVIOUS
<1>1. Table(<< >>) /\ HasOneActive(<< >>)
  BY EmptySeq DEF Table, HasOneActive
<1>2. \A e \in Engines : Table(rows[e]) /\ HasOneActive(rows[e])
  BY <1>1 DEF Registry!Init
<1> QED BY <1>2 DEF Registry!Init, RegistryInv, RegistryAssumption

\* A step of one caller that leaves the tables alone.
LEMMA CallerMoves ==
    ASSUME RegistryInv, NEW c \in Callers,
           UNCHANGED << rows, damaged, overtaken >>, activations' \in 0..Activations,
           NEW k, caller' = [caller EXCEPT ![c] = k],
           k # Registry!Idle => CallerSees(c)'
    PROVE  RegistryInv'
<1>1. /\ DOMAIN caller' = Callers /\ caller'[c] = k
      /\ \A d \in Callers : d # c => caller'[d] = caller[d]
  BY DEF RegistryInv
<1>2. ASSUME NEW d \in Callers, caller'[d] # Registry!Idle PROVE CallerSees(d)'
  <2>1. CASE d = c
    BY <1>1, <1>2, <2>1 DEF Registry!Idle
  <2>2. CASE d # c
    BY <1>1, <1>2, <2>2
       DEF RegistryInv, CallerSees, Registry!Idle
  <2> QED BY <2>1, <2>2
<1> QED BY <1>2 DEF RegistryInv, Registry!Idle

LEMMA RegistryBegin ==
    ASSUME RegistryAssumption, RegistryInv, NEW c \in Callers, NEW e \in Engines,
           NEW v \in BundleVersions, NEW x \in BundleVersions \union {Registry!None},
           Registry!Begin(c, e, v, x)
    PROVE  RegistryInv'
<1> DEFINE k == [pc |-> "verified", engine |-> e, version |-> v, expected |-> x,
                 target |-> Registry!None, found |-> Registry!None, stale |-> FALSE]
<1>1. /\ caller' = [caller EXCEPT ![c] = k]
      /\ activations' \in 0..Activations /\ UNCHANGED << rows, damaged, overtaken >>
  BY DEF Registry!Begin, RegistryAssumption, RegistryInv
<1>2. k \in Call /\ k.pc = "verified"
  BY DEF Call
<1> HIDE DEF k
<1>3. caller'[c] = k
  BY <1>1 DEF RegistryInv
<1>4. CallerSees(c)'
  BY <1>2, <1>3 DEF CallerSees
<1> QED BY <1>1, <1>4, CallerMoves

LEMMA RegistrySelectTarget ==
    ASSUME RegistryAssumption, RegistryInv, NEW c \in Callers, Registry!SelectTarget(c)
    PROVE  RegistryInv'
<1> DEFINE k == caller[c]
           R == rows[k.engine]
           found == Registry!IndexOf(k.engine, k.version)
           i == CHOOSE j \in found : TRUE
<1>1. /\ k.pc = "verified"
      /\ UNCHANGED << rows, damaged, overtaken, activations >>
  BY DEF Registry!SelectTarget
<1>2. k # Registry!Idle
  BY <1>1 DEF Registry!Idle
<1>3. CallerSees(c) /\ k \in Call /\ k.engine \in Engines /\ Table(R)
  BY <1>2 DEF RegistryInv, CallerSees, Call
<1>4. activations' \in 0..Activations
  BY <1>1 DEF RegistryInv
<1>5. found = OfVersion(R, k.version)
  BY CurrentIsFound
<1>6. CASE found = {}
  <2> DEFINE next == [k EXCEPT !.pc = "insert"]
  <2>1. caller' = [caller EXCEPT ![c] = next] /\ caller'[c] = next
    BY <1>6 DEF Registry!SelectTarget, RegistryInv
  <2>2. next \in Call /\ next.pc = "insert"
    BY <1>3 DEF Call
  <2> HIDE DEF next
  <2>3. CallerSees(c)'
    BY <2>1, <2>2 DEF CallerSees
  <2> QED BY <1>1, <1>4, <2>1, <2>3, CallerMoves
<1>7. CASE found # {}
  <2> DEFINE next == [k EXCEPT !.pc = "select", !.target = R[i].status]
  <2>1. caller' = [caller EXCEPT ![c] = next] /\ caller'[c] = next
    BY <1>7 DEF Registry!SelectTarget, RegistryInv
  <2>2. i \in OfVersion(R, k.version)
    BY <1>5, <1>7
  <2>3. R[i].status \in {"active", "retired"}
    BY <1>3, <2>2, TableIsFunction DEF Table, Registry!Row, OfVersion
  <2> HIDE DEF i
  <2>4. /\ next \in Call /\ next.pc = "select" /\ next.target = R[i].status
        /\ next.engine = k.engine /\ next.version = k.version
    BY <1>3, <2>3 DEF Call
  <2> HIDE DEF next
  <2>5. i \in OfVersion(rows'[next.engine], next.version)
          /\ rows'[next.engine][i].status = next.target
    BY <1>1, <2>2, <2>4 DEF OfVersion
  <2>6. CallerSees(c)'
    BY <2>1, <2>4, <2>5 DEF CallerSees
  <2> QED BY <1>1, <1>4, <2>1, <2>6, CallerMoves
<1> QED BY <1>6, <1>7

\* A caller that finishes without changing anything.
LEMMA CallerGivesUp ==
    ASSUME RegistryInv, NEW c \in Callers, Registry!Leave(c)
    PROVE  RegistryInv'
<1>1. activations' \in 0..Activations
  BY DEF RegistryInv, Registry!Leave
<1> QED BY <1>1, CallerMoves DEF Registry!Leave

LEMMA RegistrySelectActive ==
    ASSUME RegistryAssumption, RegistryInv, NEW c \in Callers, Registry!SelectActive(c)
    PROVE  RegistryInv'
<1> DEFINE k == caller[c]
           R == rows[k.engine]
           x == Current(R)
<1>1. k.pc = "select"
  BY DEF Registry!SelectActive
<1>2. k # Registry!Idle
  BY <1>1 DEF Registry!Idle
<1>3. CallerSees(c) /\ k \in Call /\ k.engine \in Engines /\ Table(R)
  BY <1>2 DEF RegistryInv, CallerSees, Call
<1>4. CASE Registry!MayReplace(k)
  <2> DEFINE next == [k EXCEPT !.pc = "flush", !.found = x]
  <2>1. /\ caller' = [caller EXCEPT ![c] = next] /\ caller'[c] = next
        /\ UNCHANGED << rows, damaged, overtaken, activations >>
    BY <1>4, CurrentIsFound DEF Registry!SelectActive, RegistryInv
  <2>2. x = k.expected /\ x \in BundleVersions \union {Registry!None}
    BY <1>3, <1>4, CurrentIsFound, CurrentIsActive DEF Registry!MayReplace
  <2>3. activations' \in 0..Activations
    BY <2>1 DEF RegistryInv
  <2>5. PICK j \in OfVersion(R, k.version) : ~k.stale => R[j].status = k.target
    BY <1>1, <1>3 DEF CallerSees
  <2> HIDE DEF x
  <2>6. /\ next \in Call /\ next.pc = "flush" /\ next.found = x /\ next.expected = k.expected
        /\ next.engine = k.engine /\ next.version = k.version
        /\ next.stale = k.stale /\ next.target = k.target
    BY <1>3, <2>2 DEF Call
  <2> HIDE DEF next
  <2>7. Current(rows'[next.engine]) = x
    BY <2>1, <2>6 DEF x
  <2>8. j \in OfVersion(rows'[next.engine], next.version)
          /\ (~next.stale => rows'[next.engine][j].status = next.target)
    BY <2>1, <2>5, <2>6 DEF OfVersion
  <2>9. CallerSees(c)'
    BY <2>1, <2>2, <2>6, <2>7, <2>8 DEF CallerSees
  <2> QED BY <2>1, <2>3, <2>9, CallerMoves
<1>5. CASE ~Registry!MayReplace(k)
  BY <1>5, CallerGivesUp DEF Registry!SelectActive
<1> QED BY <1>4, <1>5

\* A caller that finishes and leaves the table of its engine as T.
LEMMA CallerCommits ==
    ASSUME RegistryInv, NEW c \in Callers, caller[c] # Registry!Idle, NEW T,
           Registry!Commit(c, T), Table(T),
           \A i \in DOMAIN rows[caller[c].engine] :
               i \in DOMAIN T /\ T[i].version = rows[caller[c].engine][i].version,
           caller[c].engine \notin overtaken /\ ~caller[c].stale => HasOneActive(T)
    PROVE  RegistryInv'
<1> DEFINE e == caller[c].engine
           Misses(d) == T # rows[e] /\ caller[d].pc \in {"select", "flush"} /\ caller[d].engine = e
<1>1. CallerSees(c) /\ e \in Engines
  BY DEF RegistryInv, CallerSees, Call
<1>2. /\ rows' = [rows EXCEPT ![e] = T]
      /\ caller' = [d \in Callers |->
             IF d = c THEN Registry!Idle
             ELSE IF Misses(d) THEN [caller[d] EXCEPT !.stale = TRUE] ELSE caller[d]]
      /\ overtaken' = IF caller[c].stale THEN overtaken \union {e} ELSE overtaken
      /\ UNCHANGED << damaged, activations >>
  BY DEF Registry!Commit
<1>3. /\ DOMAIN rows' = Engines /\ rows'[e] = T
      /\ \A f \in Engines : f # e => rows'[f] = rows[f]
  BY <1>1, <1>2 DEF RegistryInv
<1>4. \A f \in Engines : Table(rows'[f])
  BY <1>3 DEF RegistryInv
<1>5. \A f \in Engines \ overtaken' : HasOneActive(rows'[f])
  BY <1>1, <1>2, <1>3 DEF RegistryInv
<1>6. ASSUME NEW d \in Callers, caller'[d] # Registry!Idle PROVE CallerSees(d)'
  <2>1. d # c /\ (caller'[d] = caller[d] \/ caller'[d] = [caller[d] EXCEPT !.stale = TRUE])
    BY <1>2, <1>6
  <2>2. caller[d] # Registry!Idle
    <3>1. caller[d] = Registry!Idle => ~Misses(d)
      BY DEF Registry!Idle
    <3> QED BY <1>2, <1>6, <2>1, <3>1
  <2>3. CallerSees(d) /\ caller[d] \in Call
    BY <2>2 DEF RegistryInv, CallerSees
  <2> DEFINE k == caller[d]
             n == caller'[d]
             f == k.engine
  <2>4. /\ n \in Call /\ n.pc = k.pc /\ n.engine = f /\ n.version = k.version
        /\ n.expected = k.expected /\ n.target = k.target /\ n.found = k.found
        /\ ~n.stale => ~k.stale
    BY <2>1, <2>3 DEF Call
  <2>5. f \in Engines
    BY <2>3 DEF Call
  <2>6. k.pc \in {"select", "flush"} /\ ~n.stale => rows'[f] = rows[f]
    <3>1. CASE Misses(d)
      <4>1. n = [k EXCEPT !.stale = TRUE]
        BY <1>2, <2>1, <3>1
      <4>2. n.stale = TRUE
        BY <2>3, <4>1 DEF Call
      <4> QED BY <4>2
    <3>2. CASE ~Misses(d)
      BY <1>3, <2>5, <3>2
    <3> QED BY <3>1, <3>2
  <2>7. k.pc \in {"select", "flush"} =>
            \E i \in OfVersion(rows'[f], k.version) : ~n.stale => rows'[f][i].status = k.target
    <3>1. SUFFICES ASSUME k.pc \in {"select", "flush"}
                   PROVE  \E i \in OfVersion(rows'[f], k.version) :
                            ~n.stale => rows'[f][i].status = k.target
      OBVIOUS
    <3>2. PICK i \in OfVersion(rows[f], k.version) : ~k.stale => rows[f][i].status = k.target
      BY <2>3, <3>1 DEF CallerSees
    <3>3. i \in OfVersion(rows'[f], k.version)
      BY <1>3, <2>5, <3>2 DEF OfVersion
    <3>4. ~n.stale => rows'[f][i].status = k.target
      BY <2>4, <2>6, <3>1, <3>2
    <3> QED BY <3>3, <3>4
  <2>8. k.pc = "flush" => k.found = k.expected
    BY <2>3 DEF CallerSees
  <2>9. k.pc = "flush" /\ ~n.stale => k.found = Current(rows'[f])
    BY <2>3, <2>4, <2>6 DEF CallerSees
  <2> QED BY <2>4, <2>7, <2>8, <2>9 DEF CallerSees
<1>7. overtaken' \subseteq Engines
  BY <1>1, <1>2 DEF RegistryInv
<1> QED BY <1>2, <1>3, <1>4, <1>5, <1>6, <1>7 DEF RegistryInv, Registry!Idle

LEMMA RegistryInsertAndActivate ==
    ASSUME RegistryAssumption, RegistryInv, NEW c \in Callers, Registry!InsertAndActivate(c)
    PROVE  RegistryInv'
<1> DEFINE k == caller[c]
           R == rows[k.engine]
           x == Current(R)
           T == Append(Registry!WithStatus(R, x, "retired"),
                       [version |-> k.version, status |-> "active"])
<1>1. k.pc = "insert"
  BY DEF Registry!InsertAndActivate
<1>2. k # Registry!Idle
  BY <1>1 DEF Registry!Idle
<1>3. k.engine \in Engines /\ k.version \in BundleVersions /\ Table(R)
  BY <1>2 DEF RegistryInv, CallerSees, Call
<1>4. CASE Registry!IndexOf(k.engine, k.version) = {} /\ Registry!MayReplace(k)
  <2>1. Registry!Commit(c, T)
    BY <1>4, CurrentIsFound DEF Registry!InsertAndActivate
  <2>2. OfVersion(R, k.version) = {}
    BY <1>4, CurrentIsFound
  <2>3. k.engine \notin overtaken => HasOneActive(R)
    BY <1>3 DEF RegistryInv
  <2>4. HasOneActive(R) =>
            (R # << >> => \E i \in DOMAIN R : Actives(R) = {i} /\ R[i].version = x)
    BY <1>3, CurrentIsActive
  <2> HIDE DEF x
  <2>5. /\ Table(T)
        /\ \A i \in DOMAIN R : i \in DOMAIN T /\ T[i].version = R[i].version
        /\ (R # << >> => \E i \in DOMAIN R : Actives(R) = {i} /\ R[i].version = x)
              => HasOneActive(T)
    BY <1>3, <2>2, RegisteredIsActive
  <2> HIDE DEF T
  <2> QED BY <1>2, <2>1, <2>3, <2>4, <2>5, CallerCommits
<1>5. CASE ~(Registry!IndexOf(k.engine, k.version) = {} /\ Registry!MayReplace(k))
  BY <1>5, CallerGivesUp DEF Registry!InsertAndActivate
<1> QED BY <1>4, <1>5

\* What a flush makes of the table: the version found is no longer active, the target
\* is, unless it was when it was read.
LEMMA FlushedTable ==
    ASSUME NEW R, Table(R), NEW k,
           NEW W, W = IF Registry!Retires(k) THEN Registry!WithStatus(R, k.found, "retired") ELSE R,
           NEW T, T = IF k.target = "active" THEN W ELSE Registry!WithStatus(W, k.version, "active")
    PROVE  /\ Table(T) /\ DOMAIN T = DOMAIN R
           /\ \A i \in DOMAIN R :
                /\ T[i].version = R[i].version
                /\ T[i].status = IF k.target # "active" /\ R[i].version = k.version THEN "active"
                                 ELSE IF Registry!Retires(k) /\ R[i].version = k.found THEN "retired"
                                 ELSE R[i].status
<1>1. /\ Table(W) /\ DOMAIN W = DOMAIN R
      /\ \A i \in DOMAIN R :
            /\ W[i].version = R[i].version
            /\ W[i].status = IF Registry!Retires(k) /\ R[i].version = k.found THEN "retired"
                             ELSE R[i].status
  BY WithStatusChanges
<1>2. /\ Table(T) /\ DOMAIN T = DOMAIN W
      /\ \A i \in DOMAIN W :
            /\ T[i].version = W[i].version
            /\ T[i].status = IF k.target # "active" /\ W[i].version = k.version THEN "active"
                             ELSE W[i].status
  BY <1>1, WithStatusChanges
<1> QED BY <1>1, <1>2

LEMMA RegistryFlushActivation ==
    ASSUME RegistryAssumption, RegistryInv, NEW c \in Callers, Registry!FlushActivation(c)
    PROVE  RegistryInv'
<1> DEFINE k == caller[c]
           R == rows[k.engine]
           retires == Registry!Retires(k)
           W == IF retires THEN Registry!WithStatus(R, k.found, "retired") ELSE R
           T == IF k.target = "active" THEN W ELSE Registry!WithStatus(W, k.version, "active")
<1>1. k.pc = "flush" /\ Registry!Commit(c, T)
  BY DEF Registry!FlushActivation
<1>2. k # Registry!Idle
  BY <1>1 DEF Registry!Idle
<1>3. CallerSees(c) /\ k \in Call /\ k.engine \in Engines /\ k.version \in BundleVersions /\ Table(R)
  BY <1>2 DEF RegistryInv, CallerSees, Call
<1>4. /\ Table(T) /\ DOMAIN T = DOMAIN R
      /\ \A i \in DOMAIN R :
            /\ T[i].version = R[i].version
            /\ T[i].status = IF k.target # "active" /\ R[i].version = k.version THEN "active"
                             ELSE IF retires /\ R[i].version = k.found THEN "retired"
                             ELSE R[i].status
  BY <1>3, FlushedTable
<1> HIDE DEF T, W
<1>5. ASSUME k.engine \notin overtaken, ~k.stale PROVE HasOneActive(T)
  <2>1. PICK j \in OfVersion(R, k.version) : R[j].status = k.target
    BY <1>1, <1>3, <1>5 DEF CallerSees
  <2>2. j \in DOMAIN R /\ R[j].version = k.version /\ R # << >>
    BY <1>3, <2>1, TableIsFunction DEF OfVersion, Table
  <2>3. HasOneActive(R) /\ k.found = Current(R)
    BY <1>1, <1>3, <1>5 DEF RegistryInv, CallerSees
  <2>4. PICK i \in DOMAIN R : Actives(R) = {i} /\ R[i].version = k.found
    BY <1>3, <2>2, <2>3, CurrentIsActive
  <2>5. \A m \in DOMAIN R : R[m].status = "active" <=> m = i
    BY <2>4 DEF Actives
  <2>6. \A m, n \in DOMAIN R : R[m].version = R[n].version => m = n
    BY <1>3 DEF Table
  <2>7. k.found # Registry!None
    <3>1. R[i] \in Registry!Row
      BY <1>3, <2>4, TableIsFunction DEF Table
    <3> QED BY <2>4, <3>1 DEF Registry!Row, RegistryAssumption
  <2>8. \A m \in DOMAIN R : T[m].status = "active" <=> m = j
    <3>1. CASE i = j
      <4>1. k.target = "active" /\ ~retires
        BY <2>1, <2>2, <2>4, <2>5, <3>1 DEF Registry!Retires
      <4> QED BY <1>4, <2>5, <3>1, <4>1
    <3>2. CASE i # j
      <4>1. k.target # "active" /\ retires
        BY <2>1, <2>2, <2>4, <2>5, <2>6, <2>7, <3>2 DEF Registry!Retires
      <4> QED BY <1>4, <2>2, <2>4, <2>5, <2>6, <4>1
    <3> QED BY <3>1, <3>2
  <2>9. Actives(T) = {j} /\ j \in DOMAIN T
    BY <1>4, <2>2, <2>8 DEF Actives
  <2> QED BY <2>9 DEF HasOneActive
<1>6. \A i \in DOMAIN R : i \in DOMAIN T /\ T[i].version = R[i].version
  BY <1>4
<1> QED BY <1>1, <1>2, <1>3, <1>4, <1>5, <1>6, CallerCommits

LEMMA RegistryStep == RegistryAssumption /\ RegistryInv /\ [Registry!Next]_Registry!vars => RegistryInv'
<1> SUFFICES ASSUME RegistryAssumption, RegistryInv, [Registry!Next]_Registry!vars PROVE RegistryInv'
  OBVIOUS
<1>1. ASSUME NEW c \in Callers, Registry!Abandon(c) PROVE RegistryInv'
  BY <1>1, CallerGivesUp DEF Registry!Abandon
<1>2. ASSUME NEW e \in Engines, NEW v \in BundleVersions, Registry!Damage(e, v) PROVE RegistryInv'
  BY <1>2 DEF Registry!Damage, RegistryInv, CallerSees
<1>3. CASE UNCHANGED Registry!vars
  BY <1>3 DEF Registry!vars, RegistryInv, CallerSees
<1> QED BY <1>1, <1>2, <1>3, RegistryBegin, RegistrySelectTarget, RegistrySelectActive,
        RegistryInsertAndActivate, RegistryFlushActivation DEF Registry!Next

\* A step of the part in the composition is one of the registry.
LEMMA RegistryMoves ==
    ASSUME [ModelNext]_ModelVars, part = "registry" \/ part' = "registry"
    PROVE  part = "registry" /\ part' = "registry" /\ [Registry!Next]_(Registry!vars)
  BY DEF ModelNext, RegistryNext, LabNext, PinnedNext, PagesNext, SplitsNext, ModelVars, RegistryVars, LabVars,
         PinVars, PageVars, SplitVars, Registry!vars

\* The invariant of the part, in the composition.
LEMMA RegistryHolds ==
    /\ ModelInit => (part = "registry" => RegistryInv)
    /\ (part = "registry" => RegistryInv) /\ [ModelNext]_ModelVars => (part = "registry" => RegistryInv)'
<1>1. ModelInit => (part = "registry" => RegistryInv)
  BY ModelAssumption, RegistryInit DEF ModelInit
<1>2. (part = "registry" => RegistryInv) /\ [ModelNext]_ModelVars => (part = "registry" => RegistryInv)'
  BY ModelAssumption, RegistryMoves, RegistryStep
<1> QED BY <1>1, <1>2

\* The registry has a table per engine, with at most one row per version.
THEOREM RegistryTypesCorrect == ASSUME RegistryAssumption PROVE Registry!Spec => []Registry!TypeOK
<1>1. RegistryInv => Registry!TypeOK
  BY TableIsFunction DEF RegistryInv, Registry!TypeOK, Table
<1> QED BY RegistryInit, RegistryStep, <1>1, PTL DEF Registry!Spec

\* The rows a commit makes inactive have one version.
LEMMA CommitReplaces ==
    ASSUME RegistryInv, NEW c \in Callers, caller[c] # Registry!Idle, NEW T, NEW e \in Engines,
           Registry!Commit(c, T), NEW i \in Registry!Replaced(e),
           \A n \in DOMAIN rows[caller[c].engine] :
               rows[caller[c].engine][n].version # caller[c].expected
               /\ rows[caller[c].engine][n].status = "active" => T[n].status = "active"
    PROVE  /\ caller'[c] = Registry!Idle /\ caller[c].engine = e
           /\ caller[c].expected = rows[e][i].version
<1>1. rows' = [rows EXCEPT ![caller[c].engine] = T] /\ caller'[c] = Registry!Idle
  BY DEF Registry!Commit
<1>2. i \in DOMAIN rows[e] /\ rows[e][i].status = "active" /\ rows'[e][i].status # "active"
  BY DEF Registry!Replaced
<1>3. caller[c].engine = e
  BY <1>1, <1>2 DEF RegistryInv
<1>4. rows'[e] = T
  BY <1>1, <1>3 DEF RegistryInv
<1> QED BY <1>1, <1>2, <1>3, <1>4

\* A version of an engine stops being active only by a call whose caller knew that it
\* was active, however calls overlap; and an engine with rows has exactly one active
\* version, unless a call flushed what another had changed since it read it.
THEOREM ActivationsAreOptimistic == ModelSpec => ActivationIsOptimistic
<1>1. ASSUME RegistryInv, RegistryInv', [Registry!Next]_Registry!vars PROVE Registry!ActivationStep
  <2>1. SUFFICES ASSUME NEW e \in Engines
                 PROVE  /\ \A i \in Registry!Replaced(e) : \E c \in Callers :
                            /\ caller[c] # Registry!Idle /\ caller'[c] = Registry!Idle
                            /\ caller[c].engine = e /\ caller[c].expected = rows[e][i].version
                        /\ e \notin overtaken' => Registry!OneActiveRow(e)'
    BY DEF Registry!ActivationStep
  <2>2. e \notin overtaken' => Registry!OneActiveRow(e)'
    <3>1. SUFFICES ASSUME e \notin overtaken', rows'[e] # << >>
                   PROVE  \E i \in Registry!ActiveRows(e)' : Registry!ActiveRows(e)' = {i}
      BY DEF Registry!OneActiveRow
    <3>2. PICK i \in DOMAIN rows'[e] : Actives(rows'[e]) = {i}
      BY <1>1, <3>1 DEF RegistryInv, HasOneActive
    <3>3. Registry!ActiveRows(e)' = Actives(rows'[e])
      BY DEF Registry!ActiveRows, Actives
    <3> QED BY <3>2, <3>3
  <2>3. ASSUME NEW i \in Registry!Replaced(e)
        PROVE  \E c \in Callers :
                /\ caller[c] # Registry!Idle /\ caller'[c] = Registry!Idle
                /\ caller[c].engine = e /\ caller[c].expected = rows[e][i].version
    <3>1. ~UNCHANGED rows
      BY <2>3 DEF Registry!Replaced
    <3>2. PICK c \in Callers : Registry!InsertAndActivate(c) \/ Registry!FlushActivation(c)
      BY <1>1, <3>1 DEF Registry!Next, Registry!vars, Registry!Begin, Registry!SelectTarget,
         Registry!SelectActive, Registry!Leave, Registry!Abandon, Registry!Damage
    <3> DEFINE k == caller[c]
               R == rows[k.engine]
    <3>3. k # Registry!Idle
      BY <3>2 DEF Registry!InsertAndActivate, Registry!FlushActivation, Registry!Idle
    <3>4. CallerSees(c) /\ k.engine \in Engines /\ k.version \in BundleVersions /\ Table(R)
      BY <1>1, <3>3 DEF RegistryInv, CallerSees, Call
    <3>5. CASE Registry!InsertAndActivate(c)
      <4> DEFINE x == Current(R)
                 T == Append(Registry!WithStatus(R, x, "retired"),
                             [version |-> k.version, status |-> "active"])
      <4>1. /\ Registry!IndexOf(k.engine, k.version) = {} /\ x = k.expected
            /\ Registry!Commit(c, T)
        BY <3>1, <3>5, CurrentIsFound DEF Registry!InsertAndActivate, Registry!Leave, Registry!MayReplace
      <4>2. OfVersion(R, k.version) = {}
        BY <4>1, CurrentIsFound
      <4> HIDE DEF x
      <4>3. \A n \in DOMAIN R :
                /\ n \in DOMAIN T /\ T[n].version = R[n].version
                /\ R[n].version # x => T[n].status = R[n].status
        BY <3>4, <4>2, RegisteredIsActive
      <4> HIDE DEF T
      <4>4. \A n \in DOMAIN R :
                R[n].version # k.expected /\ R[n].status = "active" => T[n].status = "active"
        BY <4>1, <4>3
      <4>5. caller'[c] = Registry!Idle /\ k.engine = e /\ k.expected = rows[e][i].version
        BY <1>1, <2>3, <3>3, <4>1, <4>4, CommitReplaces
      <4> QED BY <3>3, <4>5
    <3>6. CASE Registry!FlushActivation(c)
      <4> DEFINE W == IF Registry!Retires(k) THEN Registry!WithStatus(R, k.found, "retired") ELSE R
                 T == IF k.target = "active" THEN W ELSE Registry!WithStatus(W, k.version, "active")
      <4>1. k.pc = "flush" /\ Registry!Commit(c, T)
        BY <3>6 DEF Registry!FlushActivation
      <4>2. k.found = k.expected
        BY <3>4, <4>1 DEF CallerSees
      <4>3. \A n \in DOMAIN R : T[n].status = IF k.target # "active" /\ R[n].version = k.version THEN "active"
                             ELSE IF Registry!Retires(k) /\ R[n].version = k.found THEN "retired"
                             ELSE R[n].status
        BY <3>4, FlushedTable
      <4> HIDE DEF T, W
      <4>5. \A n \in DOMAIN R :
                R[n].version # k.expected /\ R[n].status = "active" => T[n].status = "active"
        BY <4>2, <4>3
      <4>6. caller'[c] = Registry!Idle /\ k.engine = e /\ k.expected = rows[e][i].version
        BY <1>1, <2>3, <3>3, <4>1, <4>5, CommitReplaces
      <4> QED BY <3>3, <4>6
    <3> QED BY <3>2, <3>5, <3>6
  <2> QED BY <2>2, <2>3
<1>2. (part = "registry" => RegistryInv) /\ [ModelNext]_ModelVars
        => [part = "registry" => Registry!ActivationStep]_ModelVars
  BY <1>1, ModelAssumption, RegistryMoves, RegistryStep
<1> QED BY <1>2, RegistryHolds, PTL DEF ModelSpec, ActivationIsOptimistic

-----------------------------------------------------------------------------
(* Pages of evaluation evidence.                                           *)

LEMMA EvidenceFiles ==
    /\ Len(Pages!Evidence) = 6
    /\ Pages!Evidence[1] = "dataset" /\ Pages!Evidence[2] = "selection" /\ Pages!Evidence[3] = "known"
    /\ Pages!Evidence[4] = "loao" /\ Pages!Evidence[5] = "comparison" /\ Pages!Evidence[6] = "confidence"
    /\ Pages!FileNames = {"dataset", "selection", "known", "loao", "comparison", "confidence", "summary"}
    /\ Pages!Dead = 10
    /\ \A i \in 1..6 : Pages!Evidence[i] \in Pages!FileNames \ {"summary"}
    /\ \A i, j \in 1..6 : Pages!Evidence[i] = Pages!Evidence[j] => i = j
<1>1. /\ Len(Pages!Evidence) = 6
      /\ Pages!Evidence[1] = "dataset" /\ Pages!Evidence[2] = "selection" /\ Pages!Evidence[3] = "known"
      /\ Pages!Evidence[4] = "loao" /\ Pages!Evidence[5] = "comparison" /\ Pages!Evidence[6] = "confidence"
  BY DEF Pages!Evidence
<1>2. \A i \in 1..6 : i = 1 \/ i = 2 \/ i = 3 \/ i = 4 \/ i = 5 \/ i = 6
  OBVIOUS
<1>3. 1 \in 1..6 /\ 2 \in 1..6 /\ 3 \in 1..6 /\ 4 \in 1..6 /\ 5 \in 1..6 /\ 6 \in 1..6
  OBVIOUS
<1>4. {Pages!Evidence[i] : i \in 1..6} = {"dataset", "selection", "known", "loao", "comparison", "confidence"}
  BY <1>1, <1>2, <1>3
<1>5. Pages!FileNames = {"dataset", "selection", "known", "loao", "comparison", "confidence", "summary"}
  BY <1>1, <1>4 DEF Pages!FileNames
<1>6. Pages!Dead = 10
  BY <1>1 DEF Pages!Dead
<1>7. \A i \in 1..6 : Pages!Evidence[i] \in Pages!FileNames \ {"summary"}
  BY <1>1, <1>2, <1>5
<1>8. \A i, j \in 1..6 : Pages!Evidence[i] = Pages!Evidence[j] => i = j
  BY <1>1, <1>2
<1> QED BY <1>1, <1>5, <1>6, <1>7, <1>8

Contents == {"absent", "partial", "written", "edited"}
Verifying == {"parse", "hash", "tables", "identities", "loao", "rows"}
Verified == {"tables", "identities", "loao", "rows"}
Pcs == Verifying \union {"idle", "files", "policies", "unavailable", "invalid", "available"}
Shows == UNION {[D -> Contents] : D \in SUBSET Pages!FileNames}
Pages_Reader == [pc : Pcs, summary : BOOLEAN, missing : SUBSET Pages!FileNames,
                 version : {"", "own", "copy"}, shown : Shows, touched : SUBSET Pages!FileNames]

Pages_Policy == [state : {"absent", "staged", "saved"}, sums : [Pages!Checked -> Contents],
                 damage : {"none", "manifest", "card"}]

PagesTyped ==
    /\ disk \in [Pages!FileNames -> Contents]
    /\ policy \in Pages_Policy
    /\ extra \in BOOLEAN /\ pinned \in BOOLEAN /\ copies \in 0..1
    /\ experiment \in 0..10 /\ edits \in 0..Edits
    /\ reader \in Pages_Reader

\* Once there is a policy the evidence is only touched, and no edit undoes another.
PolicyInv ==
    /\ copies > 0 => policy.state = "saved"
    /\ policy.state # "absent" =>
        /\ experiment \in 7..10
        /\ \A f \in Pages!Checked : policy.sums[f] = "edited" => disk[f] \in {"edited", "absent"}

\* What was parsed is what the policy has a checksum of, if the checksum fits later.
Parsed(f) ==
    /\ f \in DOMAIN reader.shown /\ reader.shown[f] \in {"written", "edited"}
    /\ disk[f] \in {reader.shown[f], "edited", "absent"}
    /\ policy.sums[f] = "edited" => reader.shown[f] = "edited"

ReaderInv ==
    /\ reader.pc \in {"files", "policies", "parse"} => DOMAIN reader.shown = {}
    /\ reader.pc \in Verifying \union {"available"} => policy.state # "absent"
    /\ reader.pc \in Verifying => "loao" \notin DOMAIN reader.shown
    /\ reader.pc = "hash" =>
        /\ DOMAIN reader.shown = {"selection", "dataset"}
        /\ Parsed("selection") /\ Parsed("dataset")
    /\ reader.pc \in Verified \union {"available"} =>
        \A f \in Pages!Checked \ reader.touched :
            f \in DOMAIN reader.shown => reader.shown[f] = policy.sums[f]
    /\ reader.pc \in Verified => \A f \in Pages!Checked \ reader.touched : disk[f] = policy.sums[f]
    /\ reader.pc = "rows" /\ "loao" \notin reader.touched => disk["loao"] = "written"
    /\ reader.pc = "available" /\ "loao" \in DOMAIN reader.shown /\ "loao" \notin reader.touched
        => reader.shown["loao"] = "written"
    /\ reader.pc \in Verifying \union {"files", "policies", "available"} /\ reader.summary => pinned
    /\ reader.pc \in {"loao", "rows"} => reader.version = "own"
    /\ reader.pc = "available" /\ reader.summary => reader.version = "own"

\* While nobody touches the directories.
Complete == \A i \in 1..6 : disk[Pages!Evidence[i]] = "written"
Untouched ==
    /\ extra = FALSE /\ copies = 0 /\ policy.damage = "none"
    /\ \A i \in 1..6 : i <= experiment /\ experiment < 10 => disk[Pages!Evidence[i]] = "written"
    /\ policy.state # "absent" => Complete /\ \A f \in Pages!Checked : policy.sums[f] = "written"
    /\ experiment \in 0..6 => policy.state = "absent"
    /\ experiment = 7 => policy.state = "staged"
    /\ experiment \in 8..9 => policy.state = "saved"
    /\ disk["summary"] # "absent" => policy.state = "saved"
    /\ reader.pc = "policies" /\ reader.missing = {} => disk["summary"] # "absent"
    /\ reader.pc \in Verifying =>
        policy.state = "saved" /\ reader.version = "own" /\ disk["summary"] # "absent"
    /\ reader.pc # "invalid"

PagesInv ==
    /\ PagesTyped
    /\ PolicyInv
    /\ ReaderInv
    /\ edits = 0 => Untouched

LEMMA PagesInit == PagesAssumption /\ Pages!Init => PagesInv
<1> SUFFICES ASSUME PagesAssumption, Pages!Init PROVE PagesInv
  OBVIOUS
<1>1. Pages!Idle.pc = "idle" /\ DOMAIN Pages!Idle.shown = {}
  BY DEF Pages!Idle
<1>2. << >> \in Shows
  <2>1. << >> \in [{} -> Contents]
    OBVIOUS
  <2> QED BY <2>1 DEF Shows
<1>3. Pages!Idle \in Pages_Reader
  BY <1>2 DEF Pages!Idle, Pages_Reader, Pcs
<1>4. PagesTyped
  <2>1. policy \in Pages_Policy
    <3>1. [f \in Pages!Checked |-> "absent"] \in [Pages!Checked -> Contents]
      BY DEF Contents
    <3> QED BY <3>1 DEF Pages!Init, Pages_Policy
  <2>2. disk \in [Pages!FileNames -> Contents]
    BY DEF Pages!Init, Contents
  <2>3. /\ extra = FALSE /\ copies = 0 /\ experiment = 0 /\ pinned = FALSE /\ edits = 0 /\ reader = Pages!Idle
    BY DEF Pages!Init
  <2>4. copies \in 0..1 /\ experiment \in 0..10 /\ edits \in 0..Edits
    BY <2>3 DEF PagesAssumption
  <2> QED BY <1>3, <2>1, <2>2, <2>3, <2>4 DEF PagesTyped
<1>5. disk["summary"] = "absent"
  BY EvidenceFiles DEF Pages!Init
<1>6. ReaderInv
  BY <1>1 DEF Pages!Init, ReaderInv, Verifying, Verified
<1>7. Untouched
  <2>1. experiment = 0 /\ policy.state = "absent" /\ policy.damage = "none" /\ reader.pc = "idle"
    BY <1>1 DEF Pages!Init
  <2> QED BY <1>5, <2>1 DEF Pages!Init, Untouched, Verifying
<1>8. PolicyInv
  BY DEF Pages!Init, PolicyInv
<1> QED BY <1>4, <1>6, <1>7, <1>8 DEF PagesInv

LEMMA CheckedFiles ==
    /\ Pages!Checked \subseteq Pages!FileNames \ {"summary"} /\ "loao" \in Pages!FileNames \ {"summary"}
    /\ "selection" \in Pages!Checked /\ "dataset" \in Pages!Checked
BY EvidenceFiles DEF Pages!Checked

\* What a page has read stays as long as the evidence and the policy do.
LEMMA ReaderKept ==
    ASSUME PagesInv, reader' = reader, pinned => pinned',
           policy.state # "absent" =>
                /\ policy'.state # "absent" /\ policy'.sums = policy.sums
                /\ \A f \in Pages!FileNames : f # "summary" => disk'[f] = disk[f]
    PROVE  ReaderInv'
<1>1. ReaderInv
  BY DEF PagesInv
<1>2. CASE policy.state # "absent"
  <2>1. /\ policy'.state # "absent" /\ policy'.sums = policy.sums /\ disk'["loao"] = disk["loao"]
        /\ \A f \in Pages!Checked : disk'[f] = disk[f]
        /\ disk'["selection"] = disk["selection"] /\ disk'["dataset"] = disk["dataset"]
    BY <1>2, CheckedFiles
  <2> QED BY <1>1, <2>1 DEF ReaderInv, Parsed
<1>3. CASE policy.state = "absent"
  <2>1. reader.pc \notin Verifying \union {"available"}
    BY <1>1, <1>3 DEF ReaderInv
  <2>2. reader.pc \notin Verified /\ reader.pc \notin {"hash", "rows", "loao", "available", "parse"}
    BY <2>1 DEF Verifying, Verified
  <2> QED BY <1>1, <2>1, <2>2 DEF ReaderInv
<1> QED BY <1>2, <1>3

LEMMA PagesWriteEvidence == ASSUME PagesAssumption, PagesInv, Pages!WriteEvidence PROVE PagesInv'
<1>1. PICK i \in 1..6 : i = experiment + 1 /\ experiment \in 0..5
  BY EvidenceFiles DEF Pages!WriteEvidence, PagesInv, PagesTyped
<1>2. PICK f \in Pages!FileNames \ {"summary"} : f = Pages!Evidence[i]
  BY EvidenceFiles
<1>3. /\ disk' = [disk EXCEPT ![f] = IF @ = "absent" THEN "partial" ELSE "written"]
      /\ experiment' = IF disk[f] = "absent" THEN experiment ELSE experiment + 1
      /\ UNCHANGED << extra, policy, copies, pinned, reader, edits >>
  BY <1>1, <1>2 DEF Pages!WriteEvidence, Pages!WriteFile
<1>4. PagesTyped'
  BY <1>1, <1>3 DEF PagesInv, PagesTyped, Contents
<1>5. disk'["summary"] = disk["summary"]
  BY <1>2, <1>3, EvidenceFiles DEF PagesInv, PagesTyped
<1>6. policy.state = "absent"
  BY <1>1 DEF PagesInv, PolicyInv
<1>7. ReaderInv' /\ PolicyInv'
  BY <1>3, <1>6, ReaderKept DEF PagesInv, PolicyInv
<1>8. ASSUME edits' = 0 PROVE Untouched'
  <2>1. Untouched
    BY <1>3, <1>8 DEF PagesInv
  <2>2. ASSUME NEW j \in 1..6, j <= experiment', experiment' < 10 PROVE disk'[Pages!Evidence[j]] = "written"
    <3>1. CASE j <= experiment
      <4>1. disk[Pages!Evidence[j]] = "written"
        BY <1>1, <2>1, <3>1 DEF Untouched
      <4>2. Pages!Evidence[j] # f /\ Pages!Evidence[j] \in Pages!FileNames
        BY <1>1, <1>2, <3>1, EvidenceFiles
      <4> QED BY <1>3, <4>1, <4>2 DEF PagesInv, PagesTyped
    <3>2. CASE j > experiment
      <4>1. disk[f] # "absent" /\ j = i
        BY <1>1, <1>3, <2>2, <3>2
      <4> QED BY <1>2, <1>3, <4>1 DEF PagesInv, PagesTyped
    <3> QED BY <1>1, <3>1, <3>2
  <2>3. experiment' \in 0..6
    BY <1>1, <1>3
  <2> QED BY <1>3, <1>5, <1>6, <2>1, <2>2, <2>3 DEF Untouched
<1> QED BY <1>4, <1>7, <1>8 DEF PagesInv

LEMMA PagesSavePolicy == ASSUME PagesAssumption, PagesInv, Pages!SavePolicy PROVE PagesInv'
<1>1. /\ experiment \in {6, 7} /\ experiment' = experiment + 1
      /\ UNCHANGED << disk, extra, copies, pinned, reader, edits >>
  BY EvidenceFiles DEF Pages!SavePolicy
<1>2. [f \in Pages!Checked |-> disk[f]] \in [Pages!Checked -> Contents]
  BY EvidenceFiles DEF Pages!Checked, PagesInv, PagesTyped
<1>3. /\ policy' \in Pages_Policy /\ policy'.damage = policy.damage
      /\ policy.state = "absent" => /\ policy'.state = "staged"
                                   /\ \A f \in Pages!Checked : policy'.sums[f] = disk[f]
      /\ policy.state # "absent" => policy'.state = "saved" /\ policy'.sums = policy.sums
  <2>1. policy \in Pages_Policy
    BY DEF PagesInv, PagesTyped
  <2>2. CASE policy.state = "absent"
    <3>1. policy' = [policy EXCEPT !.state = "staged", !.sums = [f \in Pages!Checked |-> disk[f]]]
      BY <2>2 DEF Pages!SavePolicy
    <3> QED BY <1>2, <2>1, <2>2, <3>1 DEF Pages_Policy
  <2>3. CASE policy.state # "absent"
    <3>1. policy' = [policy EXCEPT !.state = "saved"]
      BY <2>3 DEF Pages!SavePolicy
    <3> QED BY <2>1, <2>3, <3>1 DEF Pages_Policy
  <2> QED BY <2>2, <2>3
<1>4. PagesTyped'
  BY <1>1, <1>3 DEF PagesInv, PagesTyped
<1>5. PolicyInv'
  <2>1. copies' > 0 => policy'.state = "saved"
    BY <1>1, <1>3 DEF PagesInv, PolicyInv
  <2>2. ASSUME NEW f \in Pages!Checked, policy'.sums[f] = "edited"
        PROVE  disk'[f] \in {"edited", "absent"}
    BY <1>1, <1>3, <2>2 DEF PagesInv, PolicyInv
  <2>3. experiment' \in 7..10
    BY <1>1
  <2> QED BY <2>1, <2>2, <2>3 DEF PolicyInv
<1>6. ReaderInv'
  BY <1>1, <1>3, ReaderKept
<1>7. ASSUME edits' = 0 PROVE Untouched'
  <2>1. Untouched
    BY <1>1, <1>7 DEF PagesInv
  <2>2. Complete
    BY <1>1, <2>1 DEF Untouched, Complete
  <2>3. \A f \in Pages!Checked : disk[f] = "written"
    <3>1. /\ disk["dataset"] = "written" /\ disk["selection"] = "written" /\ disk["known"] = "written"
          /\ disk["confidence"] = "written"
      BY <2>2, EvidenceFiles DEF Complete
    <3> QED BY <3>1 DEF Pages!Checked
  <2>4. \A f \in Pages!Checked : policy'.sums[f] = "written"
    BY <1>3, <2>1, <2>3 DEF Untouched
  <2>5. experiment = 6 => experiment' = 7 /\ policy'.state = "staged"
    <3>1. experiment = 6 => experiment \in 0..6
      OBVIOUS
    <3>2. experiment = 6 => policy.state = "absent"
      BY <2>1, <3>1 DEF Untouched
    <3> QED BY <1>1, <1>3, <3>2
  <2>6. experiment = 7 => experiment' = 8 /\ policy'.state = "saved"
    <3>1. experiment = 7 => policy.state = "staged"
      BY <2>1 DEF Untouched
    <3> QED BY <1>1, <1>3, <3>1
  <2>7. policy.state = "saved" => policy'.state = "saved"
    BY <1>3
  <2>8. experiment' \in {7, 8} /\ policy'.damage = "none" /\ Complete' /\ disk'["summary"] = disk["summary"]
    BY <1>1, <1>3, <2>1, <2>2 DEF Untouched, Complete
  <2>9. /\ experiment' \in 0..6 => policy'.state = "absent"
        /\ experiment' = 7 => policy'.state = "staged"
        /\ experiment' \in 8..9 => policy'.state = "saved"
    BY <1>1, <2>5, <2>6
  <2>10. extra' = FALSE /\ copies' = 0 /\ reader'.pc # "invalid"
    BY <1>1, <2>1 DEF Untouched
  <2>11. /\ reader'.pc = "policies" /\ reader'.missing = {} => disk'["summary"] # "absent"
         /\ reader'.pc \in Verifying =>
              policy'.state = "saved" /\ reader'.version = "own" /\ disk'["summary"] # "absent"
         /\ disk'["summary"] # "absent" => policy'.state = "saved"
    BY <1>1, <2>1, <2>7 DEF Untouched
  <2> QED BY <2>4, <2>8, <2>9, <2>10, <2>11 DEF Untouched, Complete
<1> QED BY <1>1, <1>4, <1>5, <1>6, <1>7 DEF PagesInv

LEMMA PagesWriteSummary == ASSUME PagesAssumption, PagesInv, Pages!WriteSummary PROVE PagesInv'
<1>1. /\ experiment = 8 /\ experiment' \in {8, 9}
      /\ disk' = [disk EXCEPT !["summary"] = IF @ = "absent" THEN "partial" ELSE "written"]
      /\ UNCHANGED << extra, policy, copies, pinned, reader, edits >>
  BY EvidenceFiles DEF Pages!WriteSummary, Pages!WriteFile
<1>2. PagesTyped'
  <2>1. disk' \in [Pages!FileNames -> Contents]
    BY <1>1, EvidenceFiles DEF PagesInv, PagesTyped, Contents
  <2> QED BY <1>1, <2>1 DEF PagesInv, PagesTyped
<1>3. \A f \in Pages!FileNames : (f # "summary" => disk'[f] = disk[f]) /\ (f = "summary" => disk'[f] # "absent")
  BY <1>1 DEF PagesInv, PagesTyped
<1>4. \A f \in Pages!Checked : disk'[f] = disk[f]
  BY <1>3, CheckedFiles
<1>5. ReaderInv' /\ PolicyInv'
  BY <1>1, <1>3, <1>4, ReaderKept DEF PagesInv, PolicyInv
<1>6. ASSUME edits' = 0 PROVE Untouched'
  <2>1. Untouched
    BY <1>1, <1>6 DEF PagesInv
  <2>2. \A i \in 1..6 : disk'[Pages!Evidence[i]] = disk[Pages!Evidence[i]]
    BY <1>3, EvidenceFiles
  <2>3. policy.state = "saved"
    BY <1>1, <2>1 DEF Untouched
  <2>4. Complete'
    BY <2>1, <2>2, <2>3 DEF Untouched, Complete
  <2>5. disk'["summary"] # "absent"
    BY <1>3, EvidenceFiles
  <2> QED BY <1>1, <2>1, <2>3, <2>4, <2>5 DEF Untouched, Complete
<1> QED BY <1>1, <1>2, <1>5, <1>6 DEF PagesInv

LEMMA PagesCrash == ASSUME PagesAssumption, PagesInv, Pages!Crash PROVE PagesInv'
<1>1. experiment' = 10 /\ UNCHANGED << disk, extra, policy, copies, pinned, reader, edits >>
  BY EvidenceFiles DEF Pages!Crash
<1>2. PagesTyped'
  BY <1>1 DEF PagesInv, PagesTyped
<1>3. ReaderInv' /\ PolicyInv'
  BY <1>1, ReaderKept DEF PagesInv, PolicyInv
<1>4. ASSUME edits' = 0 PROVE Untouched'
  <2>1. Untouched
    BY <1>1, <1>4 DEF PagesInv
  <2> QED BY <1>1, <2>1 DEF Untouched, Complete
<1> QED BY <1>1, <1>2, <1>3, <1>4 DEF PagesInv

LEMMA PagesCompleteJob == ASSUME PagesAssumption, PagesInv, Pages!CompleteJob PROVE PagesInv'
<1>1. pinned' = TRUE /\ UNCHANGED << disk, extra, policy, copies, experiment, reader, edits >>
  BY DEF Pages!CompleteJob
<1>2. PagesTyped'
  BY <1>1 DEF PagesInv, PagesTyped
<1>3. ReaderInv' /\ PolicyInv'
  BY <1>1, ReaderKept DEF PagesInv, PolicyInv
<1> QED BY <1>1, <1>2, <1>3 DEF PagesInv, Untouched, Complete

\* An edit marks the file for a page that is reading.
LEMMA PagesEdit == ASSUME PagesAssumption, PagesInv, Pages!Edit PROVE PagesInv'
<1>1. /\ edits < Edits /\ edits' = edits + 1 /\ UNCHANGED << experiment, pinned >>
  BY DEF Pages!Edit, PagesAssumption
<1>2. edits' # 0 /\ edits' \in 0..Edits
  BY <1>1 DEF PagesInv, PagesTyped, PagesAssumption
<1>3. reader \in Pages_Reader /\ policy \in Pages_Policy /\ PolicyInv /\ ReaderInv
  BY DEF PagesInv, PagesTyped
<1>4. CASE /\ \E f \in Pages!FileNames, content \in {"edited", "absent"} :
                /\ Pages!Parses(f) /\ disk' = [disk EXCEPT ![f] = content]
                /\ reader' = [reader EXCEPT !.touched = IF Pages!Reading THEN @ \cup {f} ELSE @]
           /\ UNCHANGED << extra, policy, copies >>
  <2>1. PICK f \in Pages!FileNames, content \in {"edited", "absent"} :
            /\ disk' = [disk EXCEPT ![f] = content]
            /\ reader' = [reader EXCEPT !.touched = IF Pages!Reading THEN @ \cup {f} ELSE @]
    BY <1>4
  <2>2. disk'[f] = content /\ \A g \in Pages!FileNames : g # f => disk'[g] = disk[g]
    BY <2>1 DEF PagesInv, PagesTyped
  <2>3. PagesTyped'
    <3>1. disk' \in [Pages!FileNames -> Contents]
      BY <2>1 DEF PagesInv, PagesTyped, Contents
    <3>2. reader' \in Pages_Reader
      BY <1>3, <2>1 DEF Pages_Reader
    <3> QED BY <1>1, <1>2, <1>4, <3>1, <3>2 DEF PagesInv, PagesTyped
  <2>4. PolicyInv'
    <3>1. \A g \in Pages!Checked : disk'[g] = disk[g] \/ disk'[g] \in {"edited", "absent"}
      BY <2>2, CheckedFiles
    <3> QED BY <1>1, <1>3, <1>4, <3>1 DEF PolicyInv
  <2>5. /\ reader'.pc = reader.pc /\ reader'.shown = reader.shown /\ reader'.summary = reader.summary
        /\ reader'.version = reader.version /\ reader.touched \subseteq reader'.touched
        /\ reader.pc \in Verifying => f \in reader'.touched
    <3>1. reader.pc \in Verifying => Pages!Reading
      BY DEF Verifying, Pages!Reading, Pages!Answered
    <3> QED BY <1>3, <2>1, <3>1 DEF Pages_Reader
  <2>6. ReaderInv'
    <3>1. ASSUME NEW g \in Pages!FileNames, Parsed(g) PROVE Parsed(g)'
      BY <1>4, <2>2, <2>5, <3>1 DEF Parsed
    <3>2. reader.pc = "hash" => Parsed("selection")' /\ Parsed("dataset")'
      BY <1>3, <3>1, CheckedFiles DEF ReaderInv
    <3>3. reader.pc \in Verified => \A g \in Pages!Checked \ reader'.touched : disk'[g] = policy.sums[g]
      <4>1. reader.pc \in Verified => f \in reader'.touched
        BY <2>5 DEF Verified, Verifying
      <4> QED BY <1>3, <2>2, <2>5, <4>1, CheckedFiles DEF ReaderInv
    <3>4. reader.pc = "rows" /\ "loao" \notin reader'.touched => disk'["loao"] = "written"
      <4>1. reader.pc = "rows" => f \in reader'.touched
        BY <2>5 DEF Verifying
      <4> QED BY <1>3, <2>2, <2>5, <4>1, CheckedFiles DEF ReaderInv
    <3> QED BY <1>1, <1>3, <1>4, <2>5, <3>2, <3>3, <3>4 DEF ReaderInv
  <2> QED BY <1>2, <2>3, <2>4, <2>6 DEF PagesInv
<1>5. CASE /\ extra' = TRUE /\ UNCHANGED << disk, policy, copies, reader >>
  <2>1. PagesTyped' /\ PolicyInv'
    BY <1>1, <1>2, <1>5 DEF PagesInv, PagesTyped, PolicyInv
  <2> QED BY <1>1, <1>2, <1>5, <2>1, ReaderKept DEF PagesInv
<1>6. CASE /\ policy.state = "saved"
           /\ \/ \E damage \in {"manifest", "card"} :
                    policy' = [policy EXCEPT !.damage = damage] /\ UNCHANGED copies
              \/ copies' = 1 /\ policy.damage = "none" /\ UNCHANGED policy
           /\ UNCHANGED << disk, extra, reader >>
  <2>1. /\ policy' \in Pages_Policy /\ policy'.sums = policy.sums /\ policy'.state = policy.state
        /\ copies' \in 0..1
    BY <1>3, <1>6 DEF PagesInv, PagesTyped, Pages_Policy
  <2>2. PagesTyped' /\ PolicyInv'
    BY <1>1, <1>2, <1>6, <2>1 DEF PagesInv, PagesTyped, PolicyInv
  <2> QED BY <1>1, <1>2, <1>6, <2>1, <2>2, ReaderKept DEF PagesInv
<1> QED BY <1>4, <1>5, <1>6 DEF Pages!Edit

\* A step of a page keeps the disk, so the invariant is one about the reader.
LEMMA PagesRead ==
    ASSUME PagesInv, Pages!Reads, reader' \in Pages_Reader, ReaderInv',
           edits = 0 =>
             /\ reader'.pc # "invalid"
             /\ reader'.pc = "policies" /\ reader'.missing = {} => disk["summary"] # "absent"
             /\ reader'.pc \in Verifying =>
                  policy.state = "saved" /\ reader'.version = "own" /\ disk["summary"] # "absent"
    PROVE  PagesInv'
<1>1. UNCHANGED << disk, extra, policy, copies, experiment, pinned, edits >>
  BY DEF Pages!Reads
<1>2. PagesTyped' /\ PolicyInv'
  BY <1>1 DEF PagesInv, PagesTyped, PolicyInv
<1>3. ASSUME edits' = 0 PROVE Untouched'
  BY <1>1, <1>3 DEF PagesInv, Untouched, Complete
<1> QED BY <1>1, <1>2, <1>3 DEF PagesInv

\* What a page that verifies may rely on.
LEMMA VerifyingFacts ==
    ASSUME PagesInv, reader.pc \in Verifying
    PROVE  /\ reader \in Pages_Reader /\ reader.shown \in Shows
           /\ policy.state # "absent" /\ "loao" \notin DOMAIN reader.shown
           /\ reader.summary => pinned
           /\ edits = 0 => /\ extra = FALSE /\ policy.damage = "none" /\ policy.state = "saved"
                           /\ reader.version = "own" /\ disk["summary"] # "absent"
                           /\ \A f \in Pages!FileNames \ {"summary"} : disk[f] = "written"
                           /\ \A f \in Pages!Checked : policy.sums[f] = "written"
<1>1. /\ reader \in Pages_Reader /\ reader.shown \in Shows
      /\ policy.state # "absent" /\ "loao" \notin DOMAIN reader.shown
      /\ reader.summary => pinned
  BY DEF PagesInv, PagesTyped, ReaderInv, Pages_Reader
<1>2. ASSUME edits = 0
      PROVE  /\ extra = FALSE /\ policy.damage = "none" /\ policy.state = "saved"
             /\ reader.version = "own" /\ Complete /\ \A f \in Pages!Checked : policy.sums[f] = "written"
             /\ disk["summary"] # "absent"
  BY <1>2 DEF PagesInv, Untouched
<1>3. Complete => \A f \in Pages!FileNames \ {"summary"} : disk[f] = "written"
  BY EvidenceFiles DEF Complete
<1> QED BY <1>1, <1>2, <1>3

\* Files read over what was read before.
LEMMA ShownFiles ==
    ASSUME PagesInv, reader.pc \in Verifying, NEW files \in SUBSET Pages!FileNames
    PROVE  /\ Pages!Shown(files) \in Shows
           /\ DOMAIN Pages!Shown(files) = files \union DOMAIN reader.shown
           /\ \A f \in files : Pages!Shown(files)[f] = disk[f]
           /\ \A f \in DOMAIN reader.shown : f \notin files => Pages!Shown(files)[f] = reader.shown[f]
<1>1. PICK D \in SUBSET Pages!FileNames : reader.shown \in [D -> Contents]
  BY VerifyingFacts DEF Shows
<1>2. /\ DOMAIN Pages!Shown(files) = files \union DOMAIN reader.shown
      /\ \A f \in files : Pages!Shown(files)[f] = disk[f]
      /\ \A f \in DOMAIN reader.shown : f \notin files => Pages!Shown(files)[f] = reader.shown[f]
  BY DEF Pages!Shown
<1>3. Pages!Shown(files) \in [files \union D -> Contents]
  BY <1>1 DEF Pages!Shown, PagesInv, PagesTyped
<1>4. files \union D \in SUBSET Pages!FileNames
  OBVIOUS
<1> QED BY <1>2, <1>3, <1>4 DEF Shows

LEMMA AnsweredPages ==
    ASSUME reader'.pc \in {"idle", "unavailable", "invalid"} PROVE ReaderInv'
BY DEF ReaderInv, Verifying, Verified

LEMMA PagesRequest == ASSUME PagesAssumption, PagesInv, Pages!Request PROVE PagesInv'
<1>1. Pages!Reads /\ reader \in Pages_Reader
  BY DEF Pages!Request, PagesInv, PagesTyped
<1>2. << >> \in Shows
  <2>1. << >> \in [{} -> Contents]
    OBVIOUS
  <2> QED BY <2>1 DEF Shows
<1>3. Pages!Idle \in Pages_Reader /\ DOMAIN Pages!Idle.shown = {}
  BY <1>2 DEF Pages!Idle, Pages_Reader, Pcs
<1>4. PICK summary \in BOOLEAN, pc \in {"unavailable", "invalid", "files"} :
        /\ reader' = [Pages!Idle EXCEPT !.summary = summary, !.pc = pc]
        /\ pc = "files" => (summary => pinned)
        /\ pc = "invalid" => policy.damage = "card"
  <2>1. PICK summary \in BOOLEAN :
            reader' = [Pages!Idle EXCEPT !.summary = summary,
                    !.pc = IF summary /\ (~pinned \/ policy.damage = "manifest") THEN "unavailable"
                           ELSE IF summary /\ policy.damage = "card" THEN "invalid" ELSE "files"]
    BY DEF Pages!Request
  <2> DEFINE pc == IF summary /\ (~pinned \/ policy.damage = "manifest") THEN "unavailable"
                   ELSE IF summary /\ policy.damage = "card" THEN "invalid" ELSE "files"
  <2>2. /\ pc \in {"unavailable", "invalid", "files"}
        /\ pc = "files" => (summary => pinned)
        /\ pc = "invalid" => policy.damage = "card"
        /\ reader' = [Pages!Idle EXCEPT !.summary = summary, !.pc = pc]
    BY <2>1
  <2> HIDE DEF pc
  <2> QED BY <2>2
<1>5. pc \in Pcs
  BY DEF Pcs
<1>6. /\ reader' \in Pages_Reader /\ reader'.pc = pc /\ reader'.summary = summary
      /\ DOMAIN reader'.shown = {}
  BY <1>3, <1>4, <1>5 DEF Pages_Reader
<1>7. ReaderInv'
  BY <1>1, <1>4, <1>6, AnsweredPages DEF ReaderInv, Verifying, Verified, Pages!Reads
<1>8. edits = 0 => pc # "invalid"
  BY <1>4 DEF PagesInv, Untouched
<1>9. pc \notin Verifying
  BY DEF Verifying
<1> QED BY <1>1, <1>6, <1>7, <1>8, <1>9, PagesRead

LEMMA PagesFindFiles == ASSUME PagesAssumption, PagesInv, Pages!FindFiles PROVE PagesInv'
<1>1. Pages!Reads /\ reader \in Pages_Reader /\ reader.pc = "files" /\ ReaderInv
  BY DEF Pages!FindFiles, PagesInv, PagesTyped
<1> DEFINE m == {f \in Pages!FileNames : ~Pages!Present(f)}
           pc == IF extra THEN "invalid" ELSE "policies"
<1>2. reader' = [reader EXCEPT !.pc = pc, !.missing = m]
  BY DEF Pages!FindFiles
<1>3. m \in SUBSET Pages!FileNames /\ pc \in Pcs /\ pc \in {"invalid", "policies"}
  BY DEF Pcs
<1>4. m = {} => disk["summary"] # "absent"
  BY EvidenceFiles DEF Pages!Present
<1>5. edits = 0 => pc # "invalid"
  BY DEF PagesInv, Untouched
<1>6. pc \notin Verifying
  BY <1>3 DEF Verifying
<1> HIDE DEF m, pc
<1>7. /\ reader' \in Pages_Reader /\ reader'.pc = pc /\ reader'.missing = m
      /\ reader'.shown = reader.shown /\ reader'.summary = reader.summary
  BY <1>1, <1>2, <1>3 DEF Pages_Reader
<1>8. ReaderInv'
  <2>1. CASE pc = "invalid"
    BY <1>7, <2>1, AnsweredPages
  <2>2. CASE pc = "policies"
    <3>1. DOMAIN reader'.shown = {} /\ (reader.summary => pinned)
      BY <1>1, <1>7 DEF ReaderInv
    <3>2. UNCHANGED << policy, pinned >>
      BY <1>1 DEF Pages!Reads
    <3> QED BY <1>7, <2>2, <3>1, <3>2 DEF ReaderInv, Verifying, Verified
  <2> QED BY <1>3, <2>1, <2>2
<1> QED BY <1>1, <1>4, <1>5, <1>6, <1>7, <1>8, PagesRead

LEMMA PagesFindPolicy == ASSUME PagesAssumption, PagesInv, Pages!FindPolicy PROVE PagesInv'
<1>1. Pages!Reads /\ reader \in Pages_Reader /\ reader.pc = "policies" /\ ReaderInv
  BY DEF Pages!FindPolicy, PagesInv, PagesTyped
<1> DEFINE own == policy.state = "saved" /\ policy.damage = "none"
           pc == IF own /\ copies > 0 THEN "invalid"
                 ELSE IF (~own /\ copies = 0) \/ reader.missing # {} THEN "unavailable" ELSE "parse"
           v == IF own THEN "own" ELSE "copy"
<1>2. reader' = [reader EXCEPT !.pc = pc, !.version = v]
  BY DEF Pages!FindPolicy
<1>3. v \in {"", "own", "copy"} /\ pc \in Pcs /\ pc \in {"invalid", "unavailable", "parse"}
  BY DEF Pcs, Verifying
<1>4. pc = "parse" => policy.state # "absent"
  BY DEF PagesInv, PagesTyped, PolicyInv
<1>5. edits = 0 => /\ pc # "invalid"
                   /\ pc = "parse" =>
                        policy.state = "saved" /\ v = "own" /\ disk["summary"] # "absent"
  BY <1>1 DEF PagesInv, Untouched
<1> HIDE DEF v, pc
<1>7. /\ reader' \in Pages_Reader /\ reader'.pc = pc /\ reader'.version = v
      /\ reader'.shown = reader.shown /\ reader'.summary = reader.summary
  BY <1>1, <1>2, <1>3 DEF Pages_Reader
<1>8. ReaderInv'
  <2>1. CASE pc # "parse"
    BY <1>3, <1>7, <2>1, AnsweredPages
  <2>2. CASE pc = "parse"
    <3>1. DOMAIN reader'.shown = {} /\ (reader.summary => pinned) /\ policy.state # "absent"
      BY <1>1, <1>4, <1>7, <2>2 DEF ReaderInv
    <3>2. UNCHANGED << policy, pinned >>
      BY <1>1 DEF Pages!Reads
    <3> QED BY <1>7, <2>2, <3>1, <3>2 DEF ReaderInv, Verifying, Verified
  <2> QED BY <2>1, <2>2
<1>9. pc \in Verifying => pc = "parse"
  BY <1>3 DEF Verifying
<1> QED BY <1>1, <1>3, <1>5, <1>7, <1>8, <1>9, PagesRead

\* A step of a page that verifies and goes on, with what it has read and what was
\* touched since.
LEMMA PagesReadOn ==
    ASSUME PagesInv, reader.pc \in Verifying, Pages!Reads, reader' \in Pages_Reader,
           NEW pc \in Verifying \union {"available"}, NEW shown, NEW touched, pc # "parse",
           reader'.pc = pc, reader'.shown = shown, reader'.touched = touched,
           reader'.version = reader.version, reader'.summary = reader.summary,
           pc \in Verifying => "loao" \notin DOMAIN shown,
           pc = "hash" => /\ DOMAIN shown = {"selection", "dataset"}
                          /\ Parsed("selection")' /\ Parsed("dataset")',
           pc \in Verified \union {"available"} =>
               \A f \in Pages!Checked \ touched : f \in DOMAIN shown => shown[f] = policy.sums[f],
           pc \in Verified => \A f \in Pages!Checked \ touched : disk[f] = policy.sums[f],
           pc = "rows" /\ "loao" \notin touched => disk["loao"] = "written",
           pc = "available" /\ "loao" \in DOMAIN shown /\ "loao" \notin touched
               => shown["loao"] = "written",
           pc \in {"loao", "rows"} => reader.version = "own",
           pc = "available" /\ reader.summary => reader.version = "own"
    PROVE  PagesInv'
<1>1. UNCHANGED << disk, pinned, policy >>
  BY DEF Pages!Reads
<1>2. pc \notin {"files", "policies", "parse"} /\ (pc = "available" => pc \notin Verifying \union Verified)
  BY DEF Verifying, Verified
<1>3. policy.state # "absent" /\ (reader.summary => pinned)
  BY VerifyingFacts
<1>4. ReaderInv'
  BY <1>1, <1>2, <1>3 DEF ReaderInv
<1>5. edits = 0 =>
        /\ reader'.pc # "invalid"
        /\ reader'.pc = "policies" /\ reader'.missing = {} => disk["summary"] # "absent"
        /\ reader'.pc \in Verifying =>
             policy.state = "saved" /\ reader'.version = "own" /\ disk["summary"] # "absent"
  BY <1>2, VerifyingFacts DEF Verifying
<1> QED BY <1>4, <1>5, PagesRead

LEMMA PagesReadInvalid ==
    ASSUME PagesInv, reader.pc \in Verifying, Pages!Reads, edits # 0,
           reader' \in Pages_Reader, reader'.pc = "invalid"
    PROVE  PagesInv'
BY AnsweredPages, PagesRead

\* The reader after a step that reads, and after one that takes checksums.
LEMMA ReaderAfter ==
    ASSUME PagesInv, reader.pc \in Verifying, NEW pc \in Pcs
    PROVE  /\ \A shown \in Shows :
                LET r == [reader EXCEPT !.pc = pc, !.shown = shown]
                IN  /\ r \in Pages_Reader /\ r.pc = pc /\ r.shown = shown /\ r.touched = reader.touched
                    /\ r.version = reader.version /\ r.summary = reader.summary
           /\ \A files :
                LET r == [reader EXCEPT !.pc = pc, !.touched = @ \ files]
                IN  /\ r \in Pages_Reader /\ r.pc = pc /\ r.shown = reader.shown
                    /\ r.touched = reader.touched \ files
                    /\ r.version = reader.version /\ r.summary = reader.summary
<1>1. reader \in Pages_Reader
  BY VerifyingFacts
<1> QED BY <1>1 DEF Pages_Reader

LEMMA PagesParse == ASSUME PagesAssumption, PagesInv, Pages!Parse PROVE PagesInv'
<1> DEFINE files == {"selection", "dataset"}
           bad == extra \/ (\E f \in Pages!FileNames : ~Pages!Present(f)) \/ ~Pages!Parses("selection")
                  \/ ~Pages!Parses("dataset")
           pc == IF bad THEN "invalid" ELSE "hash"
           shown == Pages!Shown(files)
<1>1. /\ reader.pc = "parse" /\ reader.pc \in Verifying /\ Pages!Reads
      /\ reader' = [reader EXCEPT !.pc = pc, !.shown = shown]
  BY DEF Pages!Parse, Verifying
<1>2. files \in SUBSET Pages!FileNames
  BY EvidenceFiles
<1>3. DOMAIN reader.shown = {}
  BY <1>1 DEF PagesInv, ReaderInv
<1>4. /\ shown \in Shows /\ DOMAIN shown = files
      /\ \A f \in files : shown[f] = disk[f]
  BY <1>1, <1>2, <1>3, ShownFiles
<1>5. bad => edits # 0
  BY <1>1, VerifyingFacts, EvidenceFiles DEF Pages!Parses, Pages!Present
<1>6. pc \in Pcs /\ (bad => pc = "invalid") /\ (~bad => pc = "hash")
  BY DEF Pcs, Verifying
<1>7. ~bad => \A f \in files : disk[f] \in {"written", "edited"}
  BY DEF Pages!Parses
<1> HIDE DEF bad, shown, pc
<1>8. /\ reader' \in Pages_Reader /\ reader'.pc = pc /\ reader'.shown = shown
      /\ reader'.touched = reader.touched
      /\ reader'.version = reader.version /\ reader'.summary = reader.summary
  BY <1>1, <1>4, <1>6, ReaderAfter
<1>9. CASE bad
  BY <1>1, <1>5, <1>6, <1>8, <1>9, PagesReadInvalid
<1>10. CASE ~bad
  <2>1. ASSUME NEW f \in files PROVE Parsed(f)'
    <3>1. disk[f] \in {"written", "edited"} /\ disk'[f] = disk[f] /\ policy' = policy
      BY <1>1, <1>7, <1>10 DEF Pages!Reads
    <3>2. policy.sums[f] = "edited" => disk[f] = "edited"
      <4>1. f \in Pages!Checked /\ policy.state # "absent" /\ PolicyInv
        BY <1>1, CheckedFiles, VerifyingFacts DEF PagesInv
      <4> QED BY <3>1, <4>1 DEF PolicyInv
    <3> QED BY <1>4, <1>8, <3>1, <3>2 DEF Parsed
  <2>2. Parsed("selection")' /\ Parsed("dataset")' /\ "loao" \notin files
    BY <2>1
  <2>3. pc = "hash" /\ pc \in Verifying \union {"available"} /\ pc \notin Verified \union {"available"}
    BY <1>6, <1>10 DEF Verifying, Verified
  <2> HIDE DEF files
  <2>4. DOMAIN shown = {"selection", "dataset"}
    BY <1>4 DEF files
  <2> QED BY <1>1, <1>4, <1>8, <2>2, <2>3, <2>4, PagesReadOn
<1> QED BY <1>9, <1>10

LEMMA PagesVerifyChecksums == ASSUME PagesAssumption, PagesInv, Pages!VerifyChecksums PROVE PagesInv'
<1> DEFINE bad == \E f \in Pages!Checked : ~Pages!Present(f) \/ disk[f] # policy.sums[f]
           pc == IF bad THEN "invalid" ELSE "tables"
<1>1. /\ reader.pc = "hash" /\ reader.pc \in Verifying /\ Pages!Reads
      /\ reader' = [reader EXCEPT !.pc = pc, !.touched = @ \ Pages!Checked]
  BY DEF Pages!VerifyChecksums, Verifying
<1>2. bad => edits # 0
  BY <1>1, CheckedFiles, VerifyingFacts DEF Pages!Present
<1>3. ~bad => \A f \in Pages!Checked : disk[f] # "absent" /\ disk[f] = policy.sums[f]
  BY DEF Pages!Present
<1>4. pc \in Pcs /\ (bad => pc = "invalid") /\ (~bad => pc = "tables")
  BY DEF Pcs, Verifying
<1> HIDE DEF bad, pc
<1>5. /\ reader' \in Pages_Reader /\ reader'.pc = pc /\ reader'.shown = reader.shown
      /\ reader'.touched = reader.touched \ Pages!Checked
      /\ reader'.version = reader.version /\ reader'.summary = reader.summary
  BY <1>1, <1>4, ReaderAfter
<1>6. CASE bad
  BY <1>1, <1>2, <1>4, <1>5, <1>6, PagesReadInvalid
<1>7. CASE ~bad
  <2>1. /\ DOMAIN reader.shown = {"selection", "dataset"}
        /\ Parsed("selection") /\ Parsed("dataset")
    BY <1>1 DEF PagesInv, ReaderInv
  <2>2. \A f \in DOMAIN reader.shown : f \in Pages!Checked /\ reader.shown[f] = policy.sums[f]
    BY <1>3, <1>7, <2>1, CheckedFiles DEF Parsed
  <2>3. /\ pc = "tables" /\ pc \in Verifying \union {"available"} /\ pc # "parse"
        /\ pc \notin {"hash", "rows", "available", "loao"}
    BY <1>4, <1>7 DEF Verifying
  <2>4. "loao" \notin DOMAIN reader.shown
    BY <2>1
  <2> QED BY <1>1, <1>3, <1>5, <1>7, <2>2, <2>3, <2>4, PagesReadOn
<1> QED BY <1>6, <1>7

LEMMA PagesReadTables == ASSUME PagesAssumption, PagesInv, Pages!ReadTables PROVE PagesInv'
<1> DEFINE files == {"known", "comparison", "confidence"}
           bad == \E f \in files : ~Pages!Parses(f)
           shown == Pages!Shown(files)
           pc == IF bad THEN "invalid" ELSE IF reader.summary THEN "identities" ELSE "available"
<1>1. /\ reader.pc = "tables" /\ reader.pc \in Verifying /\ Pages!Reads
      /\ reader' = [reader EXCEPT !.pc = pc, !.shown = shown]
  BY DEF Pages!ReadTables, Verifying
<1>2. files \in SUBSET (Pages!FileNames \ {"summary"}) /\ "loao" \notin files
  BY EvidenceFiles
<1>3. "loao" \notin DOMAIN reader.shown
  BY <1>1, VerifyingFacts
<1>4. /\ shown \in Shows /\ DOMAIN shown = files \union DOMAIN reader.shown
      /\ \A f \in files : shown[f] = disk[f]
      /\ \A f \in DOMAIN reader.shown : f \notin files => shown[f] = reader.shown[f]
  BY <1>1, <1>2, ShownFiles
<1>5. bad => edits # 0
  BY <1>1, <1>2, VerifyingFacts DEF Pages!Parses
<1>6. /\ pc \in Pcs /\ (bad => pc = "invalid")
      /\ ~bad => /\ pc \in Verifying \union {"available"}
                 /\ pc \notin {"parse", "hash", "rows", "loao"}
                 /\ pc = "available" => ~reader.summary
  BY DEF Pcs, Verifying
<1>7. /\ \A f \in Pages!Checked \ reader.touched : disk[f] = policy.sums[f]
      /\ \A f \in Pages!Checked \ reader.touched :
            f \in DOMAIN reader.shown => reader.shown[f] = policy.sums[f]
  BY <1>1 DEF PagesInv, ReaderInv, Verified
<1> HIDE DEF bad, shown, pc, files
<1>8. /\ reader' \in Pages_Reader /\ reader'.pc = pc /\ reader'.shown = shown
      /\ reader'.touched = reader.touched
      /\ reader'.version = reader.version /\ reader'.summary = reader.summary
  <2>1. pc \in Pcs /\ shown \in Shows /\ reader' = [reader EXCEPT !.pc = pc, !.shown = shown]
    BY <1>1, <1>4, <1>6
  <2>2. reader \in Pages_Reader
    BY <1>1, VerifyingFacts
  <2> QED BY <2>1, <2>2 DEF Pages_Reader
<1>9. CASE bad
  BY <1>1, <1>5, <1>6, <1>8, <1>9, PagesReadInvalid
<1>10. CASE ~bad
  <2>1. \A f \in Pages!Checked \ reader.touched : f \in DOMAIN shown => shown[f] = policy.sums[f]
    BY <1>4, <1>7
  <2>2. "loao" \notin DOMAIN shown
    BY <1>2, <1>3, <1>4
  <2> QED BY <1>1, <1>6, <1>7, <1>8, <1>10, <2>1, <2>2, PagesReadOn
<1> QED BY <1>9, <1>10

LEMMA PagesCompareIdentities == ASSUME PagesAssumption, PagesInv, Pages!CompareIdentities PROVE PagesInv'
<1> DEFINE files == {"selection", "dataset"}
           bad == \/ policy.damage # "none" \/ reader.version # "own"
                  \/ ~Pages!Parses("selection") \/ ~Pages!Parses("dataset")
           shown == Pages!Shown(files)
           pc == IF bad THEN "invalid" ELSE "loao"
<1>1. /\ reader.pc = "identities" /\ reader.pc \in Verifying /\ Pages!Reads
      /\ reader' = [reader EXCEPT !.pc = pc, !.shown = shown]
  BY DEF Pages!CompareIdentities, Verifying
<1>2. files \in SUBSET (Pages!FileNames \ {"summary"}) /\ "loao" \notin files
  BY EvidenceFiles
<1>3. "loao" \notin DOMAIN reader.shown
  BY <1>1, VerifyingFacts
<1>4. /\ shown \in Shows /\ DOMAIN shown = files \union DOMAIN reader.shown
      /\ \A f \in files : shown[f] = disk[f]
      /\ \A f \in DOMAIN reader.shown : f \notin files => shown[f] = reader.shown[f]
  BY <1>1, <1>2, ShownFiles
<1>5. bad => edits # 0
  BY <1>1, <1>2, VerifyingFacts DEF Pages!Parses
<1>6. /\ pc \in Pcs /\ (bad => pc = "invalid")
      /\ ~bad => pc = "loao" /\ pc \in Verifying \union {"available"} /\ reader.version = "own"
  BY DEF Pcs, Verifying
<1>7. /\ \A f \in Pages!Checked \ reader.touched : disk[f] = policy.sums[f]
      /\ \A f \in Pages!Checked \ reader.touched :
            f \in DOMAIN reader.shown => reader.shown[f] = policy.sums[f]
  BY <1>1 DEF PagesInv, ReaderInv, Verified
<1> HIDE DEF bad, shown, pc, files
<1>8. /\ reader' \in Pages_Reader /\ reader'.pc = pc /\ reader'.shown = shown
      /\ reader'.touched = reader.touched
      /\ reader'.version = reader.version /\ reader'.summary = reader.summary
  BY <1>1, <1>4, <1>6, ReaderAfter
<1>9. CASE bad
  BY <1>1, <1>5, <1>6, <1>8, <1>9, PagesReadInvalid
<1>10. CASE ~bad
  <2>1. \A f \in Pages!Checked \ reader.touched : f \in DOMAIN shown => shown[f] = policy.sums[f]
    BY <1>4, <1>7
  <2>2. "loao" \notin DOMAIN shown
    BY <1>2, <1>3, <1>4
  <2> QED BY <1>1, <1>6, <1>7, <1>8, <1>10, <2>1, <2>2, PagesReadOn
<1> QED BY <1>9, <1>10

LEMMA PagesVerifyLoao == ASSUME PagesAssumption, PagesInv, Pages!VerifyLoao PROVE PagesInv'
<1> DEFINE bad == disk["loao"] # "written"
           pc == IF bad THEN "invalid" ELSE "rows"
<1>1. /\ reader.pc = "loao" /\ reader.pc \in Verifying /\ Pages!Reads
      /\ reader' = [reader EXCEPT !.pc = pc, !.touched = @ \ {"loao"}]
  BY DEF Pages!VerifyLoao, Verifying
<1>2. bad => edits # 0
  BY <1>1, VerifyingFacts, EvidenceFiles
<1>3. pc \in Pcs /\ (bad => pc = "invalid") /\ (~bad => pc = "rows")
  BY DEF Pcs, Verifying
<1> HIDE DEF pc
<1>4. /\ reader' \in Pages_Reader /\ reader'.pc = pc /\ reader'.shown = reader.shown
      /\ reader'.touched = reader.touched \ {"loao"}
      /\ reader'.version = reader.version /\ reader'.summary = reader.summary
  BY <1>1, <1>3, ReaderAfter
<1>5. CASE bad
  BY <1>1, <1>2, <1>3, <1>4, <1>5, PagesReadInvalid
<1>6. CASE ~bad
  <2>1. /\ \A f \in Pages!Checked \ reader.touched : disk[f] = policy.sums[f]
        /\ \A f \in Pages!Checked \ reader.touched :
              f \in DOMAIN reader.shown => reader.shown[f] = policy.sums[f]
        /\ reader.version = "own"
    BY <1>1 DEF PagesInv, ReaderInv, Verified
  <2>2. "loao" \notin Pages!Checked
    BY DEF Pages!Checked
  <2>3. /\ \A f \in Pages!Checked \ reader'.touched : disk[f] = policy.sums[f]
        /\ \A f \in Pages!Checked \ reader'.touched :
              f \in DOMAIN reader.shown => reader.shown[f] = policy.sums[f]
    BY <1>4, <2>1, <2>2
  <2>4. pc = "rows" /\ pc \in Verifying \union {"available"} /\ "loao" \notin DOMAIN reader.shown
    BY <1>1, <1>3, <1>6, VerifyingFacts DEF Verifying
  <2> QED BY <1>1, <1>4, <1>6, <2>1, <2>3, <2>4, PagesReadOn
<1> QED BY <1>5, <1>6

LEMMA PagesReadRows == ASSUME PagesAssumption, PagesInv, Pages!ReadRows PROVE PagesInv'
<1> DEFINE files == {"known", "loao", "confidence"}
           bad == \E f \in files : ~Pages!Parses(f)
           shown == Pages!Shown(files)
           pc == IF bad THEN "invalid" ELSE "available"
<1>1. /\ reader.pc = "rows" /\ reader.pc \in Verifying /\ Pages!Reads
      /\ reader' = [reader EXCEPT !.pc = pc, !.shown = shown]
  BY DEF Pages!ReadRows, Verifying
<1>2. files \in SUBSET (Pages!FileNames \ {"summary"}) /\ "loao" \in files
  BY EvidenceFiles
<1>3. /\ shown \in Shows /\ DOMAIN shown = files \union DOMAIN reader.shown
      /\ \A f \in files : shown[f] = disk[f]
      /\ \A f \in DOMAIN reader.shown : f \notin files => shown[f] = reader.shown[f]
  BY <1>1, <1>2, ShownFiles
<1>4. bad => edits # 0
  BY <1>1, <1>2, VerifyingFacts DEF Pages!Parses
<1>5. /\ pc \in Pcs /\ (bad => pc = "invalid")
      /\ ~bad => pc = "available"
      /\ pc \notin Verifying
  BY DEF Pcs, Verifying
<1>6. /\ \A f \in Pages!Checked \ reader.touched : disk[f] = policy.sums[f]
      /\ \A f \in Pages!Checked \ reader.touched :
            f \in DOMAIN reader.shown => reader.shown[f] = policy.sums[f]
      /\ reader.version = "own" /\ ("loao" \notin reader.touched => disk["loao"] = "written")
  BY <1>1 DEF PagesInv, ReaderInv, Verified
<1> HIDE DEF bad, shown, pc, files
<1>7. /\ reader' \in Pages_Reader /\ reader'.pc = pc /\ reader'.shown = shown
      /\ reader'.touched = reader.touched
      /\ reader'.version = reader.version /\ reader'.summary = reader.summary
  BY <1>1, <1>3, <1>5, ReaderAfter
<1>8. CASE bad
  BY <1>1, <1>4, <1>5, <1>7, <1>8, PagesReadInvalid
<1>9. CASE ~bad
  <2>1. \A f \in Pages!Checked \ reader.touched : f \in DOMAIN shown => shown[f] = policy.sums[f]
    BY <1>3, <1>6
  <2>2. "loao" \notin reader.touched => shown["loao"] = "written"
    BY <1>2, <1>3, <1>6
  <2>3. pc = "available" /\ pc \notin Verified
    BY <1>5, <1>9 DEF Verified
  <2> QED BY <1>1, <1>5, <1>6, <1>7, <2>1, <2>2, <2>3, PagesReadOn
<1> QED BY <1>8, <1>9

LEMMA PagesNextRequest == ASSUME PagesAssumption, PagesInv, Pages!NextRequest PROVE PagesInv'
<1>1. Pages!Reads /\ reader' = Pages!Idle
  BY DEF Pages!NextRequest
<1>2. << >> \in Shows
  <2>1. << >> \in [{} -> Contents]
    OBVIOUS
  <2> QED BY <2>1 DEF Shows
<1>3. reader' \in Pages_Reader /\ reader'.pc = "idle"
  BY <1>1, <1>2 DEF Pages!Idle, Pages_Reader, Pcs
<1> QED BY <1>1, <1>3, AnsweredPages, PagesRead DEF Verifying

LEMMA PagesStep == PagesAssumption /\ PagesInv /\ [Pages!Next]_Pages!vars => PagesInv'
<1> SUFFICES ASSUME PagesAssumption, PagesInv, [Pages!Next]_Pages!vars PROVE PagesInv'
  OBVIOUS
<1>1. CASE UNCHANGED Pages!vars
  BY <1>1 DEF Pages!vars, PagesInv, PagesTyped, PolicyInv, ReaderInv, Parsed, Untouched, Complete
<1>2. CASE Pages!Read
  BY <1>2, PagesRequest, PagesFindFiles, PagesFindPolicy, PagesParse, PagesVerifyChecksums, PagesReadTables,
     PagesCompareIdentities, PagesVerifyLoao, PagesReadRows, PagesNextRequest DEF Pages!Read
<1>3. CASE Pages!Next
  BY <1>2, <1>3, PagesWriteEvidence, PagesSavePolicy, PagesWriteSummary, PagesCrash, PagesCompleteJob,
     PagesEdit DEF Pages!Next
<1> QED BY <1>1, <1>3

\* The invariant of the part, in the composition.
LEMMA PagesHold == ModelSpec => [](part = "pages" => PagesInv)
<1>1. ModelInit => (part = "pages" => PagesInv)
  BY ModelAssumption, PagesInit DEF ModelInit
<1>2. (part = "pages" => PagesInv) /\ [ModelNext]_ModelVars => (part = "pages" => PagesInv)'
  <2> SUFFICES ASSUME part = "pages" => PagesInv, [ModelNext]_ModelVars, part' = "pages"
               PROVE  PagesInv'
    OBVIOUS
  <2>1. part = "pages" /\ [Pages!Next]_(Pages!vars)
    BY DEF ModelNext, RegistryNext, LabNext, PinnedNext, PagesNext, SplitsNext, ModelVars, RegistryVars, LabVars,
           PinVars, PageVars, SplitVars, Pages!vars
  <2> QED BY <2>1, ModelAssumption, PagesStep
<1> QED BY <1>1, <1>2, PTL DEF ModelSpec

\* The files of an evaluation have known contents, and a page shows such files only.
THEOREM PagesTypesCorrect ==
    ASSUME PagesAssumption PROVE Pages!Spec => []Pages!TypeOK
<1>1. PagesInv => Pages!TypeOK
  <2>1. reader \in Pages_Reader => DOMAIN reader.shown \subseteq Pages!FileNames
    <3>1. SUFFICES ASSUME reader.shown \in Shows PROVE DOMAIN reader.shown \subseteq Pages!FileNames
      BY DEF Pages_Reader
    <3>2. PICK D \in SUBSET Pages!FileNames : reader.shown \in [D -> Contents]
      BY <3>1 DEF Shows
    <3> QED BY <3>2
  <2>2. policy \in Pages_Policy => policy.state \in {"absent", "staged", "saved"}
                                 /\ policy.damage \in {"none", "manifest", "card"}
    BY DEF Pages_Policy
  <2> QED BY <2>1, <2>2, EvidenceFiles DEF PagesInv, PagesTyped, Pages!TypeOK, Contents
<1> QED BY <1>1, PagesInit, PagesStep, PTL DEF Pages!Spec

\* Evidence that a page shows as verified is what the fusion policy was made from, but
\* for files touched after the page took their checksums; a summary is under the pinned
\* policy; and evidence that nobody touched is never called invalid.
LEMMA ShownIsVerified == PagesInv => Pages!EvidenceIsVerified
<1> SUFFICES ASSUME PagesInv PROVE Pages!EvidenceIsVerified
  OBVIOUS
<1>1. CASE reader.pc = "available"
  <2>1. /\ \A f \in Pages!Checked \ reader.touched :
                f \in DOMAIN reader.shown => reader.shown[f] = policy.sums[f]
        /\ "loao" \in DOMAIN reader.shown /\ "loao" \notin reader.touched
                => reader.shown["loao"] = "written"
        /\ reader.summary => pinned /\ reader.version = "own"
    BY <1>1 DEF PagesInv, ReaderInv
  <2>2. \A f \in (DOMAIN reader.shown \cap Pages!Checked) \ reader.touched :
            reader.shown[f] = policy.sums[f]
    BY <2>1
  <2>3. "loao" \in DOMAIN reader.shown \ reader.touched => reader.shown["loao"] = "written"
    BY <2>1
  <2>4. edits = 0 => reader.pc # "invalid"
    BY <1>1
  <2> QED BY <2>1, <2>2, <2>3, <2>4 DEF Pages!EvidenceIsVerified
<1>2. edits = 0 => reader.pc # "invalid"
  BY DEF PagesInv, Untouched
<1> QED BY <1>1, <1>2 DEF Pages!EvidenceIsVerified

-----------------------------------------------------------------------------
(* Pinned artifacts.                                                       *)

\* The bundles of a generation of the base root.
Generation(b) == \E n \in Nat : b = << "configured", n >>

\* The bundles a snapshot may name.
Named(b) ==
    \/ Generation(b)
    \/ \E d \in Pins!Prepared : b = << "demo", d >> /\ demo[d].bundles = b

Statuses == {"queued", "running", "recovery_pending", "failed", "completed"}

JobInv(x) ==
    /\ x.status \in Statuses
    /\ DOMAIN x = {"status", "snapshot", "ran_with"}
    /\ DOMAIN x.snapshot = Pins!Artifacts \union {"flows"}
    /\ Named(x.snapshot.bundles)
    /\ Pins!AlignedIdentities(x.snapshot)
    /\ x.ran_with \subseteq {x.snapshot}

\* A call of a process whose flow settings are f.  Once its job runs, what was read for it
\* is what the job is pinned to.
CallInv(k, f) ==
    k # Pins!Idle =>
        /\ DOMAIN k = {"pc", "purpose", "job", "root", "loaded"}
        /\ k.pc \in {"bundles", "risk_policy", "correlation_policy", "verify", "running"}
        /\ k.purpose \in {"create", "recover", "run"}
        /\ k.job \in PinnedJobs /\ k.root \in {0} \union DemoVersions
        /\ DOMAIN k.loaded = Pins!Artifacts /\ Named(k.loaded.bundles)
        /\ k.purpose # "create" => job[k.job] # Pins!NoJob
        /\ k.pc = "running" =>
                k.purpose = "run" /\ Pins!Snapshot(k.loaded, f) = job[k.job].snapshot

RunnerInv(r) ==
    /\ DOMAIN r = {"operation", "flows", "call"} /\ r.operation \in DemoVersions
    /\ CallInv(r.call, r.flows)

RunnersInv == DOMAIN runner = PinnedProcesses /\ \A p \in PinnedProcesses : RunnerInv(runner[p])

EnvironmentsInv ==
    /\ DOMAIN configured = Pins!Artifacts /\ Generation(configured.bundles)
    /\ operation \in DemoVersions /\ DOMAIN demo = DemoVersions
    /\ \A d \in Pins!Prepared : demo[d].bundles = << "demo", d >>
    /\ edits \in 0..SettingsEdits

JobsInv ==
    /\ DOMAIN job = PinnedJobs
    /\ \A j \in PinnedJobs : job[j] # Pins!NoJob => JobInv(job[j])
    /\ created \in Seq(PinnedJobs) /\ latest \in Seq(PinnedJobs)
    /\ \A j \in PinnedJobs : job[j] # Pins!NoJob <=> \E i \in 1..Len(created) : created[i] = j
    /\ \A i \in 1..Len(latest) : job[latest[i]] # Pins!NoJob

PinsInv == EnvironmentsInv /\ JobsInv /\ RunnersInv

\* What was prepared stays, and so does what a job is pinned to.
DemosStay == DOMAIN demo' = DOMAIN demo /\ \A d \in Pins!Prepared : demo'[d] = demo[d]
SnapshotsStay ==
    \A j \in PinnedJobs : job[j] # Pins!NoJob =>
        job'[j] # Pins!NoJob /\ job'[j].snapshot = job[j].snapshot

LEMMA PinsInit == PinsAssumption /\ Pins!Init => PinsInv
<1> SUFFICES ASSUME PinsAssumption, Pins!Init PROVE PinsInv
  OBVIOUS
<1>1. DOMAIN configured = Pins!Artifacts /\ configured.bundles = << "configured", 0 >>
  BY DEF Pins!Init, Pins!Origin, Pins!Artifacts
<1>2. operation \in DemoVersions
  <2>1. \E d \in DemoVersions : \A x \in DemoVersions : d <= x
    BY Smallest DEF PinsAssumption
  <2> QED BY <2>1 DEF Pins!Init
<1>3. Pins!Prepared = {} /\ DOMAIN demo = DemoVersions
  BY DEF Pins!Init, Pins!Prepared
<1>4. created \in Seq(PinnedJobs) /\ Len(created) = 0 /\ latest \in Seq(PinnedJobs) /\ Len(latest) = 0
  BY EmptySeq DEF Pins!Init
<1>5. DOMAIN job = PinnedJobs /\ \A j \in PinnedJobs : job[j] = Pins!NoJob
  BY DEF Pins!Init
<1>6. edits \in 0..SettingsEdits
  BY DEF Pins!Init, PinsAssumption
<1>7. Generation(configured.bundles)
  BY <1>1 DEF Generation
<1>8. RunnersInv
  BY <1>2 DEF Pins!Init, Pins!Started, RunnersInv, RunnerInv, CallInv
<1> QED BY <1>1, <1>2, <1>3, <1>4, <1>5, <1>6, <1>7, <1>8 DEF PinsInv, EnvironmentsInv, JobsInv

\* A snapshot keeps the bundles and the risk policy that were loaded.
LEMMA SnapshotOf ==
    ASSUME NEW loaded, DOMAIN loaded = Pins!Artifacts, NEW f
    PROVE  LET s == Pins!Snapshot(loaded, f)
           IN  /\ DOMAIN s = Pins!Artifacts \union {"flows"} /\ s.bundles = loaded.bundles
               /\ Pins!AlignedIdentities(loaded) => Pins!AlignedIdentities(s)
<1>1. "bundles" \in Pins!Artifacts /\ "bundles" # "flows"
      /\ "risk_policy" \in Pins!Artifacts /\ "risk_policy" # "flows"
  BY DEF Pins!Artifacts
<1> QED BY <1>1 DEF Pins!Snapshot, Pins!AlignedIdentities

LEMMA NamedStays == ASSUME DemosStay, EnvironmentsInv, NEW b, Named(b) PROVE Named(b)'
<1>1. \A d \in Pins!Prepared : d \in Pins!Prepared'
  BY DEF Pins!Prepared, DemosStay
<1> QED BY <1>1 DEF Named, Generation, DemosStay

LEMMA EnvironmentsAlone ==
    ASSUME EnvironmentsInv, UNCHANGED << configured, operation, demo, edits >> PROVE EnvironmentsInv' /\ DemosStay
BY DEF EnvironmentsInv, Generation, Pins!Prepared, DemosStay

LEMMA JobStays == ASSUME DemosStay, EnvironmentsInv, NEW x, JobInv(x) PROVE JobInv(x)'
<1>1. PICK b : b = x.snapshot.bundles /\ Named(b)
  BY DEF JobInv
<1>2. Named(b)'
  BY <1>1, NamedStays
<1> QED BY <1>1, <1>2 DEF JobInv, Pins!AlignedIdentities

LEMMA JobsAlone ==
    ASSUME PinsInv, DemosStay, UNCHANGED << job, created, latest >> PROVE JobsInv' /\ SnapshotsStay
<1>1. ASSUME NEW j \in PinnedJobs, job[j] # Pins!NoJob PROVE JobInv(job[j])'
  <2>1. PICK x : x = job[j]
    OBVIOUS
  <2>2. JobInv(x)'
    BY <1>1, <2>1, JobStays DEF PinsInv, JobsInv
  <2>3. job'[j] = x
    BY <2>1
  <2> QED BY <2>2, <2>3
<1> QED BY <1>1 DEF PinsInv, JobsInv, SnapshotsStay

-----------------------------------------------------------------------------
LEMMA RunnerStays ==
    ASSUME DemosStay, SnapshotsStay, EnvironmentsInv, NEW r, RunnerInv(r) PROVE RunnerInv(r)'
<1>1. CASE r.call = Pins!Idle
  BY <1>1 DEF RunnerInv, CallInv
<1>2. CASE r.call # Pins!Idle
  <2>1. PICK k, b : k = r.call /\ b = k.loaded.bundles
    OBVIOUS
  <2>2. CallInv(k, r.flows) /\ k # Pins!Idle
    BY <1>2, <2>1 DEF RunnerInv
  <2>3. Named(b)'
    BY <2>1, <2>2, NamedStays DEF CallInv
  <2>4. k.job \in PinnedJobs
    BY <2>2 DEF CallInv
  <2>5. job[k.job] # Pins!NoJob =>
            job'[k.job] # Pins!NoJob /\ job'[k.job].snapshot = job[k.job].snapshot
    BY <2>4 DEF SnapshotsStay
  <2>6. CallInv(k, r.flows)'
    BY <2>1, <2>2, <2>3, <2>5 DEF CallInv
  <2> QED BY <2>1, <2>6 DEF RunnerInv
<1> QED BY <1>1, <1>2

\* One process changes its call or is replaced.
LEMMA RunnersStep ==
    ASSUME PinsInv, DemosStay, SnapshotsStay, NEW p \in PinnedProcesses, NEW r, RunnerInv(r),
           runner' = [runner EXCEPT ![p] = r]
    PROVE  RunnersInv'
<1>1. DOMAIN runner' = PinnedProcesses
  BY DEF PinsInv, RunnersInv
<1>2. ASSUME NEW q \in PinnedProcesses PROVE RunnerInv(runner[q])'
  <2>1. PICK s : s = IF q = p THEN r ELSE runner[q]
    OBVIOUS
  <2>2. RunnerInv(s)
    BY <2>1 DEF PinsInv, RunnersInv
  <2>3. RunnerInv(s)'
    BY <2>2, RunnerStays DEF PinsInv
  <2>4. runner'[q] = s
    BY <2>1 DEF PinsInv, RunnersInv
  <2> QED BY <2>3, <2>4
<1> QED BY <1>1, <1>2 DEF RunnersInv

LEMMA RunnersAlone ==
    ASSUME PinsInv, DemosStay, SnapshotsStay, UNCHANGED runner PROVE RunnersInv'
<1>2. ASSUME NEW q \in PinnedProcesses PROVE RunnerInv(runner[q])'
  <2>1. PICK s : s = runner[q]
    OBVIOUS
  <2>2. RunnerInv(s)'
    BY <2>1, RunnerStays DEF PinsInv, RunnersInv
  <2> QED BY <2>1, <2>2
<1> QED BY <1>2 DEF PinsInv, RunnersInv

LEMMA Called ==
    ASSUME PinsInv, DemosStay, SnapshotsStay, NEW p \in PinnedProcesses, NEW k, Pins!Calling(p, k),
           CallInv(k, runner[p].flows)
    PROVE  RunnersInv'
<1>1. PICK r : r = [runner[p] EXCEPT !.call = k]
  OBVIOUS
<1>2. runner' = [runner EXCEPT ![p] = r]
  BY <1>1 DEF Pins!Calling, PinsInv, RunnersInv
<1>3. RunnerInv(r)
  BY <1>1 DEF PinsInv, RunnersInv, RunnerInv
<1> QED BY <1>2, <1>3, RunnersStep

\* A call that does nothing to the jobs and the environments.
LEMMA CallMoves ==
    ASSUME PinsInv, NEW p \in PinnedProcesses, NEW k, Pins!Calling(p, k), CallInv(k, runner[p].flows),
           UNCHANGED << job, created, latest >>, Pins!Unmoved
    PROVE  PinsInv'
<1>1. EnvironmentsInv' /\ DemosStay
  BY EnvironmentsAlone DEF PinsInv, Pins!Unmoved
<1>2. JobsInv' /\ SnapshotsStay
  BY <1>1, JobsAlone
<1> QED BY <1>1, <1>2, Called DEF PinsInv

LEMMA IdleCall == ASSUME NEW f PROVE CallInv(Pins!Idle, f)
BY DEF CallInv

\* What a call that is under way may rely on.
LEMMA CallFacts ==
    ASSUME PinsInv, NEW p \in PinnedProcesses, runner[p].call.pc # "idle"
    PROVE  LET k == runner[p].call
           IN  k # Pins!Idle /\ k.job \in PinnedJobs /\ CallInv(k, runner[p].flows)
<1>1. runner[p].call # Pins!Idle
  BY DEF Pins!Idle
<1>2. CallInv(runner[p].call, runner[p].flows)
  BY DEF PinsInv, RunnersInv, RunnerInv
<1> QED BY <1>1, <1>2 DEF CallInv

-----------------------------------------------------------------------------
\* A job that moves on keeps its snapshot.
LEMMA PinsMove ==
    ASSUME PinsInv, DemosStay, NEW j \in PinnedJobs, job[j] # Pins!NoJob, NEW x,
           job' = [job EXCEPT ![j] = x],
           x.status \in Statuses, DOMAIN x = DOMAIN job[j], x.snapshot = job[j].snapshot,
           x.ran_with \subseteq {x.snapshot},
           latest' = latest \/ latest' = Append(latest, j), UNCHANGED created
    PROVE  JobsInv' /\ SnapshotsStay
<1>1. x # Pins!NoJob
  <2>1. Pins!NoJob.status = "none"
    BY DEF Pins!NoJob
  <2> QED BY <2>1 DEF Statuses
<1>2. job'[j] = x /\ DOMAIN job' = PinnedJobs /\ \A k \in PinnedJobs : k # j => job'[k] = job[k]
  BY DEF PinsInv, JobsInv
<1>3. JobInv(x)
  BY DEF PinsInv, JobsInv, JobInv
<1>4. ASSUME NEW k \in PinnedJobs, job'[k] # Pins!NoJob PROVE JobInv(job[k])'
  <2>1. PICK y : y = job'[k]
    OBVIOUS
  <2>2. JobInv(y)
    BY <1>2, <1>3, <1>4, <2>1 DEF PinsInv, JobsInv
  <2>3. JobInv(y)'
    BY <2>2, JobStays DEF PinsInv
  <2> QED BY <2>1, <2>3
<1>5. \A k \in PinnedJobs : job'[k] # Pins!NoJob <=> job[k] # Pins!NoJob
  BY <1>1, <1>2
<1>6. latest' \in Seq(PinnedJobs) /\ \A i \in 1..Len(latest') : job'[latest'[i]] # Pins!NoJob
  <2>1. ASSUME NEW i \in 1..Len(latest) PROVE job'[latest[i]] # Pins!NoJob
    <3>1. latest[i] \in PinnedJobs /\ job[latest[i]] # Pins!NoJob
      BY <2>1, ElementOfSeq DEF PinsInv, JobsInv
    <3> QED BY <1>5, <3>1
  <2>2. CASE latest' = latest
    BY <2>1, <2>2 DEF PinsInv, JobsInv
  <2>3. CASE latest' = Append(latest, j)
    <3>1. /\ latest' \in Seq(PinnedJobs) /\ Len(latest') = Len(latest) + 1 /\ Len(latest) \in Nat
          /\ \A i \in 1..Len(latest) : latest'[i] = latest[i]
          /\ latest'[Len(latest) + 1] = j
      BY <2>3, AppendProperties, LenProperties DEF PinsInv, JobsInv
    <3>2. \A i \in 1..Len(latest') : i \in 1..Len(latest) \/ i = Len(latest) + 1
      BY <3>1
    <3> QED BY <1>1, <1>2, <2>1, <3>1, <3>2
  <2> QED BY <2>2, <2>3
<1>7. SnapshotsStay
  BY <1>1, <1>2 DEF SnapshotsStay
<1> QED BY <1>2, <1>4, <1>5, <1>6, <1>7 DEF PinsInv, JobsInv

\* The same for a change of its status alone.
LEMMA StatusMoves ==
    ASSUME PinsInv, DemosStay, NEW j \in PinnedJobs, job[j] # Pins!NoJob, NEW s \in Statuses,
           job' = [job EXCEPT ![j].status = s], UNCHANGED << created, latest >>
    PROVE  JobsInv' /\ SnapshotsStay
<1>1. PICK x, y : y = job[j] /\ x = [y EXCEPT !.status = s]
  OBVIOUS
<1>2. JobInv(y)
  BY <1>1 DEF PinsInv, JobsInv
<1>3. job' = [job EXCEPT ![j] = x]
  BY <1>1 DEF PinsInv, JobsInv
<1>4. x.status = s /\ DOMAIN x = DOMAIN y /\ x.snapshot = y.snapshot /\ x.ran_with = y.ran_with
  BY <1>1, <1>2 DEF JobInv
<1>5. x.status \in Statuses /\ x.ran_with \subseteq {x.snapshot}
  BY <1>2, <1>4 DEF JobInv
<1> QED BY <1>1, <1>3, <1>4, <1>5, PinsMove

LEMMA PinsReject ==
    ASSUME PinsInv, NEW p \in PinnedProcesses, runner[p].call.pc # "idle", Pins!Reject(p) PROVE PinsInv'
<1>1. PICK k : k = runner[p].call
  OBVIOUS
<1>2. /\ Pins!Calling(p, Pins!Idle) /\ UNCHANGED << created, latest >> /\ Pins!Unmoved
      /\ job' = IF k.purpose = "run" THEN [job EXCEPT ![k.job].status = "failed"] ELSE job
  BY <1>1 DEF Pins!Reject
<1>3. EnvironmentsInv' /\ DemosStay
  BY <1>2, EnvironmentsAlone DEF PinsInv, Pins!Unmoved
<1>4. JobsInv' /\ SnapshotsStay
  <2>1. CASE k.purpose = "run"
    <3>1. k.job \in PinnedJobs /\ job[k.job] # Pins!NoJob
      BY <1>1, <2>1, CallFacts DEF CallInv
    <3> QED BY <1>2, <1>3, <2>1, <3>1, StatusMoves DEF Statuses
  <2>2. CASE k.purpose # "run"
    BY <1>2, <1>3, <2>2, JobsAlone
  <2> QED BY <2>1, <2>2
<1> QED BY <1>2, <1>3, <1>4, IdleCall, Called DEF PinsInv

-----------------------------------------------------------------------------
(* The steps of a verification. *)

LEMMA PinsResolve ==
    ASSUME PinsInv, NEW p \in PinnedProcesses, NEW purpose \in {"create", "recover", "run"},
           NEW j \in PinnedJobs, purpose # "create" => job[j] # Pins!NoJob,
           NEW root \in {0} \union Pins!Prepared, NEW k,
           k = [pc |-> "bundles", purpose |-> purpose, job |-> j, root |-> root,
                loaded |-> [f \in Pins!Artifacts |->
                    IF f \in {"runtime_policy", "bundles"} THEN Pins!Env(root)[f]
                    ELSE Pins!Unavailable]], NEW f
    PROVE  CallInv(k, f)
<1>1. DOMAIN k.loaded = Pins!Artifacts /\ k.loaded.bundles = Pins!Env(root).bundles
  BY DEF Pins!Artifacts
<1>2. root \in {0} \union DemoVersions
  BY DEF Pins!Prepared
<1>3. Named(Pins!Env(root).bundles)
  BY DEF Pins!Env, Named, PinsInv, EnvironmentsInv
<1> QED BY <1>1, <1>2, <1>3 DEF CallInv

LEMMA PinsCreate ==
    ASSUME PinsInv, NEW p \in PinnedProcesses, NEW j \in PinnedJobs, Pins!CreateReplay(p, j)
    PROVE PinsInv'
<1>1. PICK root : /\ root = IF runner[p].operation \in Pins!Prepared THEN runner[p].operation ELSE 0
                  /\ Pins!Resolve(p, "create", j, root)
  BY DEF Pins!CreateReplay
<1>2. UNCHANGED << job, created, latest >> /\ Pins!Unmoved
  BY DEF Pins!CreateReplay
<1>3. root \in {0} \union Pins!Prepared
  BY <1>1
<1>4. PICK k : /\ k = [pc |-> "bundles", purpose |-> "create", job |-> j, root |-> root,
                       loaded |-> [f \in Pins!Artifacts |->
                           IF f \in {"runtime_policy", "bundles"} THEN Pins!Env(root)[f]
                           ELSE Pins!Unavailable]]
               /\ Pins!Calling(p, k)
  BY <1>1 DEF Pins!Resolve
<1>5. CallInv(k, runner[p].flows)
  BY <1>3, <1>4, PinsResolve
<1> QED BY <1>2, <1>4, <1>5, CallMoves

LEMMA PinsRecover ==
    ASSUME PinsInv, NEW p \in PinnedProcesses, NEW j \in PinnedJobs, Pins!Recover(p, j)
    PROVE PinsInv'
<1>1. Pins!Resolve(p, "recover", j, 0) /\ UNCHANGED << job, created, latest >> /\ Pins!Unmoved
  BY DEF Pins!Recover, Pins!RecoveryRoot
<1>2. job[j] # Pins!NoJob
  <2>1. Pins!NoJob.status = "none"
    BY DEF Pins!NoJob
  <2> QED BY <2>1 DEF Pins!Recover
<1>3. PICK k : /\ k = [pc |-> "bundles", purpose |-> "recover", job |-> j, root |-> 0,
                       loaded |-> [f \in Pins!Artifacts |->
                           IF f \in {"runtime_policy", "bundles"} THEN Pins!Env(0)[f]
                           ELSE Pins!Unavailable]]
               /\ Pins!Calling(p, k)
  BY <1>1 DEF Pins!Resolve
<1>4. CallInv(k, runner[p].flows)
  BY <1>2, <1>3, PinsResolve
<1> QED BY <1>1, <1>3, <1>4, CallMoves

\* The call goes on with the bundles it has.
LEMMA CallGoesOn ==
    ASSUME PinsInv, NEW p \in PinnedProcesses, runner[p].call.pc # "idle", NEW k, Pins!Calling(p, k),
           LET c == runner[p].call
           IN  /\ DOMAIN k = DOMAIN c /\ k.purpose = c.purpose /\ k.job = c.job /\ k.root = c.root
               /\ DOMAIN k.loaded = DOMAIN c.loaded /\ k.loaded.bundles = c.loaded.bundles,
           k.pc \in {"risk_policy", "correlation_policy", "verify"},
           UNCHANGED << job, created, latest >>, Pins!Unmoved
    PROVE  PinsInv'
<1>1. CallInv(k, runner[p].flows)
  BY CallFacts DEF CallInv
<1> QED BY <1>1, CallMoves

LEMMA PinsLoadBundles ==
    ASSUME PinsInv, NEW p \in PinnedProcesses, Pins!LoadBundles(p)
    PROVE PinsInv'
<1>1. PICK c : c = runner[p].call /\ c.pc = "bundles"
  BY DEF Pins!LoadBundles
<1>2. CASE Pins!Reject(p)
  BY <1>1, <1>2, PinsReject
<1>3. CASE ~Pins!Reject(p)
  <2>1. PICK k : k = [c EXCEPT !.pc = "risk_policy"]
    OBVIOUS
  <2>2. Pins!Calling(p, k) /\ UNCHANGED << job, created, latest >> /\ Pins!Unmoved
    BY <1>1, <1>3, <2>1 DEF Pins!LoadBundles
  <2>3. CallInv(c, runner[p].flows) /\ c # Pins!Idle
    BY <1>1, CallFacts
  <2>4. k.pc = "risk_policy" /\ DOMAIN k = DOMAIN c /\ k.purpose = c.purpose /\ k.job = c.job /\ k.root = c.root
        /\ k.loaded = c.loaded
    BY <2>1, <2>3 DEF CallInv
  <2> QED BY <1>1, <2>2, <2>4, CallGoesOn
<1> QED BY <1>2, <1>3

LEMMA PinsLoadPolicy ==
    ASSUME PinsInv, NEW p \in PinnedProcesses, NEW file \in {"risk_policy", "correlation_policy"},
           NEW next \in {"correlation_policy", "verify"}, Pins!LoadPolicy(p, file, next)
    PROVE  PinsInv'
<1>1. PICK c : c = runner[p].call /\ c.pc = file
  BY DEF Pins!LoadPolicy
<1>2. PICK k : k = [c EXCEPT !.pc = next, !.loaded[file] = Pins!Env(c.root)[file]]
  OBVIOUS
<1>3. Pins!Calling(p, k) /\ UNCHANGED << job, created, latest >> /\ Pins!Unmoved
  BY <1>1, <1>2 DEF Pins!LoadPolicy
<1>4. CallInv(c, runner[p].flows) /\ c # Pins!Idle
  BY <1>1, CallFacts
<1>5. k.pc = next /\ DOMAIN k = DOMAIN c /\ k.purpose = c.purpose /\ k.job = c.job /\ k.root = c.root
      /\ k.loaded = [c.loaded EXCEPT ![file] = Pins!Env(c.root)[file]]
  BY <1>2, <1>4 DEF CallInv
<1>6. DOMAIN k.loaded = DOMAIN c.loaded /\ k.loaded.bundles = c.loaded.bundles
  BY <1>5
<1> QED BY <1>1, <1>3, <1>5, <1>6, CallGoesOn

-----------------------------------------------------------------------------
(* The jobs. *)

LEMMA PinsAppend ==
    ASSUME PinsInv, DemosStay, NEW j \in PinnedJobs, job[j] = Pins!NoJob, NEW x, JobInv(x),
           job' = [job EXCEPT ![j] = x], created' = Append(created, j), UNCHANGED latest
    PROVE  JobsInv' /\ SnapshotsStay
<1>1. x # Pins!NoJob
  <2>1. Pins!NoJob.status = "none"
    BY DEF Pins!NoJob
  <2> QED BY <2>1 DEF JobInv, Statuses
<1>2. job'[j] = x /\ DOMAIN job' = PinnedJobs /\ \A k \in PinnedJobs : k # j => job'[k] = job[k]
  BY DEF PinsInv, JobsInv
<1>3. ASSUME NEW k \in PinnedJobs, job'[k] # Pins!NoJob PROVE JobInv(job[k])'
  <2>1. PICK y : y = job'[k]
    OBVIOUS
  <2>2. JobInv(y)
    BY <1>2, <1>3, <2>1 DEF PinsInv, JobsInv
  <2>3. JobInv(y)'
    BY <2>2, JobStays DEF PinsInv
  <2> QED BY <2>1, <2>3
<1>4. /\ created' \in Seq(PinnedJobs) /\ Len(created') = Len(created) + 1
      /\ \A i \in 1..Len(created) : created'[i] = created[i]
      /\ created'[Len(created) + 1] = j
  BY AppendProperties DEF PinsInv, JobsInv
<1>5. Len(created) \in Nat
  BY LenProperties DEF PinsInv, JobsInv
<1>6. ASSUME NEW k \in PinnedJobs PROVE job'[k] # Pins!NoJob <=> \E i \in 1..Len(created') : created'[i] = k
  <2>1. CASE k = j
    <3>1. Len(created) + 1 \in 1..Len(created')
      BY <1>4, <1>5
    <3> QED BY <1>1, <1>2, <1>4, <2>1, <3>1
  <2>2. CASE k # j
    <3>1. (\E i \in 1..Len(created') : created'[i] = k) <=> \E i \in 1..Len(created) : created[i] = k
      <4>1. \A i \in 1..Len(created') : i \in 1..Len(created) \/ i = Len(created) + 1
        BY <1>4, <1>5
      <4>2. \A i \in 1..Len(created) : i \in 1..Len(created')
        BY <1>4, <1>5
      <4> QED BY <1>4, <2>2, <4>1, <4>2
    <3> QED BY <1>2, <2>2, <3>1 DEF PinsInv, JobsInv
  <2> QED BY <2>1, <2>2
<1>7. ASSUME NEW i \in 1..Len(latest) PROVE job'[latest[i]] # Pins!NoJob
  <2>1. latest[i] \in PinnedJobs /\ job[latest[i]] # Pins!NoJob
    BY <1>7, ElementOfSeq DEF PinsInv, JobsInv
  <2> QED BY <1>2, <2>1
<1>8. SnapshotsStay
  BY <1>2 DEF SnapshotsStay
<1> QED BY <1>2, <1>3, <1>4, <1>6, <1>7, <1>8 DEF PinsInv, JobsInv

LEMMA PinsAdd == ASSUME PinsInv, NEW p \in PinnedProcesses, Pins!Add(p) PROVE PinsInv'
<1>1. PICK k : k = runner[p].call /\ k.pc = "verify"
  BY DEF Pins!Add
<1>2. CASE Pins!Reject(p)
  BY <1>1, <1>2, PinsReject
<1>3. CASE ~Pins!Reject(p)
  <2>1. PICK x : x = [status |-> "queued", snapshot |-> Pins!Snapshot(k.loaded, runner[p].flows),
                      ran_with |-> {}]
    OBVIOUS
  <2>2. /\ Pins!AlignedIdentities(k.loaded) /\ job[k.job] = Pins!NoJob
        /\ job' = [job EXCEPT ![k.job] = x] /\ created' = Append(created, k.job)
        /\ Pins!Calling(p, Pins!Idle) /\ UNCHANGED latest /\ Pins!Unmoved
    BY <1>1, <1>3, <2>1 DEF Pins!Add, Pins!MatchesPinned, Pins!FlowChecksum
  <2>3. k.job \in PinnedJobs /\ DOMAIN k.loaded = Pins!Artifacts /\ Named(k.loaded.bundles)
    BY <1>1, CallFacts DEF CallInv
  <2>4. JobInv(x)
    BY <2>1, <2>2, <2>3, SnapshotOf DEF JobInv, Statuses
  <2>5. EnvironmentsInv' /\ DemosStay
    BY <2>2, EnvironmentsAlone DEF PinsInv, Pins!Unmoved
  <2>6. JobsInv' /\ SnapshotsStay
    BY <2>2, <2>3, <2>4, <2>5, PinsAppend
  <2> QED BY <2>2, <2>5, <2>6, IdleCall, Called DEF PinsInv
<1> QED BY <1>2, <1>3

\* The job a worker takes is one that is queued.
LEMMA OldestIsQueued ==
    ASSUME PinsInv, Pins!QueuedAt # {}
    PROVE  Pins!Oldest \in PinnedJobs /\ job[Pins!Oldest] # Pins!NoJob
<1>1. DOMAIN created = 1..Len(created) /\ Len(created) \in Nat
  BY LenProperties DEF PinsInv, JobsInv
<1>2. Pins!QueuedAt \in SUBSET Nat
  BY <1>1 DEF Pins!QueuedAt
<1>3. \E m \in Pins!QueuedAt : \A k \in Pins!QueuedAt : m <= k
  BY <1>2, Smallest
<1>4. PICK m \in Pins!QueuedAt : Pins!Oldest = created[m]
  BY <1>3 DEF Pins!Oldest
<1>5. m \in 1..Len(created)
  BY <1>1, <1>4 DEF Pins!QueuedAt
<1>6. created[m] \in PinnedJobs /\ job[created[m]] # Pins!NoJob
  BY <1>5, ElementOfSeq DEF PinsInv, JobsInv
<1> QED BY <1>4, <1>6

LEMMA PinsClaimJob == ASSUME PinsInv, NEW p \in PinnedProcesses, Pins!ClaimJob(p) PROVE PinsInv'
<1>1. PICK j : j = Pins!Oldest
  OBVIOUS
<1>2. j \in PinnedJobs /\ job[j] # Pins!NoJob
  BY <1>1, OldestIsQueued DEF Pins!ClaimJob
<1>3. PICK own \in Pins!OwnRoots(p) :
            Pins!Resolve(p, "run", j, Pins!ExecutionRoot(own, job[j].snapshot))
  BY <1>1 DEF Pins!ClaimJob
<1>4. PICK root : root = Pins!ExecutionRoot(own, job[j].snapshot)
  OBVIOUS
<1>5. root \in {0} \union Pins!Prepared
  <2>1. own \in {0} \union Pins!Prepared
    BY <1>3 DEF Pins!OwnRoots, Pins!Readable
  <2> DEFINE historical == {d \in Pins!HistoricalEnvironments(job[j].snapshot) :
                               demo[d].runtime_policy = job[j].snapshot.runtime_policy}
  <2>2. historical \subseteq Pins!Prepared
    BY DEF Pins!HistoricalEnvironments
  <2>3. root = own \/ (historical # {} /\ root = CHOOSE d \in historical : TRUE)
    BY <1>4 DEF Pins!ExecutionRoot
  <2> HIDE DEF historical
  <2> QED BY <2>1, <2>2, <2>3
<1>6. PICK k : /\ k = [pc |-> "bundles", purpose |-> "run", job |-> j, root |-> root,
                       loaded |-> [f \in Pins!Artifacts |->
                           IF f \in {"runtime_policy", "bundles"} THEN Pins!Env(root)[f]
                           ELSE Pins!Unavailable]]
               /\ Pins!Calling(p, k)
  BY <1>3, <1>4 DEF Pins!Resolve
<1>7. CallInv(k, runner[p].flows)
  BY <1>2, <1>5, <1>6, PinsResolve
<1>8. job' = [job EXCEPT ![j].status = "running"] /\ UNCHANGED << created, latest >> /\ Pins!Unmoved
  BY <1>1 DEF Pins!ClaimJob
<1>9. EnvironmentsInv' /\ DemosStay
  BY <1>8, EnvironmentsAlone DEF PinsInv, Pins!Unmoved
<1>10. JobsInv' /\ SnapshotsStay
  BY <1>2, <1>8, <1>9, StatusMoves DEF Statuses
<1> QED BY <1>6, <1>7, <1>9, <1>10, Called DEF PinsInv

LEMMA PinsStartRun == ASSUME PinsInv, NEW p \in PinnedProcesses, Pins!StartRun(p) PROVE PinsInv'
<1>1. PICK c : c = runner[p].call /\ c.pc = "verify" /\ c.purpose = "run"
  BY DEF Pins!StartRun
<1>2. CASE Pins!Reject(p)
  BY <1>1, <1>2, PinsReject
<1>3. CASE ~Pins!Reject(p)
  <2>1. PICK k : k = [c EXCEPT !.pc = "running"]
    OBVIOUS
  <2>2. /\ Pins!Calling(p, k) /\ UNCHANGED << job, created, latest >> /\ Pins!Unmoved
        /\ Pins!Snapshot(c.loaded, runner[p].flows) = job[c.job].snapshot
    BY <1>1, <1>3, <2>1 DEF Pins!StartRun, Pins!MatchesPinned, Pins!FlowChecksum
  <2>3. CallInv(c, runner[p].flows) /\ c # Pins!Idle
    BY <1>1, CallFacts
  <2>4. k.pc = "running" /\ DOMAIN k = DOMAIN c /\ k.purpose = c.purpose /\ k.job = c.job /\ k.root = c.root
        /\ k.loaded = c.loaded
    BY <2>1, <2>3 DEF CallInv
  <2>5. CallInv(k, runner[p].flows)
    BY <1>1, <2>2, <2>3, <2>4 DEF CallInv
  <2> QED BY <2>2, <2>5, CallMoves
<1> QED BY <1>2, <1>3

\* A running job: what it is processed with is its snapshot.
LEMMA UsesSnapshot ==
    ASSUME PinsInv, NEW p \in PinnedProcesses, runner[p].call.pc = "running"
    PROVE  LET j == runner[p].call.job
           IN  /\ j \in PinnedJobs /\ job[j] # Pins!NoJob /\ JobInv(job[j])
               /\ Pins!Used(p) = job[j].snapshot
<1>1. PICK k : k = runner[p].call /\ k # Pins!Idle /\ CallInv(k, runner[p].flows)
  BY CallFacts
<1>2. /\ k.job \in PinnedJobs /\ job[k.job] # Pins!NoJob
      /\ Pins!Snapshot(k.loaded, runner[p].flows) = job[k.job].snapshot
  BY <1>1 DEF CallInv
<1> QED BY <1>1, <1>2 DEF Pins!Used, PinsInv, JobsInv

LEMMA PinsReplay == ASSUME PinsInv, NEW p \in PinnedProcesses, Pins!Replay(p) PROVE PinsInv'
<1>1. PICK j, y, u : /\ j = runner[p].call.job /\ y = job[j] /\ u = Pins!Used(p)
                     /\ j \in PinnedJobs /\ y # Pins!NoJob /\ JobInv(y) /\ u = y.snapshot
  BY UsesSnapshot DEF Pins!Replay
<1>2. PICK x : x = [y EXCEPT !.ran_with = @ \union {u}]
  OBVIOUS
<1>3. job' = [job EXCEPT ![j] = x] /\ UNCHANGED << runner, created, latest >> /\ Pins!Unmoved
  BY <1>1, <1>2 DEF Pins!Replay, PinsInv, JobsInv
<1>4. x.status = y.status /\ DOMAIN x = DOMAIN y /\ x.snapshot = y.snapshot
      /\ x.ran_with = y.ran_with \union {y.snapshot}
  BY <1>1, <1>2 DEF JobInv
<1>5. x.status \in Statuses /\ x.ran_with \subseteq {x.snapshot}
  BY <1>1, <1>4 DEF JobInv
<1>6. EnvironmentsInv' /\ DemosStay
  BY <1>3, EnvironmentsAlone DEF PinsInv, Pins!Unmoved
<1>7. JobsInv' /\ SnapshotsStay
  BY <1>1, <1>3, <1>4, <1>5, <1>6, PinsMove
<1> QED BY <1>3, <1>6, <1>7, RunnersAlone DEF PinsInv

LEMMA PinsCompleteRun ==
    ASSUME PinsInv, NEW p \in PinnedProcesses, Pins!CompleteRun(p)
    PROVE PinsInv'
<1>1. PICK j, y, u : /\ j = runner[p].call.job /\ y = job[j] /\ u = Pins!Used(p)
                     /\ j \in PinnedJobs /\ y # Pins!NoJob /\ JobInv(y) /\ u = y.snapshot
  BY UsesSnapshot DEF Pins!CompleteRun
<1>2. PICK x : x = [y EXCEPT !.ran_with = @ \union {u}, !.status = "completed"]
  OBVIOUS
<1>3. /\ job' = [job EXCEPT ![j].ran_with = @ \union {u}, ![j].status = "completed"]
      /\ latest' = Append(latest, j) /\ Pins!Calling(p, Pins!Idle)
      /\ UNCHANGED created /\ Pins!Unmoved
  BY <1>1 DEF Pins!CompleteRun
<1>4. job' = [job EXCEPT ![j] = x]
  BY <1>1, <1>2, <1>3 DEF PinsInv, JobsInv
<1>5. x.status = "completed" /\ DOMAIN x = DOMAIN y /\ x.snapshot = y.snapshot
      /\ x.ran_with = y.ran_with \union {y.snapshot}
  BY <1>1, <1>2 DEF JobInv
<1>6. x.status \in Statuses /\ x.ran_with \subseteq {x.snapshot}
  BY <1>1, <1>5 DEF JobInv, Statuses
<1>7. EnvironmentsInv' /\ DemosStay
  BY <1>3, EnvironmentsAlone DEF PinsInv, Pins!Unmoved
<1>8. JobsInv' /\ SnapshotsStay
  BY <1>1, <1>3, <1>4, <1>5, <1>6, <1>7, PinsMove
<1> QED BY <1>3, <1>7, <1>8, IdleCall, Called DEF PinsInv

LEMMA PinsEndRun == ASSUME PinsInv, NEW p \in PinnedProcesses, Pins!EndRun(p) PROVE PinsInv'
<1>1. PICK j : j = runner[p].call.job /\ j \in PinnedJobs /\ job[j] # Pins!NoJob
  BY UsesSnapshot DEF Pins!EndRun
<1>2. PICK s \in {"failed", "recovery_pending"} : job' = [job EXCEPT ![j].status = s]
  BY <1>1 DEF Pins!EndRun
<1>3. s \in Statuses /\ Pins!Calling(p, Pins!Idle) /\ UNCHANGED << created, latest >> /\ Pins!Unmoved
  BY DEF Pins!EndRun, Statuses
<1>4. EnvironmentsInv' /\ DemosStay
  BY <1>3, EnvironmentsAlone DEF PinsInv, Pins!Unmoved
<1>5. JobsInv' /\ SnapshotsStay
  BY <1>1, <1>2, <1>3, <1>4, StatusMoves
<1> QED BY <1>3, <1>4, <1>5, IdleCall, Called DEF PinsInv

LEMMA PinsRequeue == ASSUME PinsInv, NEW p \in PinnedProcesses, Pins!Requeue(p) PROVE PinsInv'
<1>1. PICK k : k = runner[p].call /\ k.pc = "verify" /\ k.purpose = "recover"
  BY DEF Pins!Requeue
<1>2. CASE Pins!Reject(p)
  BY <1>1, <1>2, PinsReject
<1>3. CASE ~Pins!Reject(p)
  <2>1. /\ job' = [job EXCEPT ![k.job].status = "queued"] /\ Pins!Calling(p, Pins!Idle)
        /\ UNCHANGED << created, latest >> /\ Pins!Unmoved
    BY <1>1, <1>3 DEF Pins!Requeue
  <2>2. k.job \in PinnedJobs /\ job[k.job] # Pins!NoJob
    BY <1>1, CallFacts DEF CallInv
  <2>3. EnvironmentsInv' /\ DemosStay
    BY <2>1, EnvironmentsAlone DEF PinsInv, Pins!Unmoved
  <2>4. JobsInv' /\ SnapshotsStay
    BY <2>1, <2>2, <2>3, StatusMoves DEF Statuses
  <2> QED BY <2>1, <2>3, <2>4, IdleCall, Called DEF PinsInv
<1> QED BY <1>2, <1>3

LEMMA PinsRestart == ASSUME PinsInv, NEW p \in PinnedProcesses, Pins!Restart(p) PROVE PinsInv'
<1>1. PICK k : k = runner[p].call
  OBVIOUS
<1>2. /\ runner' = [runner EXCEPT ![p] = Pins!Started(operation, flow_settings)]
      /\ job' = IF k # Pins!Idle /\ k.purpose = "run"
                THEN [job EXCEPT ![k.job].status = "recovery_pending"] ELSE job
      /\ UNCHANGED << created, latest >> /\ Pins!Unmoved
  BY <1>1 DEF Pins!Restart
<1>3. EnvironmentsInv' /\ DemosStay
  BY <1>2, EnvironmentsAlone DEF PinsInv, Pins!Unmoved
<1>4. JobsInv' /\ SnapshotsStay
  <2>1. CASE k # Pins!Idle /\ k.purpose = "run"
    <3>1. k.job \in PinnedJobs /\ job[k.job] # Pins!NoJob
      BY <1>1, <2>1 DEF PinsInv, RunnersInv, RunnerInv, CallInv
    <3> QED BY <1>2, <1>3, <2>1, <3>1, StatusMoves DEF Statuses
  <2>2. CASE ~(k # Pins!Idle /\ k.purpose = "run")
    BY <1>2, <1>3, <2>2, JobsAlone
  <2> QED BY <2>1, <2>2
<1>5. RunnerInv(Pins!Started(operation, flow_settings))
  BY IdleCall DEF Pins!Started, RunnerInv, PinsInv, EnvironmentsInv
<1> QED BY <1>2, <1>3, <1>4, <1>5, RunnersStep DEF PinsInv

-----------------------------------------------------------------------------
(* The operator and the disk. *)

LEMMA PinsOutside ==
    ASSUME PinsInv, DemosStay, EnvironmentsInv', UNCHANGED << runner, job, created, latest >>
    PROVE  PinsInv'
<1>1. JobsInv' /\ SnapshotsStay
  BY JobsAlone
<1> QED BY <1>1, RunnersAlone DEF PinsInv

LEMMA PinsPrepareDemo ==
    ASSUME PinsInv, NEW p \in PinnedProcesses, Pins!PrepareDemo(p)
    PROVE PinsInv'
<1>1. PICK d, env : d = runner[p].operation /\ env = Pins!DemoEnvironment(d)
  OBVIOUS
<1>2. d \in DemoVersions
  BY <1>1 DEF PinsInv, RunnersInv, RunnerInv
<1>3. env.bundles = << "demo", d >>
  BY <1>1 DEF Pins!DemoEnvironment, Pins!Artifacts
<1>4. /\ demo' = [demo EXCEPT ![d] = IF @ = Pins!Absent THEN env ELSE @]
      /\ UNCHANGED << configured, operation, runner, job, created, latest, edits >>
  BY <1>1 DEF Pins!PrepareDemo
<1>5. DemosStay /\ DOMAIN demo' = DemoVersions
  BY <1>4 DEF PinsInv, EnvironmentsInv, Pins!Prepared, DemosStay
<1>6. ASSUME NEW x \in DemoVersions, demo'[x] # Pins!Absent PROVE demo'[x].bundles = << "demo", x >>
  <2>1. \/ demo'[x] = demo[x] /\ x \in Pins!Prepared
        \/ x = d /\ demo'[x] = env
    BY <1>2, <1>4, <1>6 DEF PinsInv, EnvironmentsInv, Pins!Prepared
  <2> QED BY <1>3, <2>1 DEF PinsInv, EnvironmentsInv
<1>7. EnvironmentsInv'
  BY <1>4, <1>5, <1>6 DEF PinsInv, EnvironmentsInv, Generation, Pins!Prepared
<1> QED BY <1>4, <1>5, <1>7, PinsOutside

LEMMA PinsReconfigure ==
    ASSUME PinsAssumption, PinsInv, NEW fields, Pins!Reconfigure(fields)
    PROVE PinsInv'
<1>1. /\ edits < SettingsEdits /\ edits' = edits + 1 /\ edits \in 0..SettingsEdits
      /\ UNCHANGED << operation, demo, unreadable, runner, job, created, latest >>
  BY DEF Pins!Reconfigure, PinsInv, EnvironmentsInv
<1>2. edits' \in 0..SettingsEdits /\ edits' \in Nat
  BY <1>1 DEF PinsAssumption
<1>3. /\ DOMAIN configured' = Pins!Artifacts
      /\ configured'.bundles = IF "bundles" \in fields THEN << "configured", edits' >> ELSE configured.bundles
  BY DEF Pins!Reconfigure, Pins!Artifacts
<1>4. Generation(configured'.bundles)
  BY <1>2, <1>3 DEF PinsInv, EnvironmentsInv, Generation
<1>5. DemosStay /\ (\A d \in Pins!Prepared : demo[d].bundles = << "demo", d >>)'
  BY <1>1 DEF PinsInv, EnvironmentsInv, Pins!Prepared, DemosStay
<1>6. EnvironmentsInv'
  BY <1>1, <1>2, <1>3, <1>4, <1>5 DEF PinsInv, EnvironmentsInv
<1> QED BY <1>1, <1>5, <1>6, PinsOutside

LEMMA PinsOperator ==
    ASSUME PinsAssumption, PinsInv, Pins!UpgradeDemo \/ Pins!Damage
    PROVE PinsInv'
<1>1. /\ UNCHANGED << configured, demo, runner, job, created, latest >>
      /\ operation' \in DemoVersions /\ edits' \in 0..SettingsEdits
  BY DEF Pins!UpgradeDemo, Pins!Damage, PinsInv, EnvironmentsInv, PinsAssumption
<1>2. DemosStay /\ (\A d \in Pins!Prepared : demo[d].bundles = << "demo", d >>)'
  BY <1>1 DEF PinsInv, EnvironmentsInv, Pins!Prepared, DemosStay
<1>3. EnvironmentsInv'
  BY <1>1, <1>2 DEF PinsInv, EnvironmentsInv, Generation
<1> QED BY <1>1, <1>2, <1>3, PinsOutside

LEMMA PinsStep == PinsAssumption /\ PinsInv /\ [Pins!Next]_Pins!vars => PinsInv'
<1> SUFFICES ASSUME PinsAssumption, PinsInv, [Pins!Next]_Pins!vars PROVE PinsInv'
  OBVIOUS
<1>1. CASE UNCHANGED Pins!vars
  <2>1. UNCHANGED << configured, operation, demo, runner, job, created, latest, edits >>
    BY <1>1 DEF Pins!vars
  <2>2. EnvironmentsInv' /\ DemosStay
    BY <2>1, EnvironmentsAlone DEF PinsInv
  <2> QED BY <2>1, <2>2, PinsOutside
<1>2. ASSUME NEW p \in PinnedProcesses, NEW j \in PinnedJobs, Pins!CreateReplay(p, j) \/ Pins!Recover(p, j)
      PROVE  PinsInv'
  BY <1>2, PinsCreate, PinsRecover
<1>3. ASSUME NEW p \in PinnedProcesses,
             \/ Pins!PrepareDemo(p) \/ Pins!ClaimJob(p) \/ Pins!LoadBundles(p)
             \/ Pins!LoadPolicy(p, "risk_policy", "correlation_policy")
             \/ Pins!LoadPolicy(p, "correlation_policy", "verify")
      PROVE  PinsInv'
  BY <1>3, PinsPrepareDemo, PinsClaimJob, PinsLoadBundles, PinsLoadPolicy
<1>4. ASSUME NEW p \in PinnedProcesses,
             \/ Pins!Add(p) \/ Pins!StartRun(p) \/ Pins!Requeue(p)
             \/ Pins!Replay(p) \/ Pins!CompleteRun(p) \/ Pins!EndRun(p) \/ Pins!Restart(p)
      PROVE  PinsInv'
  BY <1>4, PinsAdd, PinsStartRun, PinsRequeue, PinsReplay, PinsCompleteRun, PinsEndRun, PinsRestart
<1>5. CASE Pins!Next
  BY <1>2, <1>3, <1>4, <1>5, PinsOperator, PinsReconfigure DEF Pins!Next
<1> QED BY <1>1, <1>5

\* The invariant of the part, in the composition.
LEMMA PinsHold == ModelSpec => [](part = "pinned" => PinsInv)
<1>1. ModelInit => (part = "pinned" => PinsInv)
  BY ModelAssumption, PinsInit DEF ModelInit
<1>2. (part = "pinned" => PinsInv) /\ [ModelNext]_ModelVars => (part = "pinned" => PinsInv)'
  <2> SUFFICES ASSUME part = "pinned" => PinsInv, [ModelNext]_ModelVars, part' = "pinned"
               PROVE  PinsInv'
    OBVIOUS
  <2>1. part = "pinned" /\ [Pins!Next]_(Pins!vars)
    BY DEF ModelNext, RegistryNext, LabNext, PinnedNext, PagesNext, SplitsNext, ModelVars, RegistryVars, LabVars,
           PinVars, PageVars, SplitVars, Pins!vars
  <2> QED BY <2>1, ModelAssumption, PinsStep
<1> QED BY <1>1, <1>2, PTL DEF ModelSpec

\* A job is pinned to whole environments and the lists of jobs hold jobs that were
\* created; a call that verifies has a source for every artifact.
THEOREM PinsTypesCorrect ==
    ASSUME PinsAssumption PROVE Pins!Spec => []Pins!TypeOK
<1>1. PinsInv => Pins!TypeOK
  <2> SUFFICES ASSUME PinsInv PROVE Pins!TypeOK
    OBVIOUS
  <2>1. DOMAIN created = 1..Len(created) /\ DOMAIN latest = 1..Len(latest)
    BY LenProperties DEF PinsInv, JobsInv
  <2>2. Pins!ToSet(created) = {j \in PinnedJobs : job[j] # Pins!NoJob}
    <3>1. \A i \in 1..Len(created) : created[i] \in PinnedJobs
      BY ElementOfSeq DEF PinsInv, JobsInv
    <3> QED BY <2>1, <3>1 DEF Pins!ToSet, PinsInv, JobsInv
  <2>3. Pins!ToSet(latest) \subseteq Pins!ToSet(created)
    <3>1. \A i \in 1..Len(latest) : latest[i] \in PinnedJobs /\ job[latest[i]] # Pins!NoJob
      BY ElementOfSeq DEF PinsInv, JobsInv
    <3>2. Pins!ToSet(latest) \subseteq {j \in PinnedJobs : job[j] # Pins!NoJob}
      BY <2>1, <3>1 DEF Pins!ToSet
    <3> QED BY <2>2, <3>2
  <2>4. \A j \in PinnedJobs : job[j] # Pins!NoJob =>
            /\ job[j].status \in {"queued", "running", "recovery_pending", "failed", "completed"}
            /\ DOMAIN job[j].snapshot = Pins!Artifacts \union {"flows"}
    BY DEF PinsInv, JobsInv, JobInv, Statuses
  <2>5. ASSUME NEW p \in PinnedProcesses
        PROVE  /\ runner[p].operation \in DemoVersions
               /\ runner[p].call # Pins!Idle =>
                    /\ runner[p].call.pc \in
                        {"bundles", "risk_policy", "correlation_policy", "verify", "running"}
                    /\ runner[p].call.purpose \in {"create", "recover", "run"}
                    /\ runner[p].call.job \in PinnedJobs
                    /\ runner[p].call.root \in {0} \union DemoVersions
                    /\ DOMAIN runner[p].call.loaded = Pins!Artifacts
    BY DEF PinsInv, RunnersInv, RunnerInv, CallInv
  <2> QED BY <2>2, <2>3, <2>4, <2>5 DEF PinsInv, EnvironmentsInv, Pins!TypeOK
<1> QED BY <1>1, PinsInit, PinsStep, PTL DEF Pins!Spec

\* Whatever changes between creation, attempts and recovery, and in the middle of a
\* preflight or a run, and whichever process claims the job with the settings it started
\* with: a job is processed with the artifacts of its snapshot only, and these belong
\* together.
THEOREM JobsRunPinned == ModelSpec => []RunsPinned
<1>1. PinsInv => Pins!RunsPinned
  BY DEF PinsInv, JobsInv, JobInv, Pins!RunsPinned
<1>2. (part = "pinned" => PinsInv) => RunsPinned
  BY <1>1 DEF RunsPinned
<1> QED BY <1>2, PinsHold, PTL

\* What the pages find for a bundle a snapshot may name.
LEMMA EffectiveBundle ==
    ASSUME PinsInv, NEW s, Named(s.bundles)
    PROVE  Pins!EffectiveModel(s) = IF s.bundles \in unreadable THEN Pins!Unavailable ELSE s.bundles
<1> DEFINE found == {b \in Pins!Candidates(s) : b \notin unreadable /\ Pins!Identical(b, s)}
           base == Pins!BaseBundle(Pins!VersionOf(s.bundles))
<1>1. \A b \in found : b = s.bundles /\ b \notin unreadable
  BY DEF Pins!Identical
<1>2. s.bundles \in Pins!Candidates(s)
  <2>1. CASE Generation(s.bundles)
    <3>1. PICK n \in Nat : s.bundles = << "configured", n >>
      BY <2>1 DEF Generation
    <3>2. base = s.bundles
      BY <3>1 DEF Pins!BaseBundle, Pins!VersionOf
    <3> QED BY <3>2 DEF Pins!Candidates
  <2>2. ASSUME NEW d \in Pins!Prepared, demo[d].bundles = s.bundles
        PROVE  s.bundles \in Pins!Candidates(s)
    BY <2>2 DEF Pins!Candidates, Pins!HistoricalEnvironments
  <2> QED BY <2>1, <2>2 DEF Named
<1>3. CASE s.bundles \in unreadable
  <2>1. found = {}
    BY <1>1, <1>3
  <2> QED BY <1>3, <2>1 DEF Pins!EffectiveModel
<1>4. CASE s.bundles \notin unreadable
  <2>1. found = {s.bundles}
    BY <1>1, <1>2, <1>4 DEF Pins!Identical
  <2>2. Pins!EffectiveModel(s) = IF base \in found THEN base ELSE CHOOSE b \in found : TRUE
    BY <2>1 DEF Pins!EffectiveModel
  <2>3. (CHOOSE b \in found : TRUE) = s.bundles
    BY <2>1
  <2>4. base \in found => base = s.bundles
    BY <1>1
  <2> HIDE DEF found, base
  <2> QED BY <1>4, <2>2, <2>3, <2>4
<1> QED BY <1>3, <1>4

\* The status pages name the pinned models of the latest completed job while they
\* can be read, and never other ones, although demo environments use the same
\* version names.  Whenever evidence is edited, before a page asks for it, while the page
\* hashes it or before the page reads it: what the page shows as verified is what the fusion
\* policy was made from, but for the files touched after their checksums were taken, and
\* evidence nobody touched is not called invalid.
THEOREM PagesNamePinnedModels == ModelSpec => []EffectiveIsPinned
<1>1. PinsInv => Pins!EffectiveIsPinned
  <2> SUFFICES ASSUME PinsInv, Pins!LatestCompleted # Pins!NoJob PROVE Pins!EffectiveIsPinned
    BY DEF Pins!EffectiveIsPinned
  <2>1. PICK l : l = Pins!LatestCompleted
    OBVIOUS
  <2>2. JobInv(l)
    <3>1. latest # << >> /\ l = job[Pins!Last(latest)]
      BY <2>1 DEF Pins!LatestCompleted
    <3>2. Len(latest) \in 1..Len(latest)
      BY <3>1, EmptySeq, LenProperties DEF PinsInv, JobsInv
    <3>3. latest[Len(latest)] \in PinnedJobs /\ job[latest[Len(latest)]] # Pins!NoJob
      BY <3>2, ElementOfSeq DEF PinsInv, JobsInv
    <3> QED BY <3>1, <3>3 DEF PinsInv, JobsInv, Pins!Last
  <2>3. PICK t : t = l.snapshot
    OBVIOUS
  <2>4. Named(t.bundles)
    BY <2>2, <2>3 DEF JobInv
  <2>5. Pins!EffectiveModel(t) = IF t.bundles \in unreadable THEN Pins!Unavailable ELSE t.bundles
    BY <2>4, EffectiveBundle
  <2>6. Pins!Importance(t) \in {t.bundles, Pins!Unavailable}
    BY DEF Pins!Importance
  <2> QED BY <2>1, <2>3, <2>5, <2>6 DEF Pins!EffectiveIsPinned
<1>2. (part = "pinned" => PinsInv) /\ (part = "pages" => PagesInv) => EffectiveIsPinned
  BY <1>1, ShownIsVerified DEF EffectiveIsPinned
<1> QED BY <1>2, PinsHold, PagesHold, PTL

-----------------------------------------------------------------------------
(* Experiments and bundles.                                                *)

\* A selection record says whether its model is a candidate.
Recorded(r) ==
    /\ DOMAIN r = {"config", "manifest", "model", "status"}
    /\ r.status = IF r.model.config.candidate THEN "validation_qualified" ELSE "frozen"

\* The report f of the test partition is the one of the selection r.
ReportOf(f, r) ==
    /\ f # Lab!None /\ r.status = "frozen"
    /\ f.selection = r /\ f.config = r.config /\ f.manifest = r.manifest

DirectoryOK(d) ==
    d # Lab!None =>
        /\ DOMAIN d = {"model", "selection", "frozen", "smoke", "reports"}
        /\ d.selection # Lab!None => Recorded(d.selection) /\ d.selection.model = d.model
        /\ d.frozen # Lab!None => d.selection # Lab!None /\ ReportOf(d.frozen, d.selection)

\* A caller that fills a new directory is the only one that does.
Building(s) == s.pc \in {"payload", "record"}

\* What a caller in state s may rely on, for configurations of kind k and the
\* directory d of its experiment.
HasDirectory(s, d) ==
    /\ s.pc \in {"payload", "record", "smoke", "publish", "policy", "test", "frozen", "reports",
                 "reload", "final"} => d # Lab!None
    /\ Building(s) => d.selection = Lab!None /\ d.frozen = Lab!None
    /\ s.pc = "record" => d.model = s.selection.model
    /\ s.pc \in {"smoke", "publish", "policy", "test", "frozen", "reports"} =>
            Recorded(s.selection) /\ s.selection = d.selection
    /\ s.pc = "reports" \/ (s.pc = "publish" /\ "frozen" \in DOMAIN s) => d.frozen = s.frozen

CallOK(s, k) ==
    s.pc # "idle" =>
        /\ {"pc", "config"} \subseteq DOMAIN s
        /\ s.config \in Configs /\ s.config.kind = k
        /\ s.pc \in {"fusion_create", "policy"} => k = "fusion"
        /\ s.pc = "select" => s.model.config = s.config
        /\ s.pc \in {"create", "payload", "record", "smoke", "fusion_create", "policy"} =>
                /\ "selection" \in DOMAIN s /\ "frozen" \notin DOMAIN s
                /\ Recorded(s.selection) /\ s.selection.model.config = s.config
        /\ s.pc = "smoke" => s.config.candidate
        /\ s.pc \in {"test", "frozen", "reports"} => s.selection.config = s.config
        /\ s.pc \in {"frozen", "reports"} => "frozen" \in DOMAIN s /\ ReportOf(s.frozen, s.selection)
        /\ s.pc = "publish" =>
                IF "frozen" \in DOMAIN s THEN ReportOf(s.frozen, s.selection)
                ELSE s.selection.status = "validation_qualified"

\* What is published, where d is the directory of its experiment.
BundleOK(b, k, d) ==
    b # Lab!None =>
        /\ b.experiment \in Lab!Experiments /\ d # Lab!None
        /\ b.model = d.model /\ b.selection = d.selection
        /\ Recorded(b.selection) /\ b.selection.model = b.model
        /\ b.selection.status = "frozen" /\ k # "fusion" =>
                b.frozen = d.frozen /\ ReportOf(b.frozen, b.selection)

LabInv ==
    /\ config \in Configs /\ changes \in 0..Changes
    /\ dataset \in [files : Editions, manifest : Editions]
    /\ DOMAIN store = Lab!Experiments /\ DOMAIN bundle = Lab!Versions /\ DOMAIN command = Callers
    /\ \A x \in Lab!Experiments : DirectoryOK(store[x])
    /\ \A c \in Callers : CallOK(command[c], config.kind)
    /\ \A c \in Callers : HasDirectory(command[c], store[command[c].config.experiment])
    /\ \A c, d \in Callers :
          c # d /\ Building(command[c]) /\ Building(command[d]) =>
            command[c].config.experiment # command[d].config.experiment
    /\ \A v \in Lab!Versions : BundleOK(bundle[v], config.kind, store[bundle[v].experiment])

\* What a directory held stays in it.
Grows(d, e) ==
    d # Lab!None =>
        /\ e # Lab!None
        /\ d.selection # Lab!None => e.selection = d.selection /\ e.model = d.model
        /\ d.frozen # Lab!None => e.frozen = d.frozen

-----------------------------------------------------------------------------
LEMMA NoneIsNoRecord ==
    /\ DOMAIN Lab!None = {"absent"}
    /\ \A r : Recorded(r) => r # Lab!None
    /\ Lab!EmptyStore # Lab!None
BY DEF Lab!None, Recorded, Lab!EmptyStore

\* A bundle stays evaluated while directories grow.
LEMMA BundleStays ==
    ASSUME NEW b, NEW k, NEW d, NEW e, BundleOK(b, k, d), Grows(d, e)
    PROVE  BundleOK(b, k, e)
BY NoneIsNoRecord DEF BundleOK, Grows, ReportOf

\* So does what a caller knows that builds no directory.
LEMMA DirectoryStays ==
    ASSUME NEW s, NEW k, NEW d, NEW e, CallOK(s, k), HasDirectory(s, d), Grows(d, e), ~Building(s)
    PROVE  HasDirectory(s, e)
BY NoneIsNoRecord DEF CallOK, HasDirectory, Grows, ReportOf, Building

LEMMA IdleIsOK ==
    ASSUME NEW k, NEW d
    PROVE  /\ CallOK(Lab!Idle, k) /\ HasDirectory(Lab!Idle, d) /\ ~Building(Lab!Idle)
BY DEF CallOK, HasDirectory, Building, Lab!Idle

\* A caller goes on; the directories stay as they are.
LEMMA CallerGoesOn ==
    ASSUME LabInv, NEW c \in Callers, NEW s, command' = [command EXCEPT ![c] = s],
           UNCHANGED << config, dataset, store, bundle >>,
           changes' = changes \/ changes' \in 0..Changes,
           CallOK(s, config.kind), HasDirectory(s, store[s.config.experiment]),
           Building(s) => Building(command[c]) /\ s.config = command[c].config
    PROVE  LabInv'
<1>1. DOMAIN command' = Callers
  BY DEF LabInv
<1>2. \A d \in Callers : command'[d] = IF d = c THEN s ELSE command[d]
  BY DEF LabInv
<1>3. \A d \in Callers : /\ CallOK(command'[d], config.kind)
                         /\ HasDirectory(command'[d], store[command'[d].config.experiment])
  BY <1>2 DEF LabInv
<1>4. \A d, e \in Callers :
          d # e /\ Building(command'[d]) /\ Building(command'[e]) =>
            command'[d].config.experiment # command'[e].config.experiment
  <2> SUFFICES ASSUME NEW d \in Callers, NEW e \in Callers, d # e,
                      Building(command'[d]), Building(command'[e])
               PROVE  command'[d].config.experiment # command'[e].config.experiment
    OBVIOUS
  <2>1. \A f \in Callers : Building(command'[f]) =>
                Building(command[f]) /\ command'[f].config = command[f].config
    BY <1>2
  <2> QED BY <2>1 DEF LabInv
<1> QED BY <1>1, <1>3, <1>4 DEF LabInv

\* A caller publishes a bundle under a version that was free.
LEMMA CallerPublishes ==
    ASSUME LabInv, NEW c \in Callers, NEW s, command' = [command EXCEPT ![c] = s],
           UNCHANGED << config, dataset, changes, store >>,
           CallOK(s, config.kind), HasDirectory(s, store[s.config.experiment]), ~Building(s),
           NEW v \in Lab!Versions, NEW b, bundle' = [bundle EXCEPT ![v] = b],
           BundleOK(b, config.kind, store[b.experiment])
    PROVE  LabInv'
<1>1. DOMAIN command' = Callers /\ DOMAIN bundle' = Lab!Versions
  BY DEF LabInv
<1>2. /\ \A d \in Callers : command'[d] = IF d = c THEN s ELSE command[d]
      /\ \A u \in Lab!Versions : bundle'[u] = IF u = v THEN b ELSE bundle[u]
  BY DEF LabInv
<1>3. \A d \in Callers : /\ CallOK(command'[d], config.kind)
                         /\ HasDirectory(command'[d], store[command'[d].config.experiment])
  BY <1>2 DEF LabInv
<1>4. \A d, e \in Callers :
          d # e /\ Building(command'[d]) /\ Building(command'[e]) =>
            command'[d].config.experiment # command'[e].config.experiment
  BY <1>2 DEF LabInv
<1>5. \A u \in Lab!Versions : BundleOK(bundle'[u], config.kind, store[bundle'[u].experiment])
  BY <1>2 DEF LabInv
<1> QED BY <1>1, <1>3, <1>4, <1>5 DEF LabInv

\* A caller writes into the directory of x.
LEMMA CallerWrites ==
    ASSUME LabInv, NEW c \in Callers, NEW s, command' = [command EXCEPT ![c] = s],
           UNCHANGED << config, dataset, changes, bundle >>,
           NEW x \in Lab!Experiments, NEW d, store' = [store EXCEPT ![x] = d],
           d # Lab!None, DirectoryOK(d), Grows(store[x], d),
           \/ \A e \in Callers : e # c /\ Building(command[e]) => command[e].config.experiment # x
           \/ /\ store[x] # Lab!None
              /\ d.model = store[x].model /\ d.selection = store[x].selection
              /\ d.frozen = store[x].frozen
              /\ ~Building(s),
           CallOK(s, config.kind), s.pc # "idle" => HasDirectory(s, d) /\ s.config.experiment = x
    PROVE  LabInv'
<1>1. DOMAIN command' = Callers /\ DOMAIN store' = Lab!Experiments
  BY DEF LabInv
<1>2. /\ \A e \in Callers : command'[e] = IF e = c THEN s ELSE command[e]
      /\ \A y \in Lab!Experiments : store'[y] = IF y = x THEN d ELSE store[y]
  BY DEF LabInv
<1>3. \A y \in Lab!Experiments : DirectoryOK(store'[y]) /\ Grows(store[y], store'[y])
  BY <1>2 DEF LabInv, Grows
<1>4. \A e \in Callers : CallOK(command'[e], config.kind)
  BY <1>2 DEF LabInv
<1>5. ASSUME NEW e \in Callers
      PROVE  HasDirectory(command'[e], store'[command'[e].config.experiment])
  <2>1. CASE command'[e].pc = "idle"
    BY <2>1 DEF HasDirectory, Building
  <2>2. CASE e = c /\ s.pc # "idle"
    BY <1>2, <2>2
  <2>3. CASE e # c /\ command[e].pc # "idle"
    <3> DEFINE y == command[e].config.experiment
    <3>1. /\ command'[e] = command[e] /\ CallOK(command[e], config.kind)
          /\ HasDirectory(command[e], store[y]) /\ y \in Lab!Experiments
      BY <1>2, <2>3 DEF LabInv, CallOK, Lab!Experiments
    <3>2. CASE ~Building(command[e])
      BY <1>3, <3>1, <3>2, DirectoryStays
    <3>3. CASE y # x
      BY <1>2, <3>1, <3>3
    <3>4. CASE Building(command[e]) /\ y = x
      BY <1>2, <2>3, <3>1, <3>4 DEF HasDirectory, Building
    <3> QED BY <3>2, <3>3, <3>4
  <2> QED BY <1>2, <2>1, <2>2, <2>3
<1>6. \A e, f \in Callers :
          e # f /\ Building(command'[e]) /\ Building(command'[f]) =>
            command'[e].config.experiment # command'[f].config.experiment
  <2>1. Building(s) => s.config.experiment = x
    BY DEF Building
  <2> QED BY <1>2, <2>1 DEF LabInv
<1>7. \A v \in Lab!Versions : BundleOK(bundle[v], config.kind, store'[bundle[v].experiment])
  <2> SUFFICES ASSUME NEW v \in Lab!Versions, bundle[v] # Lab!None
               PROVE  BundleOK(bundle[v], config.kind, store'[bundle[v].experiment])
    BY DEF BundleOK
  <2>1. BundleOK(bundle[v], config.kind, store[bundle[v].experiment])
    BY DEF LabInv
  <2>2. bundle[v].experiment \in Lab!Experiments
    BY <2>1 DEF BundleOK
  <2> QED BY <1>3, <2>1, <2>2, BundleStays
<1> QED BY <1>1, <1>3, <1>4, <1>5, <1>6, <1>7 DEF LabInv
LEMMA LabInit == LabAssumption /\ Lab!Init => LabInv
<1> SUFFICES ASSUME LabAssumption, Lab!Init PROVE LabInv
  OBVIOUS
<1>1. /\ DOMAIN store = Lab!Experiments /\ DOMAIN bundle = Lab!Versions /\ DOMAIN command = Callers
      /\ config \in Configs /\ changes \in 0..Changes
      /\ dataset \in [files : Editions, manifest : Editions]
  BY DEF Lab!Init, LabAssumption
<1>2. /\ \A x \in Lab!Experiments : store[x] = Lab!None
      /\ \A v \in Lab!Versions : bundle[v] = Lab!None
      /\ \A c \in Callers : command[c] = Lab!Idle
  BY DEF Lab!Init
<1>3. \A x \in Lab!Experiments : DirectoryOK(store[x])
  BY <1>2 DEF DirectoryOK
<1>4. \A v \in Lab!Versions : BundleOK(bundle[v], config.kind, store[bundle[v].experiment])
  BY <1>2 DEF BundleOK
<1>5. \A c \in Callers : /\ CallOK(command[c], config.kind) /\ ~Building(command[c])
                         /\ HasDirectory(command[c], store[command[c].config.experiment])
  BY <1>2, IdleIsOK
<1> QED BY <1>1, <1>3, <1>4, <1>5 DEF LabInv

\* A call that ends, or is ended, leaves everything as it is.
LEMMA CallerEnds ==
    ASSUME LabInv, NEW c \in Callers, command' = [command EXCEPT ![c] = Lab!Idle],
           UNCHANGED << config, dataset, store, bundle >>,
           changes' = changes \/ changes' \in 0..Changes
    PROVE  LabInv'
BY IdleIsOK, CallerGoesOn

-----------------------------------------------------------------------------
\* Training.
LEMMA TrainBeginStep ==
    ASSUME LabInv, NEW c \in Callers, Lab!TrainBegin(c)
    PROVE  LabInv'
<1>1. PICK s : s = [pc |-> "read", config |-> config, manifest |-> dataset.manifest]
  OBVIOUS
<1>2. command' = [command EXCEPT ![c] = s] /\ UNCHANGED << config, dataset, changes, store, bundle >>
  BY <1>1 DEF Lab!TrainBegin, Lab!Becomes, Lab!Outside
<1>3. CallOK(s, config.kind) /\ ~Building(s) /\ HasDirectory(s, store[s.config.experiment])
  BY <1>1 DEF CallOK, Building, HasDirectory, LabInv
<1> QED BY <1>2, <1>3, CallerGoesOn

LEMMA TrainFitStep ==
    ASSUME LabInv, NEW c \in Callers, Lab!TrainFit(c)
    PROVE  LabInv'
<1>1. CASE Lab!Raise(c)
  BY <1>1, CallerEnds DEF Lab!TrainFit, Lab!Raise, Lab!Becomes, Lab!Outside
<1>2. CASE ~Lab!Raise(c)
  <2>1. PICK s : s = [pc |-> "select", config |-> command[c].config, manifest |-> command[c].manifest,
                      model |-> Lab!Model(command[c].config, dataset.files)]
    OBVIOUS
  <2>2. command' = [command EXCEPT ![c] = s] /\ UNCHANGED << config, dataset, changes, store, bundle >>
    BY <1>2, <2>1 DEF Lab!TrainFit, Lab!Becomes, Lab!Outside
  <2>3. command[c].config \in Configs /\ command[c].config.kind = config.kind
    BY DEF LabInv, CallOK, Lab!TrainFit, Lab!At
  <2>4. CallOK(s, config.kind) /\ ~Building(s) /\ HasDirectory(s, store[s.config.experiment])
    BY <2>1, <2>3 DEF CallOK, Building, HasDirectory, Lab!Model
  <2> QED BY <2>2, <2>4, CallerGoesOn
<1> QED BY <1>1, <1>2

LEMMA TrainSelectStep ==
    ASSUME LabInv, NEW c \in Callers, Lab!TrainSelect(c)
    PROVE  LabInv'
<1>1. PICK r : r = Lab!Selection(config, command[c].manifest, command[c].model)
  OBVIOUS
<1>2. PICK s : s = [pc |-> "create", config |-> command[c].config, selection |-> r]
  OBVIOUS
<1>3. command' = [command EXCEPT ![c] = s] /\ UNCHANGED << config, dataset, changes, store, bundle >>
  BY <1>1, <1>2 DEF Lab!TrainSelect, Lab!Becomes, Lab!Outside
<1>4. /\ command[c].config \in Configs /\ command[c].config.kind = config.kind
      /\ command[c].model.config = command[c].config
  BY DEF LabInv, CallOK, Lab!TrainSelect, Lab!At
<1>5. Recorded(r) /\ r.model = command[c].model
  BY <1>1 DEF Recorded, Lab!Selection
<1>6. CallOK(s, config.kind) /\ ~Building(s) /\ HasDirectory(s, store[s.config.experiment])
  BY <1>2, <1>4, <1>5 DEF CallOK, Building, HasDirectory
<1> QED BY <1>3, <1>6, CallerGoesOn

-----------------------------------------------------------------------------
\* What a caller that is past its start knows of itself.
LEMMA CallerFacts ==
    ASSUME LabInv, NEW c \in Callers, command[c].pc # "idle"
    PROVE  /\ CallOK(command[c], config.kind)
           /\ HasDirectory(command[c], store[command[c].config.experiment])
           /\ command[c].config \in Configs /\ {"pc", "config"} \subseteq DOMAIN command[c]
           /\ command[c].config.experiment \in Lab!Experiments
           /\ command[c].config.version \in Lab!Versions
           /\ DirectoryOK(store[command[c].config.experiment])
BY DEF LabInv, CallOK, Lab!Experiments, Lab!Versions

\* Nobody builds a directory that has its selection, or that does not exist.
LEMMA NobodyBuilds ==
    ASSUME LabInv, NEW x, store[x] = Lab!None \/ store[x].selection # Lab!None,
           NEW e \in Callers, Building(command[e])
    PROVE  command[e].config.experiment # x
BY DEF LabInv, HasDirectory, Building

LEMMA CreateStoreStep ==
    ASSUME LabInv, NEW c \in Callers, Lab!CreateStore(c)
    PROVE  LabInv'
<1>1. CASE Lab!Raise(c)
  BY <1>1, CallerEnds DEF Lab!CreateStore, Lab!Raise, Lab!Becomes, Lab!Outside
<1>2. CASE ~Lab!Raise(c)
  <2>1. PICK x : x = command[c].config.experiment
    OBVIOUS
  <2>2. PICK s : s = [command[c] EXCEPT !.pc = "payload"]
    OBVIOUS
  <2>3. /\ command' = [command EXCEPT ![c] = s] /\ UNCHANGED << config, dataset, changes, bundle >>
        /\ store' = [store EXCEPT ![x] = Lab!EmptyStore] /\ store[x] = Lab!None
        /\ command[c].pc = "create"
    BY <1>2, <2>1, <2>2 DEF Lab!CreateStore, Lab!Becomes, Lab!Continue, Lab!Outside, Lab!At, Lab!Directory
  <2>4. CallOK(command[c], config.kind) /\ {"pc", "config"} \subseteq DOMAIN command[c] /\ x \in Lab!Experiments
    BY <2>1, <2>3, CallerFacts
  <2>5. /\ DOMAIN s = DOMAIN command[c] /\ s.pc = "payload" /\ s.config = command[c].config
        /\ s.selection = command[c].selection
    BY <2>2, <2>4
  <2>6. CallOK(s, config.kind)
    BY <2>3, <2>4, <2>5 DEF CallOK
  <2>7. /\ DirectoryOK(Lab!EmptyStore) /\ Grows(store[x], Lab!EmptyStore)
        /\ HasDirectory(s, Lab!EmptyStore)
    BY <2>3, <2>5, NoneIsNoRecord DEF DirectoryOK, Grows, HasDirectory, Building, Lab!EmptyStore
  <2>8. \A e \in Callers : Building(command[e]) => command[e].config.experiment # x
    BY <2>3, NobodyBuilds
  <2>9. PICK d : d = Lab!EmptyStore
    OBVIOUS
  <2>10. d # Lab!None /\ DirectoryOK(d) /\ Grows(store[x], d) /\ HasDirectory(s, d)
    BY <2>7, <2>9, NoneIsNoRecord
  <2>11. store' = [store EXCEPT ![x] = d]
    BY <2>3, <2>9
  <2>12. s.config.experiment = x
    BY <2>1, <2>5
  <2> QED BY <2>3, <2>4, <2>6, <2>8, <2>10, <2>11, <2>12, CallerWrites
<1> QED BY <1>1, <1>2

LEMMA WritePayloadStep ==
    ASSUME LabInv, NEW c \in Callers, Lab!WritePayload(c)
    PROVE  LabInv'
<1>1. PICK x : x = command[c].config.experiment
  OBVIOUS
<1>2. PICK s : s = [command[c] EXCEPT !.pc = "record"]
  OBVIOUS
<1>3. PICK d : d = [store[x] EXCEPT !.model = command[c].selection.model]
  OBVIOUS
<1>4. /\ command' = [command EXCEPT ![c] = s] /\ UNCHANGED << config, dataset, changes, bundle >>
      /\ store' = [store EXCEPT ![x] = d] /\ command[c].pc = "payload"
  BY <1>1, <1>2, <1>3 DEF Lab!WritePayload, Lab!Becomes, Lab!Continue, Lab!Outside, Lab!At
<1>5. /\ CallOK(command[c], config.kind) /\ {"pc", "config"} \subseteq DOMAIN command[c]
      /\ x \in Lab!Experiments /\ DirectoryOK(store[x]) /\ HasDirectory(command[c], store[x])
  BY <1>1, <1>4, CallerFacts
<1>6. /\ DOMAIN s = DOMAIN command[c] /\ s.pc = "record" /\ s.config = command[c].config
      /\ s.selection = command[c].selection
  BY <1>2, <1>5, <1>4 DEF CallOK
<1>7. /\ store[x] # Lab!None /\ store[x].selection = Lab!None /\ store[x].frozen = Lab!None
      /\ DOMAIN store[x] = {"model", "selection", "frozen", "smoke", "reports"}
  BY <1>4, <1>5 DEF HasDirectory, Building, DirectoryOK
<1>8. /\ DOMAIN d = {"model", "selection", "frozen", "smoke", "reports"}
      /\ d.selection = Lab!None /\ d.frozen = Lab!None /\ d.model = s.selection.model
  BY <1>3, <1>6, <1>7
<1>9. CallOK(s, config.kind)
  BY <1>4, <1>5, <1>6 DEF CallOK
<1>10. /\ d # Lab!None /\ DirectoryOK(d) /\ Grows(store[x], d) /\ HasDirectory(s, d)
  BY <1>6, <1>7, <1>8, NoneIsNoRecord DEF DirectoryOK, Grows, HasDirectory, Building
<1>11. \A e \in Callers : e # c /\ Building(command[e]) => command[e].config.experiment # x
  BY <1>1, <1>4 DEF LabInv, Building
<1> QED BY <1>1, <1>4, <1>5, <1>6, <1>9, <1>10, <1>11, CallerWrites

LEMMA WriteRecordStep ==
    ASSUME LabInv, NEW c \in Callers, Lab!WriteRecord(c)
    PROVE  LabInv'
<1>1. PICK x : x = command[c].config.experiment
  OBVIOUS
<1>2. PICK s : s = IF command[c].config.candidate THEN [command[c] EXCEPT !.pc = "smoke"] ELSE Lab!Idle
  OBVIOUS
<1>3. PICK d : d = [store[x] EXCEPT !.selection = command[c].selection]
  OBVIOUS
<1>4. /\ command' = [command EXCEPT ![c] = s] /\ UNCHANGED << config, dataset, changes, bundle >>
      /\ store' = [store EXCEPT ![x] = d] /\ command[c].pc = "record"
  BY <1>1, <1>2, <1>3 DEF Lab!WriteRecord, Lab!Becomes, Lab!Continue, Lab!Outside, Lab!At
<1>5. /\ CallOK(command[c], config.kind) /\ {"pc", "config"} \subseteq DOMAIN command[c]
      /\ x \in Lab!Experiments /\ DirectoryOK(store[x]) /\ HasDirectory(command[c], store[x])
  BY <1>1, <1>4, CallerFacts
<1>6. /\ store[x] # Lab!None /\ store[x].selection = Lab!None /\ store[x].frozen = Lab!None
      /\ DOMAIN store[x] = {"model", "selection", "frozen", "smoke", "reports"}
      /\ store[x].model = command[c].selection.model /\ Recorded(command[c].selection)
  BY <1>4, <1>5 DEF HasDirectory, Building, DirectoryOK, CallOK
<1>7. /\ DOMAIN d = {"model", "selection", "frozen", "smoke", "reports"}
      /\ d.selection = command[c].selection /\ d.frozen = Lab!None /\ d.model = d.selection.model
  BY <1>3, <1>6
<1>8. d # Lab!None /\ DirectoryOK(d) /\ Grows(store[x], d)
  BY <1>6, <1>7, NoneIsNoRecord DEF DirectoryOK, Grows
<1>9. CallOK(s, config.kind) /\ (s.pc # "idle" => HasDirectory(s, d) /\ s.config.experiment = x)
  <2>1. CASE command[c].config.candidate
    <3>1. /\ DOMAIN s = DOMAIN command[c] /\ s.pc = "smoke" /\ s.config = command[c].config
          /\ s.selection = command[c].selection
      BY <1>2, <1>4, <1>5, <2>1 DEF CallOK
    <3>2. CallOK(s, config.kind)
      BY <1>4, <1>5, <2>1, <3>1 DEF CallOK
    <3>3. HasDirectory(s, d)
      BY <1>6, <1>7, <1>8, <3>1 DEF HasDirectory, Building
    <3> QED BY <1>1, <3>1, <3>2, <3>3
  <2>2. CASE ~command[c].config.candidate
    BY <1>2, <2>2, IdleIsOK DEF Lab!Idle
  <2> QED BY <2>1, <2>2
<1>10. \A e \in Callers : e # c /\ Building(command[e]) => command[e].config.experiment # x
  BY <1>1, <1>4 DEF LabInv, Building
<1> QED BY <1>4, <1>5, <1>8, <1>9, <1>10, CallerWrites
-----------------------------------------------------------------------------
\* A candidate's smoke tests.
LEMMA CandidateSmokeStep ==
    ASSUME LabInv, NEW c \in Callers, Lab!CandidateSmoke(c)
    PROVE  LabInv'
<1>0. PICK x : x = command[c].config.experiment
  OBVIOUS
<1>1. command[c].pc = "smoke" /\ UNCHANGED << config, dataset, changes, bundle >>
  BY DEF Lab!CandidateSmoke, Lab!At, Lab!Outside
<1>2. /\ CallOK(command[c], config.kind) /\ {"pc", "config"} \subseteq DOMAIN command[c]
      /\ x \in Lab!Experiments /\ DirectoryOK(store[x]) /\ HasDirectory(command[c], store[x])
  BY <1>0, <1>1, CallerFacts
<1>3. /\ store[x] # Lab!None
      /\ DOMAIN store[x] = {"model", "selection", "frozen", "smoke", "reports"}
      /\ Recorded(command[c].selection) /\ command[c].selection = store[x].selection
      /\ command[c].selection.status = "validation_qualified"
  BY <1>1, <1>2 DEF HasDirectory, DirectoryOK, CallOK, Recorded
<1>4. CASE Lab!Continue(c, "publish") /\ UNCHANGED store
  <2>1. PICK s : s = [command[c] EXCEPT !.pc = "publish"]
    OBVIOUS
  <2>2. command' = [command EXCEPT ![c] = s]
    BY <1>4, <2>1 DEF Lab!Continue, Lab!Becomes
  <2>3. /\ DOMAIN s = DOMAIN command[c] /\ s.pc = "publish" /\ s.config = command[c].config
        /\ s.selection = command[c].selection
        /\ "frozen" \notin DOMAIN s
    BY <1>1, <1>2, <2>1 DEF CallOK
  <2>4. CallOK(s, config.kind) /\ ~Building(s) /\ HasDirectory(s, store[x])
    BY <1>1, <1>2, <1>3, <2>3 DEF CallOK, HasDirectory, Building
  <2> QED BY <1>0, <1>1, <1>4, <2>2, <2>3, <2>4, CallerGoesOn
<1>5. CASE /\ store' = [store EXCEPT ![x].smoke = "failed"]
           /\ Lab!Becomes(c, Lab!Idle)
  <2>1. PICK d : d = [store[x] EXCEPT !.smoke = "failed"]
    OBVIOUS
  <2>2. store' = [store EXCEPT ![x] = d]
    BY <1>5, <2>1
  <2>3. PICK s : s = Lab!Idle
    OBVIOUS
  <2>4. command' = [command EXCEPT ![c] = s] /\ s.pc = "idle" /\ ~Building(s) /\ CallOK(s, config.kind)
    BY <1>5, <2>3, IdleIsOK DEF Lab!Becomes, Lab!Idle
  <2>5. DOMAIN d = DOMAIN store[x]
        /\ d.model = store[x].model /\ d.selection = store[x].selection /\ d.frozen = store[x].frozen
    BY <1>3, <2>1
  <2>6. d # Lab!None /\ DirectoryOK(d) /\ Grows(store[x], d)
    BY <1>2, <1>3, <2>5, NoneIsNoRecord DEF DirectoryOK, Grows
  <2> QED BY <1>1, <1>2, <1>3, <2>2, <2>4, <2>5, <2>6, CallerWrites
<1> QED BY <1>0, <1>4, <1>5 DEF Lab!CandidateSmoke

\* Writes into a directory that leave the model, the selection and the report alone, and
\* after which the caller is done or publishes.
LEMMA CallerMarks ==
    ASSUME LabInv, NEW c \in Callers, NEW s, command' = [command EXCEPT ![c] = s],
           UNCHANGED << config, dataset, changes, bundle >>, command[c].pc # "idle",
           NEW x, x = command[c].config.experiment, NEW d, store' = [store EXCEPT ![x] = d],
           store[x] # Lab!None, DOMAIN d = DOMAIN store[x], d.model = store[x].model,
           d.selection = store[x].selection, d.frozen = store[x].frozen,
           ~Building(s), CallOK(s, config.kind), s.pc # "idle" => HasDirectory(s, store[x]),
           s.pc # "idle" => s.config.experiment = x
    PROVE  LabInv'
<1>1. DirectoryOK(store[x]) /\ x \in Lab!Experiments
  BY CallerFacts
<1>2. d # Lab!None
  <2>1. DOMAIN d = {"model", "selection", "frozen", "smoke", "reports"}
    BY <1>1 DEF DirectoryOK
  <2>2. {"model", "selection", "frozen", "smoke", "reports"} # {"absent"}
    OBVIOUS
  <2> QED BY <2>1, <2>2, NoneIsNoRecord
<1>3. DirectoryOK(d) /\ Grows(store[x], d)
  BY <1>1, <1>2 DEF DirectoryOK, Grows
<1>4. HasDirectory(s, store[x]) => HasDirectory(s, d)
  BY <1>2 DEF HasDirectory
<1> QED BY <1>1, <1>2, <1>3, <1>4, CallerWrites

LEMMA CandidateReloadStep ==
    ASSUME LabInv, NEW c \in Callers, Lab!CandidateReload(c)
    PROVE  LabInv'
<1>0. PICK x : x = command[c].config.experiment
  OBVIOUS
<1>1. command[c].pc = "reload" /\ UNCHANGED << config, dataset, changes, bundle >>
  BY DEF Lab!CandidateReload, Lab!At, Lab!Outside
<1>2. DirectoryOK(store[x]) /\ HasDirectory(command[c], store[x])
  BY <1>0, <1>1, CallerFacts
<1>3. PICK s : s = Lab!Idle
  OBVIOUS
<1>4. command' = [command EXCEPT ![c] = s] /\ s.pc = "idle" /\ ~Building(s) /\ CallOK(s, config.kind)
  BY <1>3, IdleIsOK DEF Lab!CandidateReload, Lab!Becomes, Lab!Idle
<1>5. CASE UNCHANGED store
  BY <1>1, <1>3, <1>4, <1>5, CallerEnds
<1>6. CASE store' = [store EXCEPT ![x].smoke = "passed"]
  <2>1. PICK d : d = [store[x] EXCEPT !.smoke = "passed"]
    OBVIOUS
  <2>2. store' = [store EXCEPT ![x] = d]
    BY <1>6, <2>1
  <2>3. /\ store[x] # Lab!None
        /\ DOMAIN store[x] = {"model", "selection", "frozen", "smoke", "reports"}
    BY <1>1, <1>2 DEF HasDirectory, DirectoryOK
  <2>4. /\ DOMAIN d = DOMAIN store[x] /\ d.model = store[x].model
        /\ d.selection = store[x].selection /\ d.frozen = store[x].frozen
    BY <2>1, <2>3
  <2> QED BY <1>0, <1>1, <1>4, <2>2, <2>3, <2>4, CallerMarks
<1> QED BY <1>0, <1>5, <1>6 DEF Lab!CandidateReload

-----------------------------------------------------------------------------
\* Evaluation of the test partition.
LEMMA EvaluateBeginStep ==
    ASSUME LabInv, NEW c \in Callers, Lab!EvaluateBegin(c)
    PROVE  LabInv'
<1>1. PICK x : x = config.experiment
  OBVIOUS
<1>2. PICK r : r = store[x].selection
  OBVIOUS
<1>3. PICK s : s = [pc |-> "test", config |-> config, manifest |-> dataset.manifest, selection |-> r]
  OBVIOUS
<1>4. /\ command' = [command EXCEPT ![c] = s] /\ UNCHANGED << config, dataset, changes, store, bundle >>
      /\ store[x] # Lab!None /\ r # Lab!None /\ r.config = config
  BY <1>1, <1>2, <1>3 DEF Lab!EvaluateBegin, Lab!Becomes, Lab!Outside, Lab!ConfigUnchanged
<1>5. config \in Configs /\ x \in Lab!Experiments /\ DirectoryOK(store[x])
  BY <1>1 DEF LabInv, Lab!Experiments
<1>6. Recorded(r)
  BY <1>2, <1>4, <1>5 DEF DirectoryOK
<1>7. CallOK(s, config.kind) /\ ~Building(s) /\ HasDirectory(s, store[x])
  BY <1>2, <1>3, <1>4, <1>5, <1>6 DEF CallOK, HasDirectory, Building
<1> QED BY <1>1, <1>3, <1>4, <1>7, CallerGoesOn

LEMMA ReadTestStep ==
    ASSUME LabInv, NEW c \in Callers, Lab!ReadTest(c)
    PROVE  LabInv'
<1>1. CASE Lab!Raise(c)
  BY <1>1, CallerEnds DEF Lab!ReadTest, Lab!Raise, Lab!Becomes, Lab!Outside
<1>2. CASE ~Lab!Raise(c)
  <2>0. PICK f : f = Lab!Frozen(command[c].selection, command[c].config, command[c].manifest)
    OBVIOUS
  <2>1. PICK s : s = [pc |-> "frozen", config |-> command[c].config,
                      selection |-> command[c].selection, frozen |-> f]
    OBVIOUS
  <2>2. /\ command' = [command EXCEPT ![c] = s] /\ UNCHANGED << config, dataset, changes, store, bundle >>
        /\ command[c].pc = "test" /\ command[c].selection.status = "frozen"
        /\ command[c].selection.manifest = command[c].manifest
    BY <1>2, <2>0, <2>1 DEF Lab!ReadTest, Lab!TestOpens, Lab!Becomes, Lab!Outside, Lab!At
  <2>3. PICK x : x = command[c].config.experiment
    OBVIOUS
  <2>4. /\ CallOK(command[c], config.kind) /\ HasDirectory(command[c], store[x])
        /\ command[c].selection.config = command[c].config
    BY <2>2, <2>3, CallerFacts DEF CallOK
  <2>5. f # Lab!None
    <3>1. DOMAIN f = {"selection", "config", "manifest"}
      BY <2>0 DEF Lab!Frozen
    <3>2. {"selection", "config", "manifest"} # {"absent"}
      OBVIOUS
    <3> QED BY <3>1, <3>2, NoneIsNoRecord
  <2>6. ReportOf(f, command[c].selection)
    BY <2>0, <2>2, <2>4, <2>5 DEF ReportOf, Lab!Frozen
  <2>7. CallOK(s, config.kind) /\ ~Building(s) /\ HasDirectory(s, store[x])
    BY <2>1, <2>2, <2>4, <2>6 DEF CallOK, HasDirectory, Building
  <2> QED BY <2>1, <2>2, <2>3, <2>7, CallerGoesOn
<1> QED BY <1>1, <1>2

LEMMA WriteFrozenStep ==
    ASSUME LabInv, NEW c \in Callers, Lab!WriteFrozen(c)
    PROVE  LabInv'
<1>1. CASE Lab!Raise(c)
  BY <1>1, CallerEnds DEF Lab!WriteFrozen, Lab!Raise, Lab!Becomes, Lab!Outside
<1>2. CASE ~Lab!Raise(c)
  <2>1. PICK x : x = command[c].config.experiment
    OBVIOUS
  <2>2. PICK s : s = [command[c] EXCEPT !.pc = "reports"]
    OBVIOUS
  <2>3. PICK d : d = [store[x] EXCEPT !.frozen = command[c].frozen]
    OBVIOUS
  <2>4. /\ command' = [command EXCEPT ![c] = s] /\ UNCHANGED << config, dataset, changes, bundle >>
        /\ store' = [store EXCEPT ![x] = d] /\ command[c].pc = "frozen" /\ store[x].frozen = Lab!None
    BY <1>2, <2>1, <2>2, <2>3
       DEF Lab!WriteFrozen, Lab!Becomes, Lab!Continue, Lab!Outside, Lab!At, Lab!Directory
  <2>5. /\ CallOK(command[c], config.kind) /\ {"pc", "config"} \subseteq DOMAIN command[c]
        /\ x \in Lab!Experiments /\ DirectoryOK(store[x]) /\ HasDirectory(command[c], store[x])
    BY <2>1, <2>4, CallerFacts
  <2>6. /\ store[x] # Lab!None /\ Recorded(command[c].selection)
        /\ DOMAIN store[x] = {"model", "selection", "frozen", "smoke", "reports"}
        /\ command[c].selection = store[x].selection /\ store[x].selection # Lab!None
        /\ store[x].selection.model = store[x].model
        /\ ReportOf(command[c].frozen, command[c].selection) /\ "frozen" \in DOMAIN command[c]
        /\ command[c].selection.config = command[c].config
    BY <2>4, <2>5, NoneIsNoRecord DEF HasDirectory, DirectoryOK, CallOK
  <2>7. /\ s.pc = "reports" /\ s.config = command[c].config /\ s.selection = command[c].selection
        /\ s.frozen = command[c].frozen /\ DOMAIN s = DOMAIN command[c]
    BY <2>2, <2>5, <2>6
  <2>8. /\ DOMAIN d = {"model", "selection", "frozen", "smoke", "reports"}
        /\ d.selection = store[x].selection /\ d.model = store[x].model
        /\ d.frozen = command[c].frozen
    BY <2>3, <2>6
  <2>9. CallOK(s, config.kind)
    BY <2>4, <2>5, <2>6, <2>7 DEF CallOK
  <2>10. d # Lab!None
    BY <2>8, NoneIsNoRecord
  <2>11. DirectoryOK(d) /\ Grows(store[x], d) /\ HasDirectory(s, d)
    BY <2>4, <2>6, <2>7, <2>8, <2>10 DEF DirectoryOK, Grows, HasDirectory, Building
  <2>12. \A e \in Callers : Building(command[e]) => command[e].config.experiment # x
    BY <2>6, NobodyBuilds
  <2>13. s.config.experiment = x
    BY <2>1, <2>7
  <2> QED BY <2>4, <2>5, <2>9, <2>10, <2>11, <2>12, <2>13, CallerWrites
<1> QED BY <1>1, <1>2

LEMMA WriteReportsStep ==
    ASSUME LabInv, NEW c \in Callers, Lab!WriteReports(c)
    PROVE  LabInv'
<1>1. PICK x : x = command[c].config.experiment
  OBVIOUS
<1>2. PICK s : s = [command[c] EXCEPT !.pc = "publish"]
  OBVIOUS
<1>3. PICK d : d = [store[x] EXCEPT !.reports = TRUE]
  OBVIOUS
<1>4. /\ command' = [command EXCEPT ![c] = s] /\ UNCHANGED << config, dataset, changes, bundle >>
      /\ store' = [store EXCEPT ![x] = d] /\ command[c].pc = "reports"
  BY <1>1, <1>2, <1>3 DEF Lab!WriteReports, Lab!Becomes, Lab!Continue, Lab!Outside, Lab!At
<1>5. /\ CallOK(command[c], config.kind) /\ {"pc", "config"} \subseteq DOMAIN command[c]
      /\ DirectoryOK(store[x]) /\ HasDirectory(command[c], store[x])
  BY <1>1, <1>4, CallerFacts
<1>6. /\ store[x] # Lab!None /\ DOMAIN store[x] = {"model", "selection", "frozen", "smoke", "reports"}
      /\ "frozen" \in DOMAIN command[c] /\ ReportOf(command[c].frozen, command[c].selection)
  BY <1>4, <1>5 DEF HasDirectory, DirectoryOK, CallOK
<1>7. /\ s.pc = "publish" /\ s.config = command[c].config /\ s.selection = command[c].selection
      /\ s.frozen = command[c].frozen /\ DOMAIN s = DOMAIN command[c]
  BY <1>2, <1>5, <1>6
<1>8. /\ DOMAIN d = DOMAIN store[x] /\ d.model = store[x].model
      /\ d.selection = store[x].selection /\ d.frozen = store[x].frozen
  BY <1>3, <1>6
<1>9. CallOK(s, config.kind) /\ ~Building(s) /\ HasDirectory(s, store[x])
  BY <1>4, <1>5, <1>6, <1>7 DEF CallOK, HasDirectory, Building
<1>10. s.config.experiment = x
  BY <1>1, <1>7
<1> QED BY <1>1, <1>4, <1>6, <1>8, <1>9, <1>10, CallerMarks
-----------------------------------------------------------------------------
\* Publication.
LEMMA SaveBundleStep ==
    ASSUME LabInv, NEW c \in Callers, Lab!SaveBundle(c)
    PROVE  LabInv'
<1>1. CASE Lab!Raise(c)
  BY <1>1, CallerEnds DEF Lab!SaveBundle, Lab!Raise, Lab!Becomes, Lab!Outside
<1>2. CASE ~Lab!Raise(c)
  <2>1. PICK x : x = command[c].config.experiment
    OBVIOUS
  <2>2. PICK v : v = command[c].config.version
    OBVIOUS
  <2>3. PICK b : b = Lab!Published(c)
    OBVIOUS
  <2>4. PICK s : s = IF command[c].config.candidate THEN [command[c] EXCEPT !.pc = "reload"]
                     ELSE Lab!Idle
    OBVIOUS
  <2>5. /\ command' = [command EXCEPT ![c] = s] /\ UNCHANGED << config, dataset, changes, store >>
        /\ bundle' = [bundle EXCEPT ![v] = b] /\ command[c].pc = "publish"
    BY <1>2, <2>2, <2>3, <2>4
       DEF Lab!SaveBundle, Lab!Becomes, Lab!Continue, Lab!Outside, Lab!At
  <2>6. /\ CallOK(command[c], config.kind) /\ {"pc", "config"} \subseteq DOMAIN command[c]
        /\ x \in Lab!Experiments /\ v \in Lab!Versions
        /\ DirectoryOK(store[x]) /\ HasDirectory(command[c], store[x])
    BY <2>1, <2>2, <2>5, CallerFacts
  <2>7. /\ store[x] # Lab!None /\ Recorded(command[c].selection)
        /\ command[c].selection = store[x].selection
        /\ command[c].selection.model = store[x].model
        /\ IF "frozen" \in DOMAIN command[c]
           THEN /\ ReportOf(command[c].frozen, command[c].selection)
                /\ store[x].frozen = command[c].frozen
           ELSE command[c].selection.status = "validation_qualified"
    BY <2>5, <2>6, NoneIsNoRecord DEF HasDirectory, DirectoryOK, CallOK
  <2>8. /\ b.experiment = x /\ b.model = store[x].model /\ b.selection = command[c].selection
        /\ b.frozen = IF "frozen" \in DOMAIN command[c] THEN command[c].frozen ELSE Lab!None
    BY <2>1, <2>3 DEF Lab!Published, Lab!Directory
  <2>9. BundleOK(b, config.kind, store[b.experiment])
    BY <2>6, <2>7, <2>8 DEF BundleOK
  <2>10. /\ CallOK(s, config.kind) /\ ~Building(s)
         /\ HasDirectory(s, store[s.config.experiment])
    <3>1. CASE command[c].config.candidate
      <4>1. s.pc = "reload" /\ s.config = command[c].config /\ DOMAIN s = DOMAIN command[c]
        BY <2>4, <2>6, <3>1
      <4> QED BY <2>1, <2>5, <2>6, <2>7, <4>1 DEF CallOK, HasDirectory, Building
    <3>2. CASE ~command[c].config.candidate
      BY <2>4, <3>2, IdleIsOK
    <3> QED BY <3>1, <3>2
  <2> QED BY <2>5, <2>6, <2>9, <2>10, CallerPublishes
<1> QED BY <1>1, <1>2

LEMMA FusionBeginStep ==
    ASSUME LabInv, NEW c \in Callers, Lab!FusionBegin(c)
    PROVE  LabInv'
<1>1. PICK r : r = Lab!Selection(config, 0, Lab!Model(config, 0))
  OBVIOUS
<1>2. PICK s : s = [pc |-> "fusion_create", config |-> config, selection |-> r]
  OBVIOUS
<1>3. /\ command' = [command EXCEPT ![c] = s] /\ UNCHANGED << config, dataset, changes, store, bundle >>
      /\ config.kind = "fusion"
  BY <1>1, <1>2 DEF Lab!FusionBegin, Lab!Becomes, Lab!Outside, Lab!Kind
<1>4. Recorded(r) /\ r.model.config = config /\ config \in Configs
  BY <1>1 DEF Recorded, Lab!Selection, Lab!Model, LabInv
<1>5. CallOK(s, config.kind) /\ ~Building(s) /\ HasDirectory(s, store[s.config.experiment])
  BY <1>2, <1>3, <1>4 DEF CallOK, Building, HasDirectory
<1> QED BY <1>3, <1>5, CallerGoesOn

LEMMA FusionEvidenceStep ==
    ASSUME LabInv, NEW c \in Callers, Lab!FusionEvidence(c)
    PROVE  LabInv'
<1>1. CASE Lab!Raise(c)
  BY <1>1, CallerEnds DEF Lab!FusionEvidence, Lab!Raise, Lab!Becomes, Lab!Outside
<1>2. CASE ~Lab!Raise(c)
  <2>1. PICK x : x = command[c].config.experiment
    OBVIOUS
  <2>2. PICK complete \in BOOLEAN :
          /\ store' = [store EXCEPT ![x] =
                [Lab!EmptyStore EXCEPT !.model = command[c].selection.model,
                    !.selection = IF complete THEN command[c].selection ELSE Lab!None]]
          /\ IF complete THEN Lab!Continue(c, "policy") ELSE Lab!Becomes(c, Lab!Idle)
    BY <1>2, <2>1 DEF Lab!FusionEvidence
  <2>3. /\ store[x] = Lab!None /\ command[c].pc = "fusion_create"
        /\ UNCHANGED << config, dataset, changes, bundle >>
    BY <1>2, <2>1 DEF Lab!FusionEvidence, Lab!Directory, Lab!At, Lab!Outside
  <2>4. PICK d : d = [Lab!EmptyStore EXCEPT !.model = command[c].selection.model,
                        !.selection = IF complete THEN command[c].selection ELSE Lab!None]
    OBVIOUS
  <2>5. PICK s : s = IF complete THEN [command[c] EXCEPT !.pc = "policy"] ELSE Lab!Idle
    OBVIOUS
  <2>6. command' = [command EXCEPT ![c] = s] /\ store' = [store EXCEPT ![x] = d]
    BY <2>2, <2>4, <2>5 DEF Lab!Continue, Lab!Becomes
  <2>7. /\ CallOK(command[c], config.kind) /\ {"pc", "config"} \subseteq DOMAIN command[c]
        /\ x \in Lab!Experiments /\ Recorded(command[c].selection) /\ config.kind = "fusion"
    BY <2>1, <2>3, CallerFacts DEF CallOK
  <2>8. /\ DOMAIN d = {"model", "selection", "frozen", "smoke", "reports"}
        /\ d.model = command[c].selection.model /\ d.frozen = Lab!None
        /\ d.selection = IF complete THEN command[c].selection ELSE Lab!None
    BY <2>4 DEF Lab!EmptyStore
  <2>9. d # Lab!None /\ DirectoryOK(d) /\ Grows(store[x], d)
    BY <2>3, <2>7, <2>8, NoneIsNoRecord DEF DirectoryOK, Grows
  <2>10. CallOK(s, config.kind) /\ (s.pc # "idle" => HasDirectory(s, d) /\ s.config.experiment = x)
    <3>1. CASE complete
      <4>1. /\ s.pc = "policy" /\ s.config = command[c].config /\ DOMAIN s = DOMAIN command[c]
            /\ s.selection = command[c].selection
        BY <2>3, <2>5, <2>7, <3>1 DEF CallOK
      <4>2. CallOK(s, config.kind)
        BY <2>3, <2>7, <4>1 DEF CallOK
      <4>3. HasDirectory(s, d)
        BY <2>7, <2>8, <2>9, <3>1, <4>1 DEF HasDirectory, Building
      <4> QED BY <2>1, <4>1, <4>2, <4>3
    <3>2. CASE ~complete
      BY <2>5, <3>2, IdleIsOK DEF Lab!Idle
    <3> QED BY <3>1, <3>2
  <2>11. \A e \in Callers : Building(command[e]) => command[e].config.experiment # x
    BY <2>3, NobodyBuilds
  <2> QED BY <2>3, <2>6, <2>7, <2>9, <2>10, <2>11, CallerWrites
<1> QED BY <1>1, <1>2

LEMMA FusionPolicyStep ==
    ASSUME LabInv, NEW c \in Callers, Lab!FusionPolicy(c)
    PROVE  LabInv'
<1>1. CASE Lab!Raise(c)
  BY <1>1, CallerEnds DEF Lab!FusionPolicy, Lab!Raise, Lab!Becomes, Lab!Outside
<1>2. CASE ~Lab!Raise(c)
  <2>1. PICK x : x = command[c].config.experiment
    OBVIOUS
  <2>2. PICK v : v = command[c].config.version
    OBVIOUS
  <2>3. PICK b : b = Lab!Published(c)
    OBVIOUS
  <2>4. PICK s : s = [command[c] EXCEPT !.pc = "final"]
    OBVIOUS
  <2>5. /\ command' = [command EXCEPT ![c] = s] /\ UNCHANGED << config, dataset, changes, store >>
        /\ bundle' = [bundle EXCEPT ![v] = b] /\ command[c].pc = "policy"
    BY <1>2, <2>2, <2>3, <2>4
       DEF Lab!FusionPolicy, Lab!Becomes, Lab!Continue, Lab!Outside, Lab!At
  <2>6. /\ CallOK(command[c], config.kind) /\ {"pc", "config"} \subseteq DOMAIN command[c]
        /\ x \in Lab!Experiments /\ v \in Lab!Versions
        /\ DirectoryOK(store[x]) /\ HasDirectory(command[c], store[x])
    BY <2>1, <2>2, <2>5, CallerFacts
  <2>7. /\ store[x] # Lab!None /\ Recorded(command[c].selection) /\ config.kind = "fusion"
        /\ command[c].selection = store[x].selection
        /\ command[c].selection.model = store[x].model
    BY <2>5, <2>6, NoneIsNoRecord DEF HasDirectory, DirectoryOK, CallOK
  <2>8. b.experiment = x /\ b.model = store[x].model /\ b.selection = command[c].selection
    BY <2>1, <2>3 DEF Lab!Published, Lab!Directory
  <2>9. BundleOK(b, config.kind, store[b.experiment])
    BY <2>6, <2>7, <2>8 DEF BundleOK
  <2>10. s.pc = "final" /\ s.config = command[c].config /\ DOMAIN s = DOMAIN command[c]
    BY <2>4, <2>6
  <2>11. /\ CallOK(s, config.kind) /\ ~Building(s)
         /\ HasDirectory(s, store[s.config.experiment])
    BY <2>1, <2>5, <2>6, <2>7, <2>10 DEF CallOK, HasDirectory, Building
  <2> QED BY <2>5, <2>6, <2>9, <2>11, CallerPublishes
<1> QED BY <1>1, <1>2

LEMMA FusionFinalStep ==
    ASSUME LabInv, NEW c \in Callers, Lab!FusionFinal(c)
    PROVE  LabInv'
<1>1. PICK x : x = command[c].config.experiment
  OBVIOUS
<1>2. PICK s : s = Lab!Idle
  OBVIOUS
<1>3. PICK d : d = [store[x] EXCEPT !.reports = TRUE]
  OBVIOUS
<1>4. /\ command' = [command EXCEPT ![c] = s] /\ UNCHANGED << config, dataset, changes, bundle >>
      /\ store' = [store EXCEPT ![x] = d] /\ command[c].pc = "final"
  BY <1>1, <1>2, <1>3 DEF Lab!FusionFinal, Lab!Becomes, Lab!Outside, Lab!At
<1>5. store[x] # Lab!None /\ DOMAIN store[x] = {"model", "selection", "frozen", "smoke", "reports"}
  BY <1>1, <1>4, CallerFacts DEF HasDirectory, DirectoryOK
<1>6. /\ DOMAIN d = DOMAIN store[x] /\ d.model = store[x].model
      /\ d.selection = store[x].selection /\ d.frozen = store[x].frozen
  BY <1>3, <1>5
<1>7. s.pc = "idle" /\ ~Building(s) /\ CallOK(s, config.kind)
  BY <1>2, IdleIsOK DEF Lab!Idle
<1> QED BY <1>1, <1>4, <1>5, <1>6, <1>7, CallerMarks

-----------------------------------------------------------------------------
\* Edits of the configuration and of the data set, and calls that die.
LEMMA OutsideStep ==
    ASSUME LabAssumption, LabInv,
           Lab!Reconfigure \/ Lab!PublishFiles \/ Lab!PublishManifest
    PROVE  LabInv'
<1>1. /\ UNCHANGED << store, bundle, command >>
      /\ config' \in Configs /\ config'.kind = config.kind
  BY DEF LabInv, Lab!Reconfigure, Lab!PublishFiles, Lab!PublishManifest, Lab!OfKind, Lab!Kind
<1>2. changes' \in 0..Changes
  BY DEF LabAssumption, LabInv, Lab!Reconfigure, Lab!PublishFiles, Lab!PublishManifest, Lab!Changed
<1>3. dataset' \in [files : Editions, manifest : Editions]
  BY DEF LabInv, Lab!Reconfigure, Lab!PublishFiles, Lab!PublishManifest
<1> QED BY <1>1, <1>2, <1>3 DEF LabInv

LEMMA StopStep ==
    ASSUME LabAssumption, LabInv, NEW c \in Callers, Lab!Stop(c)
    PROVE  LabInv'
<1>1. changes' \in 0..Changes
  BY DEF LabAssumption, LabInv, Lab!Stop, Lab!Changed
<1> QED BY <1>1, CallerEnds DEF Lab!Stop, Lab!Becomes

LEMMA LabStep ==
    LabAssumption /\ LabInv /\ [Lab!Next]_(Lab!vars) => LabInv'
<1> SUFFICES ASSUME LabAssumption, LabInv, [Lab!Next]_(Lab!vars)
             PROVE  LabInv'
  OBVIOUS
<1>1. CASE UNCHANGED Lab!vars
  BY <1>1 DEF Lab!vars, LabInv
<1>2. ASSUME NEW c \in Callers, Lab!Step(c) PROVE LabInv'
  BY <1>2, TrainBeginStep, TrainFitStep, TrainSelectStep, CreateStoreStep, WritePayloadStep,
     WriteRecordStep, CandidateSmokeStep, CandidateReloadStep, EvaluateBeginStep, ReadTestStep,
     WriteFrozenStep, WriteReportsStep, SaveBundleStep, FusionBeginStep, FusionEvidenceStep,
     FusionPolicyStep, FusionFinalStep, StopStep
     DEF Lab!Step
<1> QED BY <1>1, <1>2, OutsideStep DEF Lab!Next

\* The invariant, in the words of the properties.
LEMMA BundleEvaluated == LabInv => Lab!BundleIsEvaluated
<1> SUFFICES ASSUME LabInv, NEW v \in Lab!Versions, bundle[v] # Lab!None,
                    NEW d, d = store[bundle[v].experiment]
             PROVE  /\ d # Lab!None
                    /\ bundle[v].model = d.model /\ bundle[v].selection = d.selection
                    /\ bundle[v].selection.model = bundle[v].model
                    /\ bundle[v].selection.status = "frozen" /\ config.kind # "fusion" =>
                            /\ bundle[v].frozen # Lab!None /\ bundle[v].frozen = d.frozen
                            /\ bundle[v].frozen.selection = bundle[v].selection
                            /\ bundle[v].frozen.config = bundle[v].selection.config
                            /\ bundle[v].frozen.manifest = bundle[v].selection.manifest
                    /\ bundle[v].selection.status = "validation_qualified" => d.frozen = Lab!None
  BY DEF Lab!BundleIsEvaluated, Lab!Kind
<1>1. BundleOK(bundle[v], config.kind, d) /\ DirectoryOK(d)
  BY DEF LabInv, BundleOK
<1>2. d # Lab!None /\ bundle[v].selection = d.selection
  BY <1>1 DEF BundleOK
<1>3. bundle[v].selection.status = "validation_qualified" => d.frozen = Lab!None
  BY <1>1, <1>2 DEF DirectoryOK, ReportOf
<1> QED BY <1>1, <1>3 DEF BundleOK, ReportOf

LEMMA LabTypes == LabInv => Lab!TypeOK
<1> SUFFICES ASSUME LabInv PROVE Lab!TypeOK
  OBVIOUS
<1>1. \A x \in Lab!Experiments : store[x] = Lab!None \/ DOMAIN store[x] = DOMAIN Lab!EmptyStore
  BY DEF LabInv, DirectoryOK, Lab!EmptyStore
<1>2. \A c \in Callers : Lab!At(c, "idle") \/ command[c].config \in Configs
  BY DEF LabInv, CallOK, Lab!At
<1> QED BY <1>1, <1>2 DEF LabInv, Lab!TypeOK

\* The invariant of the part, in the composition.
LEMMA LabHolds == ModelSpec => [](part = "lab" => LabInv)
<1>1. ModelInit => (part = "lab" => LabInv)
  BY ModelAssumption, LabInit DEF ModelInit, ModelAssumption
<1>2. (part = "lab" => LabInv) /\ [ModelNext]_ModelVars => (part = "lab" => LabInv)'
  <2> SUFFICES ASSUME part = "lab" => LabInv, [ModelNext]_ModelVars, part' = "lab"
               PROVE  LabInv'
    OBVIOUS
  <2>1. part = "lab" /\ [Lab!Next]_(Lab!vars)
    BY DEF ModelNext, RegistryNext, LabNext, PinnedNext, PagesNext, SplitsNext, ModelVars, RegistryVars, LabVars,
           PinVars, PageVars, SplitVars, Lab!vars
  <2> QED BY <2>1, ModelAssumption, LabStep DEF ModelAssumption
<1> QED BY <1>1, <1>2, PTL DEF ModelSpec

\* Type correctness of the model lab: directories have their fields and calls a
\* configuration.
THEOREM LabTypesCorrect == ASSUME LabAssumption PROVE Lab!Spec => []Lab!TypeOK
BY LabTypes, LabInit, LabStep, PTL DEF Lab!Spec

-----------------------------------------------------------------------------
(* The rows that fit, select and evaluate.                                 *)

\* What an experiment on the fusion data set has read.
Seen(e) == e.engines.supervised \cup e.engines.anomaly
ReadApart(e) ==
    /\ Splits!Isolated({Seen(e), e.engines.selection, e.evaluated})
    /\ \A r \in Seen(e) \cup e.engines.selection : Splits!Family(r) # e.held
    /\ e.held # "none" => \E r \in e.evaluated : Splits!Family(r) = e.held
    /\ \A r \in Seen(e) : Splits!StageOf(r) = "early"
    /\ \A r \in e.engines.selection : Splits!StageOf(r) = "middle"
    /\ \A r \in e.evaluated : Splits!StageOf(r) = "late"
    /\ \A r \in e.engines.anomaly : Splits!Family(r) = "benign"

\* The search has not reported before it is finished, and then a fold each.
ScoredApart ==
    /\ \A e \in report : Splits!Sessions(e.fitted) \cap Splits!Sessions(e.scored) = {}
    /\ outcome = "finished" =>
        /\ UNION {e.scored : e \in report} = input.rows
        /\ \A d, e \in report : d # e => d.scored \cap e.scored = {}

\* The first engines are those of the timeline, whatever was held out since.
SplitsInv ==
    /\ outcome \in {"running", "finished", "refused"}
    /\ IF Splits!Fusion
       THEN /\ input.family \in FamilyChoices /\ input.groups \in GroupCounts
            /\ engines # Splits!None =>
                engines = Splits!Fit(Splits!Stage("early"), Splits!Stage("middle"))
            /\ \A e \in report : ReadApart(e)
       ELSE /\ engines = Splits!None
            /\ ScoredApart

\* No step changes the rows, and so what an experiment has read stays apart.
LEMMA InputStays ==
    ASSUME input' = input
    PROVE  /\ Splits!Fusion' <=> Splits!Fusion
           /\ Splits!Fit(Splits!Stage("early"), Splits!Stage("middle"))'
                = Splits!Fit(Splits!Stage("early"), Splits!Stage("middle"))
           /\ \A e : ReadApart(e) => ReadApart(e)'
<1>1. Splits!Fusion' <=> Splits!Fusion
  BY DEF Splits!Fusion
<1>2. Splits!Rows' = Splits!Rows
  BY DEF Splits!Rows, Splits!Patterns
<1>3. \A r : Splits!Family(r)' = Splits!Family(r)
  BY DEF Splits!Family
<1>4. /\ Splits!Stage("early")' = Splits!Stage("early")
      /\ Splits!Stage("middle")' = Splits!Stage("middle")
  BY <1>2 DEF Splits!Stage, Splits!StageOf
<1>5. Splits!Fit(Splits!Stage("early"), Splits!Stage("middle"))'
        = Splits!Fit(Splits!Stage("early"), Splits!Stage("middle"))
  BY <1>3, <1>4 DEF Splits!Fit
<1>6. ASSUME NEW e, ReadApart(e) PROVE ReadApart(e)'
  BY <1>3, <1>6 DEF ReadApart, Seen, Splits!Isolated, Splits!Groups, Splits!Group, Splits!StageOf
<1> QED BY <1>1, <1>5, <1>6

\* No family is named as if none were held out.
LEMMA FamiliesAreNamed ==
    ASSUME SplitsAssumption, input.family \in FamilyChoices
    PROVE  \A r \in Splits!Rows : Splits!Family(r) # "none"
BY DEF SplitsAssumption, Splits!Rows, Splits!Patterns, Splits!Family

\* A group lies in one stage of the timeline.
LEMMA StagesAreIsolated ==
    ASSUME NEW T, NEW V, NEW W,
           \A r \in T : Splits!StageOf(r) = "early",
           \A r \in V : Splits!StageOf(r) = "middle",
           \A r \in W : Splits!StageOf(r) = "late"
    PROVE  Splits!Isolated({T, V, W})
<1>1. \A r, s : Splits!Group(r) = Splits!Group(s) => Splits!StageOf(r) = Splits!StageOf(s)
  BY DEF Splits!Group, Splits!StageOf
<1>2. SUFFICES ASSUME NEW p \in {T, V, W}, NEW q \in {T, V, W}, p # q,
                      NEW r \in p, NEW s \in q, Splits!Group(r) = Splits!Group(s)
               PROVE  FALSE
  BY DEF Splits!Isolated, Splits!Groups
<1>3. Splits!StageOf(r) = Splits!StageOf(s)
  BY <1>1, <1>2
<1> QED BY <1>2, <1>3

\* Engines and a policy fitted to rows of the first two stages, and rows of the last.
LEMMA StagedIsReadApart ==
    ASSUME NEW kind, NEW held, NEW T, NEW V, NEW W,
           \A r \in T : Splits!StageOf(r) = "early" /\ Splits!Family(r) # held,
           \A r \in V : Splits!StageOf(r) = "middle" /\ Splits!Family(r) # held,
           \A r \in W : Splits!StageOf(r) = "late",
           held # "none" => \E r \in W : Splits!Family(r) = held
    PROVE  ReadApart(Splits!Experiment(kind, held, Splits!Fit(T, V), W))
<1> PICK e : e = Splits!Experiment(kind, held, Splits!Fit(T, V), W)
  OBVIOUS
<1>1. /\ e.held = held /\ e.evaluated = W /\ e.engines.selection = V /\ e.engines.supervised = T
      /\ e.engines.anomaly = {r \in T : Splits!Family(r) = "benign"}
  BY DEF Splits!Experiment, Splits!Fit
<1>2. Seen(e) = T
  BY <1>1 DEF Seen
<1>3. Splits!Isolated({T, V, W})
  BY StagesAreIsolated
<1> QED BY <1>1, <1>2, <1>3 DEF ReadApart

LEMMA SplitsInitially == SplitsAssumption /\ Splits!Init => SplitsInv
BY DEF SplitsAssumption, Splits!Init, Splits!Fusion, SplitsInv, ScoredApart

LEMMA SplitsKnown == ASSUME SplitsAssumption, SplitsInv, Splits!RunKnown PROVE SplitsInv'
<1> DEFINE T == Splits!Stage("early")
           V == Splits!Stage("middle")
           W == Splits!Stage("late")
<1>1. Splits!Fusion /\ input' = input /\ Splits!Fusion'
  BY DEF Splits!RunKnown, Splits!Fusion
<1>2. \A r \in Splits!Rows : Splits!Family(r) # "none"
  BY <1>1, FamiliesAreNamed DEF SplitsInv
<1>3. CASE Splits!Refuse
  BY <1>1, <1>3, InputStays DEF SplitsInv, Splits!Refuse
<1>4. CASE /\ engines' = Splits!Fit(T, V)
           /\ report' = {Splits!Experiment("known_attack", "none", engines', W)}
           /\ UNCHANGED outcome
  <2>1. ReadApart(Splits!Experiment("known_attack", "none", Splits!Fit(T, V), W))
    BY <1>2, StagedIsReadApart DEF Splits!Stage
  <2>2. engines' = Splits!Fit(T, V)'
    BY <1>1, <1>4, InputStays
  <2>3. \A e \in report' : ReadApart(e)'
    BY <1>1, <1>4, <2>1, InputStays
  <2> QED BY <1>1, <1>4, <2>2, <2>3 DEF SplitsInv
<1> QED BY <1>3, <1>4 DEF Splits!RunKnown

LEMMA SplitsFamily ==
    ASSUME SplitsAssumption, SplitsInv, NEW f, Splits!RunFamily(f) PROVE SplitsInv'
<1>1. /\ Splits!Fusion /\ input' = input /\ Splits!Fusion'
      /\ f \in Splits!AttackFamilies
  BY DEF Splits!RunFamily, Splits!Fusion
<1>2. CASE Splits!Refuse
  BY <1>1, <1>2, InputStays DEF SplitsInv, Splits!Refuse
<1>3. CASE /\ Splits!Evaluates(Splits!FamilyEvaluation(f))
           /\ report' = report \cup
                {Splits!Experiment("leave_one_family_out", f,
                    Splits!Fit(Splits!FamilyTrain(f), Splits!FamilyValidation(f)),
                    Splits!FamilyEvaluation(f))}
           /\ UNCHANGED << engines, outcome >>
  <2>1. /\ \A r \in Splits!FamilyTrain(f) : Splits!StageOf(r) = "early" /\ Splits!Family(r) # f
        /\ \A r \in Splits!FamilyValidation(f) : Splits!StageOf(r) = "middle" /\ Splits!Family(r) # f
        /\ \A r \in Splits!FamilyEvaluation(f) : Splits!StageOf(r) = "late"
    BY DEF Splits!FamilyTrain, Splits!FamilyValidation, Splits!FamilyEvaluation, Splits!Without,
           Splits!Stage
  <2>2. \E r \in Splits!FamilyEvaluation(f) : Splits!Family(r) = f
    BY <1>3 DEF Splits!Evaluates, Splits!BothClasses, Splits!FamilyEvaluation
  <2>3. ReadApart(Splits!Experiment("leave_one_family_out", f,
                    Splits!Fit(Splits!FamilyTrain(f), Splits!FamilyValidation(f)),
                    Splits!FamilyEvaluation(f)))
    BY <2>1, <2>2, StagedIsReadApart
  <2>4. \A e \in report' : ReadApart(e)'
    BY <1>1, <1>3, <2>3, InputStays DEF SplitsInv
  <2> QED BY <1>1, <1>3, <2>4, InputStays DEF SplitsInv
<1> QED BY <1>2, <1>3 DEF Splits!RunFamily

LEMMA SplitsRest == ASSUME SplitsAssumption, SplitsInv, Splits!RunRest PROVE SplitsInv'
<1> DEFINE T == Splits!Stage("early")
           V == Splits!Stage("middle")
           W == Splits!Stage("late")
<1>1. /\ Splits!Fusion /\ input' = input /\ Splits!Fusion'
      /\ engines = Splits!Fit(T, V) /\ engines' = engines
      /\ outcome' = "finished"
      /\ report' = report \cup {Splits!Experiment("temporal_holdout", "none", engines, W)}
            \cup {Splits!Experiment("parameter_shift", "none", engines, Splits!Shifted(W, s)) :
                    s \in Shifts}
  BY DEF Splits!RunRest, Splits!Fusion, SplitsInv
<1>2. \A r \in Splits!Rows : Splits!Family(r) # "none"
  BY <1>1, FamiliesAreNamed DEF SplitsInv
<1>3. ReadApart(Splits!Experiment("temporal_holdout", "none", Splits!Fit(T, V), W))
  BY <1>2, StagedIsReadApart DEF Splits!Stage
<1>4. ASSUME NEW s \in Shifts
      PROVE  ReadApart(Splits!Experiment("parameter_shift", "none", Splits!Fit(T, V),
                                         Splits!Shifted(W, s)))
  <2>1. \A r \in W : r \in Splits!Rows /\ Splits!StageOf(r) = "late"
    BY DEF Splits!Stage
  <2>2. \A r \in Splits!Rows : Splits!StageOf([r EXCEPT !.shift = s]) = Splits!StageOf(r)
    BY DEF Splits!Rows, Splits!StageOf
  <2>3. \A r \in Splits!Shifted(W, s) : Splits!StageOf(r) = "late"
    BY <2>1, <2>2 DEF Splits!Shifted
  <2> QED BY <1>2, <2>3, StagedIsReadApart DEF Splits!Stage
<1>5. \A e \in report' : ReadApart(e)'
  BY <1>1, <1>3, <1>4, InputStays DEF SplitsInv
<1> QED BY <1>1, <1>5, InputStays DEF SplitsInv

\* Every row is in the fold of its group, and no session is both inside and outside.
LEMMA SplitsTune == ASSUME SplitsAssumption, SplitsInv, Splits!TuneCandidate PROVE SplitsInv'
<1>1. ~Splits!Fusion /\ input' = input /\ ~Splits!Fusion'
  BY DEF Splits!TuneCandidate, Splits!Fusion
<1>2. CASE Splits!Refuse
  BY <1>1, <1>2 DEF SplitsInv, Splits!Refuse, ScoredApart, Splits!Sessions
<1>3. CASE /\ \A k \in Splits!FoldNumbers : Splits!FoldAccepted(k)
           /\ report' = {[fitted |-> input.rows \ Splits!FoldRows(k), scored |-> Splits!FoldRows(k)] :
                            k \in Splits!FoldNumbers}
           /\ outcome' = "finished" /\ UNCHANGED engines
  <2>1. \A e \in report' : \E k \in Splits!FoldNumbers :
            e.fitted = input.rows \ Splits!FoldRows(k) /\ e.scored = Splits!FoldRows(k)
    BY <1>3
  <2>2. \A k \in Splits!FoldNumbers : \E e \in report' : e.scored = Splits!FoldRows(k)
    <3> SUFFICES ASSUME NEW k \in Splits!FoldNumbers
                 PROVE  \E e \in report' : e.scored = Splits!FoldRows(k)
      OBVIOUS
    <3>1. [fitted |-> input.rows \ Splits!FoldRows(k), scored |-> Splits!FoldRows(k)] \in report'
      BY <1>3
    <3> QED BY <3>1
  <2>3. \A e \in report' : Splits!Sessions(e.fitted) \cap Splits!Sessions(e.scored) = {}
    <3>1. ASSUME NEW k \in Splits!FoldNumbers
          PROVE  Splits!Sessions(input.rows \ Splits!FoldRows(k))
                    \cap Splits!Sessions(Splits!FoldRows(k)) = {}
      BY <1>3 DEF Splits!FoldAccepted
    <3> QED BY <2>1, <3>1
  <2>4. UNION {e.scored : e \in report'} = input.rows
    <3>1. \A r \in input.rows : /\ input.fold[r.group] \in Splits!FoldNumbers
                                /\ r \in Splits!FoldRows(input.fold[r.group])
      BY DEF Splits!FoldNumbers, Splits!FoldRows
    <3>2. \A k : Splits!FoldRows(k) \subseteq input.rows
      BY DEF Splits!FoldRows
    <3>3. \A r \in input.rows : \E e \in report' : r \in e.scored
      BY <2>2, <3>1
    <3>4. \A e \in report' : e.scored \subseteq input.rows
      BY <2>1, <3>2
    <3> QED BY <3>3, <3>4
  <2>5. \A d, e \in report' : d # e => d.scored \cap e.scored = {}
    <3>1. \A j, k : j # k => Splits!FoldRows(j) \cap Splits!FoldRows(k) = {}
      BY DEF Splits!FoldRows
    <3> SUFFICES ASSUME NEW d \in report', NEW e \in report', d # e PROVE d.scored \cap e.scored = {}
      OBVIOUS
    <3>2. PICK j \in Splits!FoldNumbers :
            d = [fitted |-> input.rows \ Splits!FoldRows(j), scored |-> Splits!FoldRows(j)]
      BY <1>3
    <3>3. PICK k \in Splits!FoldNumbers :
            e = [fitted |-> input.rows \ Splits!FoldRows(k), scored |-> Splits!FoldRows(k)]
      BY <1>3
    <3> QED BY <3>1, <3>2, <3>3
  <2>6. ScoredApart'
    BY <1>1, <2>3, <2>4, <2>5 DEF ScoredApart, Splits!Sessions
  <2> QED BY <1>1, <1>3, <2>6 DEF SplitsInv
<1> QED BY <1>2, <1>3 DEF Splits!TuneCandidate

LEMMA SplitsStep == SplitsAssumption /\ SplitsInv /\ [Splits!Next]_(Splits!vars) => SplitsInv'
<1> SUFFICES ASSUME SplitsAssumption, SplitsInv, [Splits!Next]_(Splits!vars) PROVE SplitsInv'
  OBVIOUS
<1>1. CASE UNCHANGED Splits!vars
  BY <1>1, InputStays DEF Splits!vars, SplitsInv, ScoredApart, Splits!Sessions
<1>2. CASE Splits!RunKnown
  BY <1>2, SplitsKnown
<1>3. ASSUME NEW f, Splits!RunFamily(f) PROVE SplitsInv'
  BY <1>3, SplitsFamily
<1>4. CASE Splits!RunRest
  BY <1>4, SplitsRest
<1>5. CASE Splits!TuneCandidate
  BY <1>5, SplitsTune
<1> QED BY <1>1, <1>2, <1>3, <1>4, <1>5 DEF Splits!Next

LEMMA SplitsHold == ModelSpec => [](part = "splits" => SplitsInv)
<1>1. ModelInit => (part = "splits" => SplitsInv)
  BY ModelAssumption, SplitsInitially DEF ModelInit
<1>2. (part = "splits" => SplitsInv) /\ [ModelNext]_ModelVars => (part = "splits" => SplitsInv)'
  <2> SUFFICES ASSUME part = "splits" => SplitsInv, [ModelNext]_ModelVars, part' = "splits"
               PROVE  SplitsInv'
    OBVIOUS
  <2>1. part = "splits" /\ [Splits!Next]_(Splits!vars)
    BY DEF ModelNext, RegistryNext, LabNext, PinnedNext, PagesNext, SplitsNext, ModelVars, RegistryVars, LabVars,
           PinVars, PageVars, SplitVars, Splits!vars
  <2> QED BY <2>1, ModelAssumption, SplitsStep
<1> QED BY <1>1, <1>2, PTL DEF ModelSpec

\* An experiment is running, finished or refused, with families and groups of its input.
THEOREM SplitsTypesCorrect == ASSUME SplitsAssumption PROVE Splits!Spec => []Splits!TypeOK
<1>1. SplitsInv => Splits!TypeOK
  BY DEF SplitsInv, Splits!TypeOK
<1> QED BY <1>1, SplitsInitially, SplitsStep, PTL DEF Splits!Spec

LEMMA EvaluatedIsHeldOut == SplitsInv => Splits!HeldOutStaysOut
BY DEF SplitsInv, Splits!HeldOutStaysOut, ReadApart, Seen, ScoredApart

-----------------------------------------------------------------------------

\* A published bundle is the model and the selection of its experiment, evaluated once
\* under the configuration and manifest they were recorded with unless it is a
\* candidate, whose test partition was never opened: for any number of calls that
\* overlap, fail or die, and any edits of configuration and data set between them.  What
\* evaluates a model had no part in fitting or selecting it, for any families, any number
\* of groups and any folds.
THEOREM BundlesAreEvaluated == ModelSpec => []BundleIsEvaluated
<1>1. (part = "lab" => LabInv) /\ (part = "splits" => SplitsInv) => BundleIsEvaluated
  BY BundleEvaluated, EvaluatedIsHeldOut DEF BundleIsEvaluated
<1> QED BY <1>1, LabHolds, SplitsHold, PTL

=============================================================================
