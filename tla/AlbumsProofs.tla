---------------------------- MODULE AlbumsProofs ----------------------------
(***************************************************************************)
(* The albums, for any number of parts, timers, retries and faults: what   *)
(* every variable holds; that a delivered album is bound to one echo of    *)
(* its structure; and that the owner's album is carried whole, in the      *)
(* order of its message ids, under one row.  The last goes by what a flush *)
(* has done at each of its steps: the places that are taken are the first  *)
(* of the listing, so whoever lists the parts again, after a failure or a  *)
(* crash, finds them in the same order and under the same head.            *)
(***************************************************************************)
EXTENDS Albums, FiniteSetTheorems, SequenceTheorems, TLAPS

-----------------------------------------------------------------------------
(* Listings *)

\* A sequence that lists a finite set goes through all of it.
LEMMA ListsAll ==
    ASSUME NEW S, IsFiniteSet(S), NEW s \in SetToSeqs(S)
    PROVE  /\ Cardinality(S) \in Nat
           /\ s \in [1..Cardinality(S) -> S] /\ DOMAIN s = 1..Cardinality(S)
           /\ s \in Seq(S) /\ Len(s) = Cardinality(S)
           /\ \A i, j \in 1..Cardinality(S) : s[i] = s[j] => i = j
           /\ \A p \in S : \E i \in 1..Cardinality(S) : s[i] = p
<1> DEFINE n == Cardinality(S)
<1>1. n \in Nat
  BY FS_CardinalityType
<1>2. s \in [1..n -> S] /\ \A i, j \in 1..n : i # j => s[i] # s[j]
  BY DEF SetToSeqs
<1>3. s \in Injection(1..n, S)
  BY <1>2 DEF Injection, IsInjective
<1>4. IsFiniteSet(1..n) /\ Cardinality(1..n) = n
  BY <1>1, FS_Interval
<1>5. s \in Surjection(1..n, S)
  BY <1>3, <1>4, FS_Injection
<1>6. s \in Seq(S) /\ Len(s) = n
  <2> HIDE DEF n
  <2> QED BY <1>1, <1>2
<1> QED BY <1>1, <1>2, <1>5, <1>6 DEF Surjection

\* A finite set whose elements have different numbers can be listed by them.
LEMMA ListedByNumber ==
    ASSUME NEW S, IsFiniteSet(S), NEW number \in [S -> Nat],
           \A p, q \in S : number[p] = number[q] => p = q
    PROVE  \E s \in SetToSeqs(S) :
              \A i, j \in DOMAIN s : i < j => number[s[i]] < number[s[j]]
<1> DEFINE n == Cardinality(S)
           below(p) == {q \in S : number[q] < number[p]}
           rank == [p \in S |-> Cardinality(below(p))]
           s == [i \in 1..n |-> CHOOSE p \in S : rank[p] = i - 1]
<1>0. n \in Nat /\ \A p \in S : number[p] \in Nat
  BY FS_CardinalityType
<1>1. ASSUME NEW p \in S
      PROVE  rank[p] \in 0..(n - 1)
  <2>1. below(p) \in SUBSET S /\ p \notin below(p)
    BY <1>0
  <2>2. /\ IsFiniteSet(below(p)) /\ Cardinality(below(p)) <= n
        /\ Cardinality(below(p)) # n /\ Cardinality(below(p)) \in Nat
    BY <2>1, FS_Subset, FS_CardinalityType
  <2>3. rank[p] = Cardinality(below(p))
    OBVIOUS
  <2> HIDE DEF below, rank, n
  <2> QED BY <1>0, <2>2, <2>3
<1>2. ASSUME NEW p \in S, NEW q \in S, number[p] < number[q]
      PROVE  rank[p] < rank[q]
  <2>1. below(p) \in SUBSET below(q) /\ p \in below(q) /\ p \notin below(p)
    BY <1>0, <1>2
  <2>2. IsFiniteSet(below(q)) /\ IsFiniteSet(below(p))
    BY FS_Subset
  <2>3. Cardinality(below(p)) <= Cardinality(below(q)) /\ Cardinality(below(p)) # Cardinality(below(q))
    BY <2>1, <2>2, FS_Subset
  <2>4. Cardinality(below(p)) \in Nat /\ Cardinality(below(q)) \in Nat
    BY <2>2, FS_CardinalityType
  <2>5. rank[p] = Cardinality(below(p)) /\ rank[q] = Cardinality(below(q))
    OBVIOUS
  <2> HIDE DEF below, rank
  <2> QED BY <2>3, <2>4, <2>5
<1> HIDE DEF below
<1>3. ASSUME NEW p \in S, NEW q \in S, rank[p] = rank[q]
      PROVE  p = q
  <2> HIDE DEF rank, n
  <2>1. rank[p] \in Int /\ rank[q] \in Int
    BY <1>1, <1>0
  <2>2. ~(number[p] < number[q]) /\ ~(number[q] < number[p])
    BY <1>2, <1>3, <2>1
  <2> QED BY <1>0, <2>2
<1>4. rank \in Injection(S, 0..(n - 1))
  BY <1>1, <1>3 DEF Injection, IsInjective
<1>5. IsFiniteSet(0..(n - 1)) /\ Cardinality(0..(n - 1)) = n
  <2> HIDE DEF n
  <2> QED BY <1>0, FS_Interval
<1>6. rank \in Surjection(S, 0..(n - 1))
  BY <1>4, <1>5, FS_Injection
<1> HIDE DEF rank, n
<1>7. ASSUME NEW i \in 1..n
      PROVE  s[i] \in S /\ rank[s[i]] = i - 1
  <2>1. i - 1 \in 0..(n - 1)
    BY <1>0
  <2>2. \E p \in S : rank[p] = i - 1
    BY <1>6, <2>1 DEF Surjection
  <2> QED BY <2>2
<1> HIDE DEF s
<1>8. s \in [1..n -> S]
  BY <1>7 DEF s
<1>9. ASSUME NEW i \in 1..n, NEW j \in 1..n, i < j
      PROVE  number[s[i]] < number[s[j]]
  <2>1. /\ s[i] \in S /\ s[j] \in S /\ rank[s[i]] = i - 1 /\ rank[s[j]] = j - 1
        /\ number[s[i]] \in Nat /\ number[s[j]] \in Nat
    BY <1>0, <1>7
  <2>2. i - 1 < j - 1 /\ i \in Int /\ j \in Int
    BY <1>0, <1>9
  <2>3. s[i] # s[j]
    BY <2>1, <2>2
  <2>4. number[s[i]] # number[s[j]]
    BY <2>1, <2>3
  <2>5. ~(number[s[j]] < number[s[i]])
    BY <1>2, <2>1, <2>2
  <2> QED BY <2>1, <2>4, <2>5
<1>10. ASSUME NEW i \in 1..n, NEW j \in 1..n, i # j
       PROVE  s[i] # s[j]
  BY <1>0, <1>7, <1>10
<1>11. s \in SetToSeqs(S) /\ DOMAIN s = 1..n
  BY <1>8, <1>10 DEF SetToSeqs, n
<1> QED BY <1>9, <1>11

\* A set of numbers is listed from the lowest to the highest in one way.
LEMMA AscendsOneWay ==
    ASSUME NEW S \in SUBSET Nat, IsFiniteSet(S), NEW s, NEW t,
           Ascending(s, S), Ascending(t, S)
    PROVE  s = t
<1> DEFINE n == Cardinality(S)
           below(p) == {q \in S : q < p}
<1>1. ASSUME NEW r, Ascending(r, S), NEW i \in 1..n
      PROVE  Cardinality(below(r[i])) = i - 1
  <2> DEFINE f == [j \in 1..(i - 1) |-> r[j]]
  <2>1. /\ n \in Nat /\ r \in [1..n -> S] /\ DOMAIN r = 1..n
        /\ \A p \in S : \E j \in 1..n : r[j] = p
        /\ \A j, k \in 1..n : j < k => r[j] < r[k]
    BY <1>1, ListsAll DEF Ascending
  <2> HIDE DEF n
  <2>2. i \in Nat /\ i - 1 \in Nat /\ \A j \in 1..(i - 1) : j \in 1..n /\ j < i
    BY <2>1
  <2>3. f \in [1..(i - 1) -> below(r[i])]
    BY <2>1, <2>2
  <2>4. IsInjective(f)
    <3>1. ASSUME NEW j \in 1..(i - 1), NEW k \in 1..(i - 1), f[j] = f[k]
          PROVE  j = k
      <4>1. j \in 1..n /\ k \in 1..n /\ r[j] = r[k] /\ r[j] \in Nat
        BY <2>1, <2>2, <3>1
      <4>2. ~(j < k) /\ ~(k < j)
        BY <2>1, <4>1
      <4> QED BY <4>1, <4>2, <2>1
    <3> QED BY <3>1 DEF IsInjective
  <2>5. ASSUME NEW p \in below(r[i])
        PROVE  \E j \in 1..(i - 1) : f[j] = p
    <3>1. PICK j \in 1..n : r[j] = p
      BY <2>1
    <3>2. r[j] < r[i] /\ r[j] \in Nat /\ r[i] \in Nat
      BY <2>1, <3>1
    <3>3. ~(i < j) /\ i # j
      BY <2>1, <3>2
    <3>4. j \in 1..(i - 1)
      BY <2>1, <3>3
    <3> QED BY <3>1, <3>4
  <2>6. f \in Bijection(1..(i - 1), below(r[i]))
    BY <2>3, <2>4, <2>5 DEF Bijection, Injection, Surjection
  <2>7. IsFiniteSet(1..(i - 1)) /\ Cardinality(1..(i - 1)) = i - 1
    BY <2>2, FS_Interval
  <2>8. ExistsBijection(1..(i - 1), below(r[i]))
    BY <2>6 DEF ExistsBijection
  <2> QED BY <2>7, <2>8, FS_Bijection
<1>2. /\ n \in Nat /\ s \in [1..n -> S] /\ t \in [1..n -> S]
      /\ \A p \in S : \E j \in 1..n : t[j] = p
  BY ListsAll DEF Ascending
<1>3. ASSUME NEW i \in 1..n
      PROVE  s[i] = t[i]
  <2>1. s[i] \in S
    BY <1>2
  <2>2. PICK j \in 1..n : t[j] = s[i]
    BY <1>2, <2>1
  <2>3. Cardinality(below(s[i])) = i - 1 /\ Cardinality(below(t[j])) = j - 1
    BY <1>1
  <2>4. i - 1 = j - 1
    BY <2>2, <2>3
  <2> HIDE DEF n
  <2> QED BY <1>2, <2>2, <2>4
<1> QED BY <1>2, <1>3

-----------------------------------------------------------------------------
(* Types *)

PartRec == [at : BOOLEAN, index : 0..NParts, row : Nat]
TaskRec == [pc : Flushing \union {"none", "sleeping"}, parts : Seq(Part), i : Nat, row : Nat]
JobRec == [state : {"none", "queued", "pending", "running", "done", "ambiguous"},
           parts : Seq(Part), row : Nat]
StepRec == [pc : {"none", "clearing", "heading", "attaching", "stopping", "following"},
            album : Album, i : 0..2]
AliasRec == [owner : {Nobody} \union (Album \X Part), print : BOOLEAN]

\* What is written of parts and rows: a place of a group has one part, and a part is
\* bound to a row there is.
TablesInv ==
    /\ DOMAIN buffer = Group /\ rows \in Seq(Part)
    /\ \A g \in Group : buffer[g] \in [PartOf(g) -> PartRec]
    /\ \A g \in Group : \A p \in PartOf(g) : buffer[g][p].row <= Len(rows)
    /\ \A g \in Group : \A p, q \in Stored(g) :
          buffer[g][p].index # 0 /\ buffer[g][p].index = buffer[g][q].index => p = q

\* A flush of the owner's album has parts to carry; an echo's only reads.
Fits(g, t) ==
    /\ t \in TaskRec
    /\ g \in Album => t.pc \in {"none", "sleeping", "reading"}
    /\ g = "own" /\ t.pc # "none" => Stored("own") # {}
    /\ t.pc \in Flushing \ {"reading"} =>
          /\ t.parts # <<>> /\ Len(t.parts) <= NParts
          /\ \A i \in 1..Len(t.parts) : t.parts[i] \in Stored("own")
    /\ t.pc = "indexing" => t.i \in 1..Len(t.parts)
    /\ t.row <= Len(rows)

TasksInv ==
    /\ timer \in [Group -> Slot \union {0}] /\ tries \in [Group -> 0..MaxRetries]
    /\ DOMAIN task = Group
    /\ \A g \in Group : /\ DOMAIN task[g] = Runner(g)
                        /\ \A s \in Runner(g) : Fits(g, task[g][s])
                        /\ timer[g] \in SlotOf(g) \union {0}
                        /\ timer[g] # 0 => task[g][timer[g]].pc = "sleeping"

\* An attempt at a binding job runs, and takes an album of as many parts as the echo.
StepFits(j, st) ==
    /\ st.pc # "none" => j.state = "running"
    /\ st.pc \in {"attaching", "stopping"} => st.i \in 1..2
    /\ st.pc = "attaching" => Len(j.parts) = 2

JobsInv ==
    /\ job \in [Group -> JobRec] /\ step \in [Group -> StepRec]
    /\ \A g \in Album : StepFits(job[g], step[g])
    /\ alias \in [Album -> [1..2 -> AliasRec]]
    /\ scene \in {"owner", "alike", "unlike"}
    /\ phase \in {"up", "draining", "down"} /\ drains \subseteq Group
    /\ "own" \in drains => Stored("own") # {}

Typed == TablesInv /\ TasksInv /\ JobsInv

\* What the constants give.
LEMMA Constants ==
    /\ NParts \in Nat /\ 2 <= NParts /\ MaxTimers \in Nat /\ 1 <= MaxTimers /\ MaxRetries \in Nat
    /\ Group = {"own", "first", "second"} /\ "own" \notin Album /\ Album \subseteq Group
    /\ \A g \in Group : PartOf(g) \subseteq Part /\ PartOf(g) = 1..Size(g) /\ Size(g) \in Nat
                        /\ Size(g) <= NParts /\ (g \in Album => Size(g) = 2)
    /\ PartOf("own") = Part
    /\ \A p \in Part : p \in Nat /\ p # 0
    /\ \A g \in Group : /\ 1 \in SlotOf(g) /\ Drainer \in Runner(g) /\ SlotOf(g) \subseteq Runner(g)
                        /\ Drainer \notin SlotOf(g) /\ SlotOf(g) \subseteq Slot
                        /\ Runner(g) = SlotOf(g) \union {Drainer}
    /\ 0 \notin Slot /\ Drainer = 0
<1>1. NParts \in Nat /\ 2 <= NParts /\ MaxTimers \in Nat /\ 1 <= MaxTimers /\ MaxRetries \in Nat
  BY AlbumsAssumption
<1>2. Group = {"own", "first", "second"} /\ "own" \notin Album /\ Album \subseteq Group
  BY DEF Group, Album
<1>3. \A g \in Group : PartOf(g) \subseteq Part /\ PartOf(g) = 1..Size(g) /\ Size(g) \in Nat
                        /\ Size(g) <= NParts /\ (g \in Album => Size(g) = 2)
  BY <1>1, <1>2 DEF PartOf, Part, Size
<1>4. \A g \in Group : /\ 1 \in SlotOf(g) /\ Drainer \in Runner(g) /\ SlotOf(g) \subseteq Runner(g)
                       /\ Drainer \notin SlotOf(g) /\ SlotOf(g) \subseteq Slot
                       /\ Runner(g) = SlotOf(g) \union {Drainer}
  BY <1>1 DEF SlotOf, Slot, Runner, Drainer
<1> QED BY <1>1, <1>2, <1>3, <1>4 DEF Slot, Drainer, Part, PartOf, Size

\* What is stored of a group is some of its parts.
LEMMA StoredParts ==
    ASSUME TablesInv, NEW g \in Group
    PROVE  /\ IsFiniteSet(Stored(g)) /\ Stored(g) \subseteq PartOf(g) /\ Stored(g) \subseteq Part
           /\ Cardinality(Stored(g)) \in Nat /\ Cardinality(Stored(g)) <= Size(g)
           /\ (Cardinality(Stored(g)) = 0 <=> Stored(g) = {})
<1>1. Stored(g) \in SUBSET PartOf(g)
  BY DEF Stored
<1>2. Size(g) \in Nat /\ PartOf(g) = 1..Size(g) /\ PartOf(g) \subseteq Part
  BY Constants
<1>3. IsFiniteSet(PartOf(g)) /\ Cardinality(PartOf(g)) = Size(g)
  BY <1>2, FS_Interval
<1> QED BY <1>1, <1>2, <1>3, FS_Subset, FS_CardinalityType, FS_EmptySet

\* ordered_parts gives every part that is stored, what has a place before what has none.
LEMMA PartsInOrder ==
    ASSUME TablesInv, NEW g \in Group
    PROVE  /\ OrderedParts(g) \in SetToSeqs(Stored(g))
           /\ \A i, j \in DOMAIN OrderedParts(g) :
                 i < j => Before(g, OrderedParts(g)[i], OrderedParts(g)[j])
           /\ OrderedParts(g) \in Seq(Part) /\ Len(OrderedParts(g)) = Cardinality(Stored(g))
<1> DEFINE S == Stored(g)
           number == [p \in S |-> IF buffer[g][p].index = 0 THEN NParts + p
                                  ELSE buffer[g][p].index]
<1>1. /\ IsFiniteSet(S) /\ S \subseteq Part /\ NParts \in Nat
      /\ \A p \in Part : p \in Nat /\ p # 0
      /\ \A p \in S : buffer[g][p].index \in 0..NParts
  <2>1. S \subseteq PartOf(g) /\ IsFiniteSet(S) /\ S \subseteq Part
    BY StoredParts
  <2>2. \A p \in PartOf(g) : buffer[g][p] \in PartRec
    BY DEF TablesInv
  <2>3. \A p \in S : buffer[g][p].index \in 0..NParts
    BY <2>1, <2>2 DEF PartRec
  <2> QED BY Constants, <2>1, <2>3
<1>2. number \in [S -> Nat]
  BY <1>1
<1>3. ASSUME NEW p \in S, NEW q \in S, number[p] = number[q]
      PROVE  p = q
  <2>1. /\ p \in Nat /\ q \in Nat /\ p # 0 /\ q # 0
        /\ buffer[g][p].index \in 0..NParts /\ buffer[g][q].index \in 0..NParts
    BY <1>1
  <2>2. buffer[g][p].index # 0 /\ buffer[g][p].index = buffer[g][q].index => p = q
    BY DEF TablesInv
  <2> QED BY <1>1, <1>3, <2>1, <2>2
<1>4. ASSUME NEW p \in S, NEW q \in S, number[p] < number[q]
      PROVE  Before(g, p, q)
  <2>1. /\ p \in Nat /\ q \in Nat /\ p # 0 /\ q # 0
        /\ buffer[g][p].index \in 0..NParts /\ buffer[g][q].index \in 0..NParts
    BY <1>1
  <2> QED BY <1>1, <1>4, <2>1 DEF Before
<1> HIDE DEF number
<1>5. PICK s \in SetToSeqs(S) : \A i, j \in DOMAIN s : i < j => number[s[i]] < number[s[j]]
  BY <1>1, <1>2, <1>3, ListedByNumber
<1>6. \A i \in DOMAIN s : s[i] \in S
  BY <1>1, ListsAll
<1>7. \A i, j \in DOMAIN s : i < j => Before(g, s[i], s[j])
  BY <1>4, <1>5, <1>6
<1>8. /\ OrderedParts(g) \in SetToSeqs(S)
      /\ \A i, j \in DOMAIN OrderedParts(g) :
            i < j => Before(g, OrderedParts(g)[i], OrderedParts(g)[j])
  BY <1>7 DEF OrderedParts
<1>9. OrderedParts(g) \in Seq(S) /\ Len(OrderedParts(g)) = Cardinality(S)
  BY <1>1, <1>8, ListsAll
<1>10. OrderedParts(g) \in Seq(Part)
  BY <1>1, <1>9, SeqMonotonic
<1> QED BY <1>8, <1>9, <1>10

\* A part written down, or given its place, is the only one that changes.
LEMMA PartWritten ==
    ASSUME TablesInv, NEW g \in Group, NEW p \in PartOf(g), NEW r \in PartRec,
           r.row <= Len(rows), rows' = rows, buffer' = [buffer EXCEPT ![g][p] = r],
           r.at, r.index # 0 => \A q \in Stored(g) \ {p} : buffer[g][q].index # r.index
    PROVE  TablesInv' /\ Stored(g)' = Stored(g) \union {p}
           /\ \A h \in Group \ {g} : Stored(h)' = Stored(h)
<1>1. /\ DOMAIN buffer' = Group /\ buffer'[g] = [buffer[g] EXCEPT ![p] = r]
      /\ \A h \in Group \ {g} : buffer'[h] = buffer[h]
  BY DEF TablesInv
<1>2. buffer'[g] \in [PartOf(g) -> PartRec] /\ buffer'[g][p] = r
      /\ \A q \in PartOf(g) \ {p} : buffer'[g][q] = buffer[g][q]
  BY <1>1 DEF TablesInv
<1>3. Stored(g)' = Stored(g) \union {p}
  BY <1>2 DEF Stored
<1>4. \A h \in Group \ {g} : Stored(h)' = Stored(h)
  BY <1>1 DEF Stored
<1>5. \A h \in Group : buffer'[h] \in [PartOf(h) -> PartRec]
  BY <1>1, <1>2 DEF TablesInv
<1>6. \A h \in Group : \A q \in PartOf(h) : buffer'[h][q].row <= Len(rows)
  BY <1>1, <1>2 DEF TablesInv
<1>7. ASSUME NEW h \in Group, NEW a \in Stored(h)', NEW b \in Stored(h)',
             buffer'[h][a].index # 0, buffer'[h][a].index = buffer'[h][b].index
      PROVE  a = b
  <2>1. CASE h # g
    BY <1>1, <1>4, <1>7, <2>1 DEF TablesInv
  <2>2. CASE h = g
    <3>1. a \in PartOf(g) /\ b \in PartOf(g)
      BY <1>7, <2>2 DEF Stored
    <3>2. CASE a # p /\ b # p
      BY <1>2, <1>3, <1>7, <2>2, <3>1, <3>2 DEF TablesInv
    <3>3. CASE a = p /\ b # p
      BY <1>2, <1>3, <1>7, <2>2, <3>1, <3>3
    <3>4. CASE a # p /\ b = p
      BY <1>2, <1>3, <1>7, <2>2, <3>1, <3>4
    <3> QED BY <3>2, <3>3, <3>4
  <2> QED BY <2>1, <2>2
<1> QED BY <1>1, <1>3, <1>4, <1>5, <1>6, <1>7 DEF TablesInv

Writes == \/ \E g \in Group : \E p \in PartOf(g) : Arrive(g, p)
          \/ \E g \in Group : \E s \in Runner(g) : Index(g, s) \/ BindLink(g, s) \/ Record(g, s)
          \/ \E g \in Album : Clear(g)

\* The steps that leave what is stored as it is.
LEMMA WhoWrites == ASSUME [Next]_vars PROVE Writes \/ UNCHANGED <<buffer, rows>>
<1> USE DEF vars, tables, timers, history
<1>1. CASE Next
  <2>1. CASE \E g \in Group : \E p \in PartOf(g) : Arrive(g, p)
    BY <2>1 DEF Writes
  <2>2. ASSUME NEW g \in Group, NEW s \in Runner(g), Fire(g, s) \/ Flush(g, s) \/ FlushFails(g, s)
        PROVE  Writes \/ UNCHANGED <<buffer, rows>>
    <3>1. CASE Fire(g, s) \/ FlushFails(g, s)
      BY <3>1 DEF Fire, FlushFails
    <3>2. CASE Read(g, s) \/ MapAlbum(g, s) \/ Submit(g, s) \/ Attempted(g, s) \/ SubmitEcho(g, s)
      BY <3>2 DEF Read, MapAlbum, Submit, Attempted, SubmitEcho
    <3>3. CASE Index(g, s) \/ BindLink(g, s) \/ Record(g, s)
      BY <3>3 DEF Writes
    <3> QED BY <2>2, <3>1, <3>2, <3>3 DEF Flush
  <2>3. CASE \E g \in Group : DrainNext(g)
    BY <2>3 DEF DrainNext
  <2>4. ASSUME NEW g \in Album, Bind(g) \/ GiveUp(g) \/ BindingFails(g)
        PROVE  Writes \/ UNCHANGED <<buffer, rows>>
    <3>1. CASE RunJob(g) \/ TestHead(g) \/ Attach(g) \/ StopBinding(g) \/ TestFollowing(g)
      BY <3>1 DEF RunJob, TestHead, Attach, StopBinding, TestFollowing
    <3>2. CASE GiveUp(g) \/ BindingFails(g)
      BY <3>2 DEF GiveUp, BindingFails
    <3> QED BY <2>4, <3>1, <3>2 DEF Bind, Writes
  <2>5. CASE Crash \/ Stop \/ Exit \/ Start
    BY <2>5 DEF Crash, Stop, Exit, Start, Gone
  <2> QED BY <1>1, <2>1, <2>2, <2>3, <2>4, <2>5 DEF Next
<1> QED BY <1>1

\* Parts stay parts and rows stay rows, whatever arrives, is placed, bound or cleared; of
\* the owner's album and of the rows nothing goes.
LEMMA TablesStep ==
    ASSUME Typed, [Next]_vars
    PROVE  /\ TablesInv' /\ Stored("own") \subseteq Stored("own")'
           /\ Len(rows) <= Len(rows') /\ Len(rows) \in Nat
<1>0. TablesInv /\ TasksInv /\ Len(rows) \in Nat
  BY DEF Typed, TablesInv
<1>a. "own" \in Group /\ "own" \notin Album /\ Album \subseteq Group
  BY Constants
<1>1. ASSUME NEW g \in Group, NEW p \in PartOf(g), Arrive(g, p)
      PROVE  TablesInv' /\ Stored("own") \subseteq Stored("own")' /\ rows' = rows
  <2> DEFINE r == [Absent EXCEPT !.at = TRUE]
  <2>1. r \in PartRec /\ r.row <= Len(rows) /\ r.at /\ r.index = 0
    <3>1. 0 \in 0..NParts /\ 0 \in Nat /\ 0 <= Len(rows)
      BY <1>0, Constants
    <3>2. Absent \in PartRec /\ Absent.row = 0 /\ Absent.index = 0
      BY <3>1 DEF PartRec, Absent
    <3> QED BY <3>1, <3>2 DEF PartRec
  <2>2. buffer' = [buffer EXCEPT ![g][p] = r] /\ rows' = rows
    BY <1>1 DEF Arrive
  <2> HIDE DEF r
  <2>3. TablesInv' /\ Stored(g)' = Stored(g) \union {p}
        /\ \A h \in Group \ {g} : Stored(h)' = Stored(h)
    BY <1>0, <2>1, <2>2, PartWritten
  <2> QED BY <1>a, <2>2, <2>3
<1>2. ASSUME NEW g \in Group, NEW s \in Runner(g), Index(g, s)
      PROVE  TablesInv' /\ Stored("own") \subseteq Stored("own")' /\ rows' = rows
  <2> DEFINE t == task[g][s]
             p == t.parts[t.i]
             r == [buffer[g][p] EXCEPT !.index = IF @ = 0 THEN t.i ELSE @]
  <2>1. Fits(g, t) /\ t.pc = "indexing" /\ rows' = rows
    BY <1>0, <1>2 DEF TasksInv, Index, At
  <2>2. g = "own" /\ t.i \in 1..Len(t.parts) /\ t.parts \in Seq(Part) /\ Len(t.parts) <= NParts
        /\ t.parts[t.i] \in Stored("own")
    <3> HIDE DEF t
    <3>1. g \notin Album
      BY <2>1 DEF Fits
    <3>2. t.i \in 1..Len(t.parts) /\ t.parts \in Seq(Part) /\ Len(t.parts) <= NParts
          /\ \A i \in 1..Len(t.parts) : t.parts[i] \in Stored("own")
      BY <2>1 DEF Fits, Flushing, TaskRec
    <3> QED BY <3>1, <3>2 DEF Group
  <2>3. /\ p \in PartOf(g) /\ p \in Stored(g) /\ buffer[g][p].at
        /\ t.i \in 0..NParts /\ t.i # 0
        /\ buffer[g][p] \in PartRec /\ buffer[g][p].row <= Len(rows)
    <3>1. p \in PartOf(g) /\ p \in Stored(g) /\ buffer[g][p].at
      BY <2>2 DEF Stored
    <3>2. t.i \in 0..NParts /\ t.i # 0
      <4>1. NParts \in Nat
        BY Constants
      <4>2. Len(t.parts) \in Nat
        BY <2>2, LenProperties
      <4> HIDE DEF t
      <4> QED BY <2>2, <4>1, <4>2
    <3>3. buffer[g][p] \in PartRec /\ buffer[g][p].row <= Len(rows)
      <4> HIDE DEF p
      <4> QED BY <1>0, <3>1 DEF TablesInv
    <3> QED BY <3>1, <3>2, <3>3
  <2>4. CASE buffer[g][p].index = 0 /\ \E q \in Stored(g) : buffer[g][q].index = t.i
    <3>1. buffer' = buffer
      BY <1>2, <2>4 DEF Index
    <3> QED BY <1>0, <2>1, <3>1 DEF TablesInv, Stored
  <2>5. CASE ~(buffer[g][p].index = 0 /\ \E q \in Stored(g) : buffer[g][q].index = t.i)
    <3>1. buffer' = [buffer EXCEPT ![g][p].index = IF @ = 0 THEN t.i ELSE @]
      BY <1>2, <2>5 DEF Index
    <3>2. buffer' = [buffer EXCEPT ![g][p] = r]
      BY <3>1
    <3>3. r \in PartRec /\ r.at /\ r.row = buffer[g][p].row
          /\ r.index = IF buffer[g][p].index = 0 THEN t.i ELSE buffer[g][p].index
      BY <2>3 DEF PartRec
    <3>4. ASSUME NEW q \in Stored(g) \ {p}, r.index # 0
          PROVE  buffer[g][q].index # r.index
      BY <1>0, <2>3, <2>5, <3>3, <3>4 DEF TablesInv
    <3> HIDE DEF r, p, t
    <3>5. TablesInv' /\ Stored(g)' = Stored(g) \union {p}
          /\ \A h \in Group \ {g} : Stored(h)' = Stored(h)
      BY <1>0, <2>1, <2>3, <3>2, <3>3, <3>4, PartWritten
    <3> QED BY <1>a, <2>1, <3>5
  <2> QED BY <2>4, <2>5
<1>3. ASSUME NEW g \in Group, NEW s \in Runner(g), BindLink(g, s)
      PROVE  TablesInv' /\ Stored("own") \subseteq Stored("own")' /\ rows' = rows
  <2> DEFINE t == task[g][s]
             b == [p \in PartOf(g) |-> IF buffer[g][p].at /\ buffer[g][p].row = 0
                                       THEN [buffer[g][p] EXCEPT !.row = t.row]
                                       ELSE buffer[g][p]]
  <2>1. Fits(g, t) /\ rows' = rows /\ buffer' = [buffer EXCEPT ![g] = b]
    BY <1>0, <1>3 DEF TasksInv, BindLink, At
  <2>2. t.row \in Nat /\ t.row <= Len(rows)
    BY <2>1 DEF Fits, TaskRec
  <2>3. \A p \in PartOf(g) : /\ b[p] \in PartRec /\ b[p].at = buffer[g][p].at
                             /\ b[p].index = buffer[g][p].index /\ b[p].row <= Len(rows)
    <3> TAKE p \in PartOf(g)
    <3>1. buffer[g][p] \in PartRec /\ buffer[g][p].row <= Len(rows)
      BY <1>0 DEF TablesInv
    <3> HIDE DEF t
    <3> QED BY <2>2, <3>1 DEF PartRec
  <2>4. b \in [PartOf(g) -> PartRec]
    BY <2>3
  <2> HIDE DEF b
  <2>5. DOMAIN buffer' = Group /\ buffer'[g] = b /\ \A h \in Group \ {g} : buffer'[h] = buffer[h]
    BY <1>0, <2>1 DEF TablesInv
  <2>6. \A h \in Group : Stored(h)' = Stored(h)
    BY <2>3, <2>5 DEF Stored
  <2>7. \A h \in Group : /\ buffer'[h] \in [PartOf(h) -> PartRec]
                         /\ \A p \in PartOf(h) : buffer'[h][p].row <= Len(rows)
    BY <1>0, <2>3, <2>4, <2>5 DEF TablesInv
  <2>8. \A h \in Group : \A p \in Stored(h) : buffer'[h][p].index = buffer[h][p].index
    BY <2>3, <2>5 DEF Stored
  <2>9. \A h \in Group : \A p, q \in Stored(h)' :
          buffer'[h][p].index # 0 /\ buffer'[h][p].index = buffer'[h][q].index => p = q
    BY <1>0, <2>6, <2>8 DEF TablesInv
  <2> QED BY <1>0, <1>a, <2>1, <2>5, <2>6, <2>7, <2>9 DEF TablesInv
<1>4. ASSUME NEW g \in Group, NEW s \in Runner(g), Record(g, s)
      PROVE  TablesInv' /\ Stored("own") \subseteq Stored("own")' /\ Len(rows') = Len(rows) + 1
  <2> DEFINE t == task[g][s]
  <2>1. Fits(g, t) /\ t.pc = "recording" /\ rows' = Append(rows, t.parts[1]) /\ buffer' = buffer
    BY <1>0, <1>4 DEF TasksInv, Record, At
  <2>2. t.parts \in Seq(Part) /\ t.parts # <<>>
    BY <2>1 DEF Fits, TaskRec, Flushing
  <2>3. t.parts[1] \in Part
    BY <2>2
  <2>4. rows' \in Seq(Part) /\ Len(rows') = Len(rows) + 1
    BY <1>0, <2>1, <2>3 DEF TablesInv
  <2>5. \A h \in Group : \A p \in PartOf(h) : buffer[h][p].row <= Len(rows')
    <3> TAKE h \in Group
    <3> TAKE p \in PartOf(h)
    <3>1. buffer[h][p].row \in Nat /\ buffer[h][p].row <= Len(rows)
      BY <1>0 DEF TablesInv, PartRec
    <3> QED BY <1>0, <2>4, <3>1
  <2> QED BY <1>0, <2>1, <2>4, <2>5 DEF TablesInv, Stored
<1>5. ASSUME NEW g \in Album, Clear(g)
      PROVE  TablesInv' /\ Stored("own") \subseteq Stored("own")' /\ rows' = rows
  <2>1. rows' = rows /\ g \in Group /\ g # "own" /\ DOMAIN buffer' = Group
        /\ buffer'[g] = [p \in PartOf(g) |-> Absent]
        /\ \A h \in Group \ {g} : buffer'[h] = buffer[h]
    BY <1>0, <1>a, <1>5 DEF Clear, TablesInv
  <2>2. Absent \in PartRec /\ Absent.row = 0 /\ ~Absent.at
    BY Constants DEF Absent, PartRec
  <2>3. Stored(g)' = {} /\ \A h \in Group \ {g} : Stored(h)' = Stored(h)
    BY <2>1, <2>2 DEF Stored
  <2>4. \A h \in Group : /\ buffer'[h] \in [PartOf(h) -> PartRec]
                         /\ \A p \in PartOf(h) : buffer'[h][p].row <= Len(rows)
    BY <1>0, <2>1, <2>2 DEF TablesInv
  <2>5. \A h \in Group : \A p, q \in Stored(h)' :
          buffer'[h][p].index # 0 /\ buffer'[h][p].index = buffer'[h][q].index => p = q
    BY <1>0, <2>1, <2>3 DEF TablesInv
  <2> QED BY <1>0, <1>a, <2>1, <2>3, <2>4, <2>5 DEF TablesInv
<1>6. CASE UNCHANGED <<buffer, rows>>
  BY <1>0, <1>6 DEF TablesInv, Stored
<1> QED BY <1>0, <1>1, <1>2, <1>3, <1>4, <1>5, <1>6, WhoWrites DEF Writes

\* Neither parts of the owner's album nor rows are lost.
Grown == /\ Stored("own") \subseteq Stored("own")'
         /\ Len(rows) \in Nat /\ Len(rows') \in Nat /\ Len(rows) <= Len(rows')

\* So what fits a task goes on to.
LEMMA FitsStays ==
    ASSUME Grown, NEW g, NEW t, Fits(g, t)
    PROVE  Fits(g, t)'
<1>1. t.row <= Len(rows) => t.row <= Len(rows')
  BY DEF Grown, Fits, TaskRec
<1> QED BY <1>1 DEF Grown, Fits

\* One task moves, and the timer registered is the same, none, or its own while it sleeps.
LEMMA TaskMoves ==
    ASSUME TasksInv, Grown, NEW g \in Group, NEW s \in Runner(g), NEW t, Fits(g, t)',
           NEW x \in SlotOf(g) \union {0},
           task' = [task EXCEPT ![g][s] = t], timer' = [timer EXCEPT ![g] = x],
           x # 0 => IF x = s THEN t.pc = "sleeping" ELSE x = timer[g],
           tries' \in [Group -> 0..MaxRetries]
    PROVE  TasksInv'
<1>1. /\ DOMAIN task' = Group /\ DOMAIN task'[g] = Runner(g) /\ task'[g][s] = t
      /\ \A r \in Runner(g) \ {s} : task'[g][r] = task[g][r]
      /\ \A h \in Group \ {g} : task'[h] = task[h]
  BY DEF TasksInv
<1>2. /\ timer' \in [Group -> Slot \union {0}] /\ timer'[g] = x
      /\ \A h \in Group \ {g} : timer'[h] = timer[h]
  BY Constants DEF TasksInv
<1>3. ASSUME NEW h \in Group, NEW r \in Runner(h)
      PROVE  Fits(h, task[h][r])'
  <2>1. CASE h = g /\ r = s
    <3>1. task'[h][r] = t
      BY <1>1, <2>1
    <3> QED BY <2>1, <3>1 DEF Fits
  <2>2. CASE ~(h = g /\ r = s)
    <3>1. PICK u : u = task[h][r]
      OBVIOUS
    <3>2. Fits(h, u) /\ task'[h][r] = u
      BY <1>1, <2>2, <3>1 DEF TasksInv
    <3>3. Fits(h, u)'
      BY <3>2, FitsStays
    <3> QED BY <3>2, <3>3 DEF Fits
  <2> QED BY <2>1, <2>2
<1>4. ASSUME NEW h \in Group
      PROVE  /\ DOMAIN task'[h] = Runner(h)
             /\ timer'[h] \in SlotOf(h) \union {0}
             /\ timer'[h] # 0 => task'[h][timer'[h]].pc = "sleeping"
  <2>1. CASE h # g
    BY <1>1, <1>2, <2>1 DEF TasksInv
  <2>2. CASE h = g
    <3>1. SlotOf(g) \subseteq Runner(g) /\ 0 \notin SlotOf(g)
      BY Constants
    <3>2. CASE x = s
      BY <1>1, <1>2, <2>2, <3>2
    <3>3. CASE x # s /\ x # 0
      <4>1. x = timer[g] /\ x \in Runner(g) \ {s}
        BY <3>1, <3>3
      <4> QED BY <1>1, <1>2, <2>2, <3>3, <4>1 DEF TasksInv
    <3>4. CASE x = 0
      BY <1>1, <1>2, <2>2, <3>4
    <3> QED BY <3>2, <3>3, <3>4
  <2> QED BY <2>1, <2>2
<1> QED BY <1>1, <1>2, <1>3, <1>4 DEF TasksInv

\* The tasks of nobody and of a sleeper.
LEMMA SleeperFits ==
    ASSUME NEW g \in Group, Len(rows) \in Nat
    PROVE  /\ Idle \in TaskRec /\ Fits(g, Idle)
           /\ \A pc \in {"sleeping", "reading"} :
                 (g = "own" => Stored("own") # {}) => Fits(g, [Idle EXCEPT !.pc = pc])
<1> DEFINE nap(pc) == [Idle EXCEPT !.pc = pc]
<1>1. /\ Idle \in TaskRec /\ Idle.row = 0 /\ Idle.pc = "none"
      /\ \A pc \in {"sleeping", "reading"} : nap(pc) \in TaskRec /\ nap(pc).row = 0 /\ nap(pc).pc = pc
  <2>1. Idle = [pc |-> "none", parts |-> <<>>, i |-> 0, row |-> 0] /\ <<>> \in Seq(Part)
    BY DEF Idle
  <2>2. Idle \in TaskRec /\ Idle.row = 0 /\ Idle.pc = "none"
    BY <2>1 DEF TaskRec, Flushing
  <2> QED BY <2>2 DEF TaskRec, Flushing
<1> HIDE DEF nap
<1>2. Fits(g, Idle)
  BY <1>1 DEF Fits, Flushing
<1>3. ASSUME NEW pc \in {"sleeping", "reading"}, g = "own" => Stored("own") # {}
      PROVE  Fits(g, nap(pc))
  BY <1>1, <1>3 DEF Fits, Flushing
<1> QED BY <1>1, <1>2, <1>3 DEF nap

\* A flush goes on, or ends, under a timer that is not its own.
LEMMA FlushMoves ==
    ASSUME TasksInv, Grown, NEW g \in Group, NEW s \in Runner(g), task[g][s].pc \in Flushing,
           NEW t, Fits(g, t)', task' = [task EXCEPT ![g][s] = t], UNCHANGED <<timer, tries>>
    PROVE  TasksInv'
<1>1. timer[g] \in SlotOf(g) \union {0} /\ timer' = [timer EXCEPT ![g] = timer[g]]
  BY DEF TasksInv
<1>2. timer[g] # 0 => timer[g] # s
  BY DEF TasksInv, Flushing
<1>3. tries' \in [Group -> 0..MaxRetries]
  BY DEF TasksInv
<1> QED BY <1>1, <1>2, <1>3, TaskMoves

\* A flush that raised sleeps again under its timer, or is over (_retry).
LEMMA RaisedKeeps ==
    ASSUME TasksInv, Grown, NEW g \in Group, NEW s \in Runner(g), task[g][s].pc \in Flushing,
           Raised(g, s)
    PROVE  TasksInv'
<1> DEFINE nap == [Idle EXCEPT !.pc = "sleeping"]
<1>0. /\ Fits(g, Idle)' /\ Idle.pc = "none" /\ nap.pc = "sleeping"
      /\ Fits(g, nap)'
  <2>1. g = "own" => Stored("own") # {}
    BY DEF TasksInv, Fits, Flushing
  <2>2. Fits(g, Idle) /\ Fits(g, nap)
    BY <2>1, SleeperFits DEF Grown
  <2>3. Fits(g, Idle)' /\ Fits(g, nap)'
    <3> HIDE DEF nap
    <3> QED BY <2>2, FitsStays
  <2> QED BY <2>3 DEF Idle
<1>1. CASE s = Drainer \/ tries[g] = MaxRetries
  <2>1. task' = [task EXCEPT ![g][s] = Idle] /\ UNCHANGED <<timer, tries>>
    BY <1>1 DEF Raised
  <2> QED BY <1>0, <2>1, FlushMoves
<1>2. CASE s # Drainer /\ tries[g] # MaxRetries
  <2>1. /\ task' = [task EXCEPT ![g][s] = nap] /\ timer' = [timer EXCEPT ![g] = s]
        /\ tries' = [tries EXCEPT ![g] = @ + 1]
    BY <1>2 DEF Raised
  <2>2. s \in SlotOf(g)
    BY <1>2, Constants
  <2>3. tries' \in [Group -> 0..MaxRetries]
    <3>1. tries[g] \in 0..MaxRetries /\ MaxRetries \in Nat
      BY Constants DEF TasksInv
    <3>2. tries[g] + 1 \in 0..MaxRetries
      BY <1>2, <3>1
    <3> QED BY <2>1, <3>2 DEF TasksInv
  <2> HIDE DEF nap
  <2> QED BY <1>0, <2>1, <2>2, <2>3, TaskMoves
<1> QED BY <1>1, <1>2

\* A shutdown's flush takes the place of the timer's (flush_albums).
LEMMA DrainedKeeps ==
    ASSUME TasksInv, Grown, NEW g \in Group, Drained(g), UNCHANGED tries,
           g = "own" => Stored("own") # {}
    PROVE  TasksInv'
<1> DEFINE nap == [Idle EXCEPT !.pc = "reading"]
<1>0. Fits(g, Idle) /\ Fits(g, nap)
  BY SleeperFits DEF Grown
<1> HIDE DEF nap
<1>a. Fits(g, Idle)' /\ Fits(g, nap)'
  BY <1>0, FitsStays
<1>1. /\ DOMAIN task' = Group /\ DOMAIN task'[g] = Runner(g)
      /\ \A r \in Runner(g) : task'[g][r] \in {nap, Idle, task[g][r]}
      /\ \A h \in Group \ {g} : task'[h] = task[h]
  BY DEF Drained, TasksInv, nap
<1>2. /\ timer' \in [Group -> Slot \union {0}] /\ timer'[g] = 0
      /\ \A h \in Group \ {g} : timer'[h] = timer[h]
  BY Constants DEF Drained, TasksInv
<1>3. ASSUME NEW h \in Group, NEW r \in Runner(h)
      PROVE  Fits(h, task[h][r])'
  <2>1. CASE h = g /\ task'[h][r] \in {nap, Idle}
    BY <1>a, <2>1 DEF Fits
  <2>2. CASE ~(h = g /\ task'[h][r] \in {nap, Idle})
    <3>1. PICK u : u = task[h][r]
      OBVIOUS
    <3>2. Fits(h, u) /\ task'[h][r] = u
      BY <1>1, <2>2, <3>1 DEF TasksInv
    <3>3. Fits(h, u)'
      BY <3>2, FitsStays
    <3> QED BY <3>2, <3>3 DEF Fits
  <2> QED BY <2>1, <2>2
<1>4. ASSUME NEW h \in Group
      PROVE  /\ DOMAIN task'[h] = Runner(h)
             /\ timer'[h] \in SlotOf(h) \union {0}
             /\ timer'[h] # 0 => task'[h][timer'[h]].pc = "sleeping"
  BY <1>1, <1>2 DEF TasksInv
<1>5. tries' \in [Group -> 0..MaxRetries]
  BY DEF TasksInv
<1> QED BY <1>1, <1>2, <1>3, <1>4, <1>5 DEF TasksInv

\* Nobody is left after a crash or an exit.
LEMMA GoneKeeps ==
    ASSUME TasksInv, Grown, Gone
    PROVE  TasksInv'
<1>1. \A g \in Group : Fits(g, Idle)'
  BY SleeperFits, FitsStays DEF Grown
<1>2. /\ timer' = [g \in Group |-> 0] /\ tries' = [g \in Group |-> 0]
      /\ task' = [g \in Group |-> [s \in Runner(g) |-> Idle]]
  BY DEF Gone
<1>3. 0 \in 0..MaxRetries
  BY Constants
<1>4. \A g \in Group : \A s \in Runner(g) : Fits(g, task[g][s])'
  BY <1>1, <1>2 DEF Fits
<1> QED BY <1>2, <1>3, <1>4 DEF TasksInv

\* A start arms the groups that are open (restore).
LEMMA StartKeeps ==
    ASSUME TablesInv, TasksInv, Grown, Start
    PROVE  TasksInv'
<1> DEFINE nap == [Idle EXCEPT !.pc = "sleeping"]
<1>1. CASE UNCHANGED <<timer, task>>
  <2>1. UNCHANGED <<timer, task, tries>>
    BY <1>1 DEF Start
  <2>2. ASSUME NEW h \in Group, NEW r \in Runner(h)
        PROVE  Fits(h, task[h][r])'
    <3>1. PICK u : u = task[h][r]
      OBVIOUS
    <3>2. Fits(h, u)'
      BY <3>1, FitsStays DEF TasksInv
    <3> QED BY <2>1, <3>1, <3>2 DEF Fits
  <2> QED BY <2>1, <2>2 DEF TasksInv
<1>2. CASE /\ timer' = [g \in Group |-> IF OpenGroup(g) THEN 1 ELSE 0]
           /\ task' = [g \in Group |-> [task[g] EXCEPT ![1] =
                IF OpenGroup(g) THEN [Idle EXCEPT !.pc = "sleeping"] ELSE Idle]]
  <2>0. UNCHANGED tries
    BY DEF Start
  <2>1. ASSUME NEW g \in Group
        PROVE  /\ DOMAIN task'[g] = Runner(g)
               /\ task'[g][1] = IF OpenGroup(g) THEN nap ELSE Idle
               /\ \A s \in Runner(g) \ {1} : task'[g][s] = task[g][s]
               /\ timer'[g] = (IF OpenGroup(g) THEN 1 ELSE 0)
               /\ 1 \in SlotOf(g) /\ 1 \in Slot
    BY <1>2, Constants DEF TasksInv
  <2>2. ASSUME NEW g \in Group
        PROVE  Fits(g, Idle)' /\ (OpenGroup(g) => Fits(g, nap)')
    <3>1. OpenGroup(g) => Stored(g) # {}
      BY DEF OpenGroup, Bound
    <3>2. Fits(g, Idle) /\ (OpenGroup(g) => Fits(g, nap))
      BY <3>1, SleeperFits DEF Grown
    <3> HIDE DEF nap
    <3> QED BY <3>2, FitsStays
  <2>3. nap.pc = "sleeping"
    BY DEF Idle
  <2> HIDE DEF nap
  <2>4. ASSUME NEW g \in Group, NEW s \in Runner(g)
        PROVE  Fits(g, task[g][s])'
    <3>1. CASE s = 1
      BY <2>1, <2>2, <3>1 DEF Fits
    <3>2. CASE s # 1
      <4>1. PICK u : u = task[g][s]
        OBVIOUS
      <4>2. Fits(g, u)'
        BY <4>1, FitsStays DEF TasksInv
      <4> QED BY <2>1, <3>2, <4>1, <4>2 DEF Fits
    <3> QED BY <3>1, <3>2
  <2>5. timer' \in [Group -> Slot \union {0}]
    BY <1>2, <2>1
  <2>6. DOMAIN task' = Group
    BY <1>2
  <2> QED BY <2>0, <2>1, <2>3, <2>4, <2>5, <2>6 DEF TasksInv
<1> QED BY <1>1, <1>2 DEF Start

\* The steps of the timers, of the flushes and of a shutdown; the others leave them alone.
LEMMA TasksStep ==
    ASSUME Typed, Grown, [Next]_vars
    PROVE  TasksInv'
<1>0. TablesInv /\ TasksInv
  BY DEF Typed
<1>9. CASE UNCHANGED timers
  <2>1. UNCHANGED <<timer, task, tries>>
    BY <1>9 DEF timers
  <2>2. ASSUME NEW h \in Group, NEW r \in Runner(h)
        PROVE  Fits(h, task[h][r])'
    <3>1. PICK u : u = task[h][r]
      OBVIOUS
    <3>2. Fits(h, u)'
      BY <1>0, <3>1, FitsStays DEF TasksInv
    <3> QED BY <2>1, <3>1, <3>2 DEF Fits
  <2> QED BY <1>0, <2>1, <2>2 DEF TasksInv
<1>1. ASSUME NEW g \in Group, NEW p \in PartOf(g), Arrive(g, p)
      PROVE  TasksInv'
  <2> DEFINE nap == [Idle EXCEPT !.pc = "sleeping"]
  <2>1. PICK s \in FreeSlots(g) \union ({timer[g]} \ {0}) :
             timer' = [timer EXCEPT ![g] = s] /\ task' = [task EXCEPT ![g][s] = nap]
    BY <1>1 DEF Arrive, Armed
  <2>2. s \in SlotOf(g) /\ s \in Runner(g)
    BY <1>0, Constants DEF TasksInv, FreeSlots
  <2>3. Idle \in TaskRec /\ Idle.row = 0 /\ nap.pc = "sleeping"
    BY SleeperFits DEF Grown, Idle
  <2>4. nap \in TaskRec /\ nap.row = 0 /\ nap.pc = "sleeping"
    BY <2>3 DEF TaskRec
  <2>5. g = "own" => Stored("own")' # {}
    <3>1. buffer' = [buffer EXCEPT ![g][p] = [Absent EXCEPT !.at = TRUE]]
      BY <1>1 DEF Arrive
    <3>2. buffer'[g][p].at
      BY <1>0, <3>1 DEF TablesInv, Absent
    <3> QED BY <3>2 DEF Stored
  <2> HIDE DEF nap
  <2>6. Fits(g, nap)'
    BY <2>4, <2>5 DEF Fits, Flushing, Grown
  <2>7. tries' \in [Group -> 0..MaxRetries]
    BY <1>0, <1>1 DEF Arrive, TasksInv
  <2> QED BY <1>0, <2>1, <2>2, <2>4, <2>6, <2>7, TaskMoves
<1>2. ASSUME NEW g \in Group, NEW s \in Runner(g), Fire(g, s)
      PROVE  TasksInv'
  <2> DEFINE t == [task[g][s] EXCEPT !.pc = "reading"]
  <2>1. Fits(g, task[g][s]) /\ task[g][s].pc = "sleeping"
    BY <1>0, <1>2 DEF TasksInv, Fire
  <2>2. Fits(g, t)
    BY <2>1 DEF Fits, TaskRec, Flushing
  <2>3. task' = [task EXCEPT ![g][s] = t] /\ timer' = [timer EXCEPT ![g] = 0] /\ tries' = tries
    BY <1>2 DEF Fire
  <2>4. t.pc = "reading" /\ tries' \in [Group -> 0..MaxRetries]
    BY <1>0, <2>1, <2>3 DEF TasksInv, Fits, TaskRec
  <2>5. PICK u : u = t
    OBVIOUS
  <2> HIDE DEF t
  <2>a. Fits(g, u)'
    BY <2>2, <2>5, FitsStays
  <2> QED BY <1>0, <2>3, <2>4, <2>5, <2>a, TaskMoves
<1>3. ASSUME NEW g \in Group, NEW s \in Runner(g), Flush(g, s) \/ FlushFails(g, s)
      PROVE  TasksInv'
  <2> DEFINE old == task[g][s]
             CarriesOn == \E t : /\ task' = [task EXCEPT ![g][s] = t] /\ Fits(g, t)'
                                /\ UNCHANGED <<timer, tries>>
  <2>1. Fits(g, old)
    BY <1>0 DEF TasksInv
  <2>2. CASE old.pc \in Flushing /\ CarriesOn
    BY <1>0, <2>2, FlushMoves
  <2>3. CASE old.pc \in Flushing /\ Raised(g, s)
    BY <1>0, <2>3, RaisedKeeps
  <2>4. CASE old.pc \in Flushing /\ Ends(g, s) /\ UNCHANGED <<timer, tries>>
    <3>1. Fits(g, Idle)'
      BY SleeperFits, FitsStays DEF Grown
    <3> QED BY <2>2, <2>4, <3>1 DEF Ends
  <2>5. ASSUME NEW pc \in Flushing \ {"reading", "indexing"}, Goes(g, s, pc),
               old.pc \in Flushing \ {"reading"}, UNCHANGED <<timer, tries>>
        PROVE  TasksInv'
    <3> DEFINE t == [old EXCEPT !.pc = pc]
    <3>1. task' = [task EXCEPT ![g][s] = t]
      BY <2>5 DEF Goes
    <3>2. Fits(g, t)
      <4> HIDE DEF old
      <4> QED BY <2>1, <2>5 DEF Fits, TaskRec, Flushing
    <3>3. PICK u : u = t
      OBVIOUS
    <3> HIDE DEF t
    <3>a. Fits(g, u)'
      BY <3>2, <3>3, FitsStays
    <3> QED BY <2>2, <2>5, <3>1, <3>3, <3>a
  <2>6. CASE Read(g, s)
    <3> DEFINE t == [pc |-> "indexing", parts |-> OrderedParts(g), i |-> 1, row |-> 0]
    <3>1. /\ task' = [task EXCEPT ![g][s] = t] /\ UNCHANGED <<timer, tries>>
          /\ old.pc = "reading" /\ g = "own"
      BY <2>6 DEF Read, At
    <3>2. Stored("own") # {}
      BY <2>1, <3>1 DEF Fits
    <3>3. /\ OrderedParts(g) \in Seq(Part) /\ Len(OrderedParts(g)) \in 1..NParts
          /\ \A i \in 1..Len(OrderedParts(g)) : OrderedParts(g)[i] \in Stored("own")
      <4>1. /\ OrderedParts(g) \in SetToSeqs(Stored(g)) /\ OrderedParts(g) \in Seq(Part)
            /\ Len(OrderedParts(g)) = Cardinality(Stored(g)) /\ IsFiniteSet(Stored(g))
        BY <1>0, PartsInOrder, StoredParts
      <4>2. Cardinality(Stored(g)) \in 1..NParts
        BY <1>0, <3>1, <3>2, StoredParts, Constants
      <4> QED BY <3>1, <4>1, <4>2, ListsAll
    <3>4. OrderedParts(g) # <<>>
      BY <3>3, EmptySeq
    <3>5. Fits(g, t)
      <4>1. t \in TaskRec
        BY <3>3 DEF TaskRec, Flushing
      <4>2. Len(rows) >= 0 /\ 1 \in 1..Len(OrderedParts(g)) /\ Len(OrderedParts(g)) <= NParts
        BY <3>3 DEF Grown
      <4>3. g \notin Album
        BY <3>1, Constants
      <4> QED BY <3>2, <3>3, <3>4, <4>1, <4>2, <4>3 DEF Fits, Grown
    <3>6. PICK u : u = t
      OBVIOUS
    <3> HIDE DEF t
    <3>a. Fits(g, u)'
      BY <3>5, <3>6, FitsStays
    <3> QED BY <2>2, <3>1, <3>6, <3>a DEF Flushing
  <2>7. CASE Index(g, s)
    <3>1. old.pc = "indexing" /\ old.pc \in Flushing
      BY <2>7 DEF Index, At, Flushing
    <3>2. CASE Raised(g, s)
      BY <2>3, <3>1, <3>2
    <3>3. CASE ~Raised(g, s)
      <4> DEFINE t == IF old.i = Len(old.parts) THEN [old EXCEPT !.pc = "mapping"]
                      ELSE [old EXCEPT !.i = @ + 1]
      <4>1. task' = [task EXCEPT ![g][s] = t] /\ UNCHANGED <<timer, tries>>
        BY <2>7, <3>3 DEF Index
      <4>2. Fits(g, t)
        <5> HIDE DEF old
        <5>1. old.i \in 1..Len(old.parts) /\ Len(old.parts) \in Nat /\ old \in TaskRec
          BY <2>1, <3>1, LenProperties DEF Fits, TaskRec
        <5>2. CASE old.i = Len(old.parts)
          BY <2>1, <3>1, <5>2 DEF Fits, TaskRec, Flushing
        <5>3. CASE old.i # Len(old.parts)
          <6>1. old.i + 1 \in 1..Len(old.parts) /\ old.i + 1 \in Nat
            BY <5>1, <5>3
          <6>2. t = [old EXCEPT !.i = old.i + 1]
            BY <5>3
          <6>3. t \in TaskRec /\ t.pc = old.pc /\ t.parts = old.parts /\ t.row = old.row
                /\ t.i = old.i + 1
            BY <5>1, <6>1, <6>2 DEF TaskRec
          <6> HIDE DEF t
          <6> QED BY <2>1, <6>1, <6>3 DEF Fits
        <5> QED BY <5>2, <5>3
      <4>3. PICK u : u = t
        OBVIOUS
      <4> HIDE DEF t
      <4>a. Fits(g, u)'
        BY <4>2, <4>3, FitsStays
      <4> QED BY <2>2, <3>1, <4>1, <4>3, <4>a
    <3> QED BY <3>2, <3>3
  <2>8. CASE MapAlbum(g, s)
    <3>1. old.pc = "mapping" /\ UNCHANGED <<timer, tries>>
      BY <2>8 DEF MapAlbum, At
    <3>2. CASE Goes(g, s, "recording")
      BY <2>5, <3>1, <3>2 DEF Flushing
    <3>3. ASSUME NEW r \in Known(g, old.parts[1]),
                 task' = [task EXCEPT ![g][s].pc = "binding", ![g][s].row = r]
          PROVE  TasksInv'
      <4> DEFINE t == [old EXCEPT !.pc = "binding", !.row = r]
      <4>1. task' = [task EXCEPT ![g][s] = t]
        BY <1>0, <3>3 DEF TasksInv
      <4>2. r \in Nat /\ r <= Len(rows)
        <5>1. CASE Bound(g) # {}
          <6>1. PICK p \in Bound(g) : r = buffer[g][p].row
            BY <3>3, <5>1 DEF Known
          <6>2. p \in PartOf(g)
            BY <6>1 DEF Bound, Stored
          <6> QED BY <1>0, <6>1, <6>2 DEF TablesInv, PartRec
        <5>2. CASE Bound(g) = {}
          <6>1. r \in DOMAIN rows
            BY <3>3, <5>2 DEF Known
          <6>2. r \in 1..Len(rows)
            BY <1>0, <6>1, LenProperties DEF TablesInv
          <6> QED BY <6>2
        <5> QED BY <5>1, <5>2
      <4>3. Fits(g, t)
        <5> HIDE DEF old
        <5> QED BY <2>1, <3>1, <4>2 DEF Fits, TaskRec, Flushing
      <4>4. PICK u : u = t
        OBVIOUS
      <4> HIDE DEF t
      <4>a. Fits(g, u)'
        BY <4>3, <4>4, FitsStays
      <4> QED BY <2>2, <3>1, <4>1, <4>4, <4>a DEF Flushing
    <3> QED BY <2>8, <3>2, <3>3 DEF MapAlbum
  <2>9. CASE Record(g, s)
    <3> DEFINE t == [old EXCEPT !.pc = "binding", !.row = Len(rows) + 1]
    <3>1. old.pc = "recording" /\ UNCHANGED <<timer, tries>>
      BY <2>9 DEF Record, At
    <3>2. task' = [task EXCEPT ![g][s] = t]
      BY <1>0, <2>9 DEF Record, TasksInv
    <3>3. old \in TaskRec /\ old.parts \in Seq(Part) /\ old.parts # <<>> /\ Len(rows) \in Nat
      BY <2>1, <3>1 DEF Fits, TaskRec, Flushing, Grown
    <3>4. Len(rows') = Len(rows) + 1
      <4>1. rows' = Append(rows, old.parts[1]) /\ rows \in Seq(Part)
        BY <1>0, <2>9 DEF Record, TablesInv
      <4> HIDE DEF old
      <4> QED BY <3>3, <4>1
    <3>5. t \in TaskRec /\ t.row = Len(rows) + 1 /\ t.pc = "binding" /\ t.parts = old.parts
      <4>1. Len(rows) + 1 \in Nat
        BY <3>3
      <4> HIDE DEF old
      <4> QED BY <3>3, <4>1, Zenon DEF TaskRec, Flushing
    <3>6. PICK o : o = old
      OBVIOUS
    <3>7. Fits(g, o)'
      BY <2>1, <3>6, FitsStays
    <3>8. PICK u : u = t
      OBVIOUS
    <3> HIDE DEF t, old
    <3>9. u \in TaskRec /\ u.row = Len(rows') /\ u.pc = "binding" /\ u.parts = o.parts
          /\ o.pc = "recording"
      BY <3>1, <3>4, <3>5, <3>6, <3>8
    <3>10. u.row <= Len(rows')
      BY <3>9 DEF Grown
    <3>11. Fits(g, u)'
      BY <3>7, <3>9, <3>10 DEF Fits, Flushing
    <3> QED BY <2>2, <3>1, <3>2, <3>8, <3>11 DEF Flushing
  <2>10. CASE BindLink(g, s)
    BY <2>5, <2>10 DEF BindLink, At, Flushing
  <2>11. CASE Submit(g, s)
    BY <2>4, <2>5, <2>11 DEF Submit, At, Flushing
  <2>12. CASE Attempted(g, s)
    BY <2>3, <2>4, <2>12 DEF Attempted, At, Flushing
  <2>13. CASE SubmitEcho(g, s)
    BY <2>4, <2>13 DEF SubmitEcho, At, Flushing
  <2>14. CASE FlushFails(g, s)
    BY <2>3, <2>14 DEF FlushFails, At
  <2> QED BY <1>3, <2>6, <2>7, <2>8, <2>9, <2>10, <2>11, <2>12, <2>13, <2>14 DEF Flush
<1>4. ASSUME NEW g \in Group, DrainNext(g)
      PROVE  TasksInv'
  BY <1>0, <1>4, DrainedKeeps DEF DrainNext, Typed, JobsInv
<1>5. ASSUME NEW g \in Album, Bind(g) \/ GiveUp(g) \/ BindingFails(g)
      PROVE  UNCHANGED timers
  <2>1. CASE RunJob(g) \/ TestHead(g) \/ Attach(g) \/ StopBinding(g) \/ TestFollowing(g) \/ Clear(g)
    BY <2>1 DEF RunJob, TestHead, Attach, StopBinding, TestFollowing, Clear
  <2>2. CASE GiveUp(g) \/ BindingFails(g)
    BY <2>2 DEF GiveUp, BindingFails
  <2> QED BY <1>5, <2>1, <2>2 DEF Bind
<1>6. CASE Crash \/ Exit
  BY <1>0, <1>6, GoneKeeps DEF Crash, Exit
<1>7. CASE Stop
  <2>1. CASE UNCHANGED <<timer, task>>
    <3>1. UNCHANGED tries
      BY <1>7 DEF Stop
    <3>2. UNCHANGED timers
      BY <2>1, <3>1 DEF timers
    <3> QED BY <1>9, <3>2
  <2>2. ASSUME NEW g \in Group, timer[g] # 0, Drained(g)
        PROVE  TasksInv'
    <3>1. g = "own" => Stored("own") # {}
      <4>1. timer[g] \in Runner(g) /\ task[g][timer[g]].pc = "sleeping"
        BY <1>0, <2>2, Constants DEF TasksInv
      <4>2. Fits(g, task[g][timer[g]])
        BY <1>0, <4>1 DEF TasksInv
      <4> QED BY <4>1, <4>2 DEF Fits
    <3>2. UNCHANGED tries
      BY <1>7 DEF Stop
    <3> QED BY <1>0, <2>2, <3>1, <3>2, DrainedKeeps
  <2> QED BY <1>7, <2>1, <2>2 DEF Stop
<1>8. CASE Start
  BY <1>0, <1>8, StartKeeps
<1> QED BY <1>1, <1>2, <1>3, <1>4, <1>5, <1>6, <1>7, <1>8, <1>9 DEF Next, vars

\* The job and the attempt of one group move together.
LEMMA JobMoves ==
    ASSUME JobsInv, NEW g \in Group, NEW j \in JobRec, NEW st \in StepRec,
           g \in Album => StepFits(j, st),
           job' = [job EXCEPT ![g] = j], step' = [step EXCEPT ![g] = st]
    PROVE  /\ job' \in [Group -> JobRec] /\ step' \in [Group -> StepRec]
           /\ \A h \in Album : StepFits(job'[h], step'[h])
  BY DEF JobsInv, Album, Group

\* Settled, or on to its next step, an attempt fits its job (Settles, Steps).
LEMMA AttemptMoves ==
    ASSUME JobsInv, NEW g \in Album
    PROVE  /\ \A state \in {"pending", "done", "ambiguous"} : Settles(g, state) =>
                /\ job' \in [Group -> JobRec] /\ step' \in [Group -> StepRec]
                /\ \A h \in Album : StepFits(job'[h], step'[h])
           /\ \A pc \in {"heading", "attaching", "stopping", "following"}, a \in Album :
                /\ step[g].pc # "none" /\ Steps(g, pc, a) /\ UNCHANGED job
                /\ pc = "attaching" => Len(job[g].parts) = 2
                => /\ job' \in [Group -> JobRec] /\ step' \in [Group -> StepRec]
                   /\ \A h \in Album : StepFits(job'[h], step'[h])
<1>0. g \in Group /\ job[g] \in JobRec /\ step[g] \in StepRec /\ StepFits(job[g], step[g])
  BY DEF JobsInv, Group
<1>1. ASSUME NEW state \in {"pending", "done", "ambiguous"}, Settles(g, state)
      PROVE  /\ job' \in [Group -> JobRec] /\ step' \in [Group -> StepRec]
             /\ \A h \in Album : StepFits(job'[h], step'[h])
  <2> DEFINE j == [job[g] EXCEPT !.state = state]
  <2>1. j \in JobRec
    BY <1>0 DEF JobRec
  <2>2. NoStep \in StepRec /\ StepFits(j, NoStep)
    BY DEF NoStep, StepRec, StepFits, Album
  <2>3. job' = [job EXCEPT ![g] = j] /\ step' = [step EXCEPT ![g] = NoStep]
    BY <1>1 DEF Settles
  <2>4. PICK u : u = j
    OBVIOUS
  <2> HIDE DEF j
  <2> QED BY <1>0, <2>1, <2>2, <2>3, <2>4, JobMoves
<1>2. ASSUME NEW pc \in {"heading", "attaching", "stopping", "following"}, NEW a \in Album,
             step[g].pc # "none", Steps(g, pc, a), UNCHANGED job,
             pc = "attaching" => Len(job[g].parts) = 2
      PROVE  /\ job' \in [Group -> JobRec] /\ step' \in [Group -> StepRec]
             /\ \A h \in Album : StepFits(job'[h], step'[h])
  <2> DEFINE st == [pc |-> pc, album |-> a, i |-> 1]
  <2>1. st \in StepRec
    BY DEF StepRec
  <2>2. job' = [job EXCEPT ![g] = job[g]] /\ step' = [step EXCEPT ![g] = st]
    BY <1>0, <1>2 DEF Steps, JobsInv
  <2>3. StepFits(job[g], st)
    BY <1>0, <1>2 DEF StepFits
  <2>4. PICK j : j = job[g]
    OBVIOUS
  <2> HIDE DEF st
  <2> QED BY <1>0, <2>1, <2>2, <2>3, <2>4, JobMoves
<1> QED BY <1>1, <1>2

\* Whoever is next in the queue is one of the two albums.
LEMMA HeadsAreAlbums == Heads \subseteq Album
  BY DEF Heads, Album

Albumwise(g) == Bind(g) \/ GiveUp(g) \/ BindingFails(g)
Echoes == \/ \E g \in Group : \E s \in Runner(g) : Submit(g, s) \/ SubmitEcho(g, s)
          \/ \E g \in Album : Albumwise(g)
          \/ Gone

\* Jobs, attempts and aliases are moved by a flush that submits, an attempt or a crash.
LEMMA WhoBinds == ASSUME [Next]_vars PROVE Echoes \/ UNCHANGED <<job, step, alias>>
<1> USE DEF vars, tables, timers, history
<1>1. CASE Next
  <2>1. CASE \E g \in Group : \E p \in PartOf(g) : Arrive(g, p)
    BY <2>1 DEF Arrive
  <2>2. ASSUME NEW g \in Group, NEW s \in Runner(g), Fire(g, s) \/ Flush(g, s) \/ FlushFails(g, s)
        PROVE  Echoes \/ UNCHANGED <<job, step, alias>>
    <3>1. CASE Fire(g, s) \/ FlushFails(g, s)
      BY <3>1 DEF Fire, FlushFails
    <3>2. CASE Read(g, s) \/ Index(g, s) \/ MapAlbum(g, s) \/ Record(g, s) \/ BindLink(g, s)
                 \/ Attempted(g, s)
      BY <3>2 DEF Read, Index, MapAlbum, Record, BindLink, Attempted
    <3>3. CASE Submit(g, s) \/ SubmitEcho(g, s)
      BY <3>3 DEF Echoes
    <3> QED BY <2>2, <3>1, <3>2, <3>3 DEF Flush
  <2>3. CASE \E g \in Group : DrainNext(g)
    BY <2>3 DEF DrainNext
  <2>4. CASE \E g \in Album : Bind(g) \/ GiveUp(g) \/ BindingFails(g)
    BY <2>4 DEF Echoes, Albumwise
  <2>5. CASE Stop \/ Start
    BY <2>5 DEF Stop, Start
  <2>6. CASE Crash \/ Exit
    BY <2>6 DEF Crash, Exit, Echoes
  <2> QED BY <1>1, <2>1, <2>2, <2>3, <2>4, <2>5, <2>6 DEF Next
<1> QED BY <1>1

Attempts == /\ job' \in [Group -> JobRec] /\ step' \in [Group -> StepRec]
            /\ \A h \in Album : StepFits(job'[h], step'[h])

\* A flush that submits makes the job of its group.
LEMMA SubmitKeeps ==
    ASSUME Typed, NEW g \in Group, NEW s \in Runner(g), Submit(g, s) \/ SubmitEcho(g, s)
    PROVE  Attempts
<1>0. /\ JobsInv /\ job[g] \in JobRec /\ step[g] \in StepRec /\ Fits(g, task[g][s])
      /\ OrderedParts(g) \in Seq(Part)
  BY PartsInOrder DEF Typed, TasksInv, JobsInv
<1>1. CASE Submit(g, s)
  <2>1. g \notin Album /\ step' = step
    BY <1>0, <1>1 DEF Submit, At, Fits
  <2>2. CASE job' = job
    BY <1>0, <2>1, <2>2 DEF Attempts, JobsInv
  <2>3. CASE job' # job
    <3> DEFINE j == [state |-> "queued", parts |-> task[g][s].parts, row |-> task[g][s].row]
    <3>1. j \in JobRec
      BY <1>0 DEF Fits, TaskRec, JobRec
    <3>2. job' = [job EXCEPT ![g] = j] /\ step' = [step EXCEPT ![g] = step[g]]
      BY <1>0, <1>1, <2>1, <2>3 DEF Submit, JobsInv
    <3>3. PICK u : u = step[g]
      OBVIOUS
    <3> HIDE DEF j
    <3> QED BY <1>0, <2>1, <3>1, <3>2, <3>3, JobMoves DEF Attempts
  <2> QED BY <2>2, <2>3
<1>2. CASE SubmitEcho(g, s)
  <2>1. CASE UNCHANGED <<job, step>>
    BY <1>0, <2>1 DEF Attempts, JobsInv
  <2>2. CASE ~UNCHANGED <<job, step>>
    <3> DEFINE j == [state |-> "running", parts |-> OrderedParts(g), row |-> 0]
               st == [pc |-> "clearing", album |-> "first", i |-> 1]
    <3>1. j \in JobRec /\ st \in StepRec /\ StepFits(j, st)
      BY <1>0 DEF JobRec, StepRec, StepFits, Album
    <3>2. job' = [job EXCEPT ![g] = j] /\ step' = [step EXCEPT ![g] = st]
      BY <1>2, <2>2 DEF SubmitEcho, Steps
    <3>3. PICK u : u = j
      OBVIOUS
    <3> HIDE DEF j, st
    <3> QED BY <1>0, <3>1, <3>2, <3>3, JobMoves DEF Attempts
  <2> QED BY <2>1, <2>2
<1> QED BY <1>1, <1>2

\* An attempt at a binding job goes its way one step at a time.
LEMMA BindKeeps ==
    ASSUME Typed, NEW g \in Album, Albumwise(g)
    PROVE  Attempts /\ alias' \in [Album -> [1..2 -> AliasRec]]
<1>0. /\ JobsInv /\ g \in Group /\ job[g] \in JobRec /\ step[g] \in StepRec
      /\ StepFits(job[g], step[g]) /\ alias \in [Album -> [1..2 -> AliasRec]]
      /\ job[g].parts \in Seq(Part) /\ step[g].album \in Album
  BY Constants DEF Typed, JobsInv, JobRec, StepRec
<1>a. ASSUME NEW a \in Heads, Matches(a, g)
      PROVE  a \in Album /\ Len(job[g].parts) = 2
  BY <1>a, HeadsAreAlbums DEF Matches
<1>1. CASE RunJob(g)
  <2> DEFINE j == [job[g] EXCEPT !.state = "running"]
             st == [pc |-> "clearing", album |-> "first", i |-> 1]
  <2>1. j \in JobRec /\ st \in StepRec /\ StepFits(j, st)
    BY <1>0 DEF JobRec, StepRec, StepFits, Album
  <2>2. job' = [job EXCEPT ![g] = j] /\ step' = [step EXCEPT ![g] = st] /\ alias' = alias
    BY <1>1 DEF RunJob, Steps
  <2>3. PICK u : u = j
    OBVIOUS
  <2> HIDE DEF j, st
  <2> QED BY <1>0, <2>1, <2>2, <2>3, JobMoves DEF Attempts
<1>2. CASE Clear(g)
  <2>1. step[g].pc # "none" /\ Steps(g, "heading", "first") /\ UNCHANGED <<job, alias>>
    BY <1>2 DEF Clear, Trying
  <2>2. "first" \in Album
    BY DEF Album
  <2> QED BY <1>0, <2>1, <2>2, AttemptMoves DEF Attempts
<1>3. CASE TestHead(g)
  <2>1. step[g].pc # "none" /\ alias' = alias
    BY <1>3 DEF TestHead, Trying
  <2>2. CASE Settles(g, "done") \/ Settles(g, "pending")
    BY <1>0, <2>1, <2>2, AttemptMoves DEF Attempts
  <2>3. CASE \E a \in Heads : Matches(a, g) /\ Steps(g, "attaching", a) /\ UNCHANGED job
    BY <1>0, <1>a, <2>1, <2>3, AttemptMoves DEF Attempts
  <2> QED BY <1>3, <2>2, <2>3 DEF TestHead
<1>4. CASE GiveUp(g)
  <2>1. step[g].pc # "none" /\ UNCHANGED <<job, alias>> /\ \E a \in Heads : Steps(g, "stopping", a)
    BY <1>4 DEF GiveUp, Trying, tables
  <2> QED BY <1>0, <2>1, HeadsAreAlbums, AttemptMoves DEF Attempts
<1>5. ASSUME step' = [step EXCEPT ![g].i = step[g].i + 1], UNCHANGED job, step[g].i # 2,
             step[g].pc \in {"attaching", "stopping"}
      PROVE  Attempts
  <2> DEFINE st == [step[g] EXCEPT !.i = step[g].i + 1]
  <2>1. step[g].i \in 1..2
    BY <1>0, <1>5 DEF StepFits
  <2>2. st \in StepRec /\ StepFits(job[g], st)
    BY <1>0, <1>5, <2>1 DEF StepRec, StepFits
  <2>3. job' = [job EXCEPT ![g] = job[g]] /\ step' = [step EXCEPT ![g] = st]
    BY <1>0, <1>5 DEF JobsInv
  <2>4. PICK u, v : u = st /\ v = job[g]
    OBVIOUS
  <2> HIDE DEF st
  <2> QED BY <1>0, <2>2, <2>3, <2>4, JobMoves DEF Attempts
<1>6. CASE Attach(g)
  <2> DEFINE a == step[g].album
             i == step[g].i
             owner == <<g, job[g].parts[i]>>
  <2>1. step[g].pc = "attaching" /\ i \in 1..2 /\ Len(job[g].parts) = 2
    BY <1>0, <1>6 DEF Attach, Trying, StepFits
  <2>2. owner \in Album \X Part
    BY <1>0, <2>1
  <2>3. CASE alias' = [alias EXCEPT ![a][i].owner = owner]
    <3>1. [alias[a][i] EXCEPT !.owner = owner] \in AliasRec
      BY <1>0, <2>1, <2>2 DEF AliasRec
    <3>2. alias' \in [Album -> [1..2 -> AliasRec]]
      <4>1. alias' = [alias EXCEPT ![a][i] = [alias[a][i] EXCEPT !.owner = owner]]
        BY <2>3
      <4> HIDE DEF owner
      <4> QED BY <1>0, <2>1, <3>1, <4>1
    <3>3. \/ i = 2 /\ Settles(g, "done")
          \/ i # 2 /\ step' = [step EXCEPT ![g].i = i + 1] /\ UNCHANGED job
          \/ Settles(g, "ambiguous")
      BY <1>6 DEF Attach
    <3> QED BY <1>0, <1>5, <2>1, <3>2, <3>3, AttemptMoves DEF Attempts
  <2>4. CASE UNCHANGED alias /\ Settles(g, "ambiguous")
    BY <1>0, <2>4, AttemptMoves DEF Attempts
  <2> QED BY <1>6, <2>3, <2>4 DEF Attach
<1>7. CASE StopBinding(g)
  <2> DEFINE a == step[g].album
             i == step[g].i
             stops == alias[a][i].print /\ alias[a][i].owner # Nobody
  <2>1. step[g].pc = "stopping" /\ i \in 1..2 /\ UNCHANGED job
    BY <1>0, <1>7 DEF StopBinding, Trying, StepFits
  <2>2. alias' \in [Album -> [1..2 -> AliasRec]]
    <3>1. alias' = [alias EXCEPT ![a][i] = [alias[a][i] EXCEPT !.print = stops]]
      BY <1>7 DEF StopBinding
    <3>2. [alias[a][i] EXCEPT !.print = stops] \in AliasRec
      <4>1. alias[a][i] \in AliasRec
        BY <1>0, <2>1
      <4>2. stops \in BOOLEAN
        BY <4>1 DEF AliasRec
      <4> HIDE DEF stops
      <4> QED BY <4>1, <4>2 DEF AliasRec
    <3>3. PICK r \in AliasRec : r = [alias[a][i] EXCEPT !.print = stops]
      BY <3>2
    <3> HIDE DEF stops
    <3> QED BY <1>0, <2>1, <3>1, <3>3
  <2>3. \/ i = 2 /\ Steps(g, "following", a)
        \/ i # 2 /\ step' = [step EXCEPT ![g].i = i + 1]
    BY <1>7 DEF StopBinding
  <2> QED BY <1>0, <1>5, <2>1, <2>2, <2>3, AttemptMoves DEF Attempts
<1>8. CASE TestFollowing(g)
  <2>1. step[g].pc # "none" /\ alias' = alias
    BY <1>8 DEF TestFollowing, Trying
  <2>2. CASE Settles(g, "ambiguous")
    BY <1>0, <2>1, <2>2, AttemptMoves DEF Attempts
  <2>3. CASE \E a \in Heads : Matches(a, g) /\ Steps(g, "attaching", a) /\ UNCHANGED job
    BY <1>0, <1>a, <2>1, <2>3, AttemptMoves DEF Attempts
  <2> QED BY <1>8, <2>2, <2>3 DEF TestFollowing
<1>9. CASE BindingFails(g)
  <2>1. Settles(g, "pending") /\ alias' = alias
    BY <1>9 DEF BindingFails
  <2> QED BY <1>0, <2>1, AttemptMoves DEF Attempts
<1> QED BY <1>1, <1>2, <1>3, <1>4, <1>6, <1>7, <1>8, <1>9 DEF Albumwise, Bind

\* A crash sends the jobs that ran back to the queue, and their attempts are gone.
LEMMA GoneBinds ==
    ASSUME Typed, Gone
    PROVE  Attempts /\ alias' = alias
<1>1. /\ job' = [g \in Group |->
           IF job[g].state = "running" THEN [job[g] EXCEPT !.state = "pending"] ELSE job[g]]
      /\ step' = [g \in Group |-> NoStep] /\ alias' = alias
  BY DEF Gone
<1>2. NoStep \in StepRec /\ NoStep.pc = "none"
  BY DEF NoStep, StepRec, Album
<1>3. ASSUME NEW g \in Group
      PROVE  job'[g] \in JobRec
  <2>1. job[g] \in JobRec
    BY DEF Typed, JobsInv
  <2>2. [job[g] EXCEPT !.state = "pending"] \in JobRec
    BY <2>1 DEF JobRec
  <2> QED BY <1>1, <2>1, <2>2
<1>4. \A h \in Album : StepFits(job'[h], step'[h])
  BY <1>1, <1>2, Constants DEF StepFits
<1>5. job' \in [Group -> JobRec]
  BY <1>1, <1>3
<1> QED BY <1>1, <1>2, <1>4, <1>5 DEF Attempts

\* What a shutdown has still to flush has a timer, and so has parts.
LEMMA PhaseStep ==
    ASSUME Typed, [Next]_vars
    PROVE  /\ scene' = scene /\ phase' \in {"up", "draining", "down"} /\ drains' \subseteq Group
           /\ "own" \in drains' => Stored("own") # {}
<1> USE DEF vars, tables, timers, history
<1>0. /\ phase \in {"up", "draining", "down"} /\ drains \subseteq Group
      /\ "own" \in drains => Stored("own") # {}
      /\ "own" \in Group
      /\ timer["own"] # 0 => Stored("own") # {}
  <2>1. /\ phase \in {"up", "draining", "down"} /\ drains \subseteq Group
        /\ "own" \in drains => Stored("own") # {}
    BY DEF Typed, JobsInv
  <2>2. "own" \in Group
    BY Constants
  <2>3. ASSUME timer["own"] # 0
        PROVE  Stored("own") # {}
    <3>1. timer["own"] \in Runner("own") /\ task["own"][timer["own"]].pc = "sleeping"
      BY <2>2, <2>3, Constants DEF Typed, TasksInv
    <3>2. Fits("own", task["own"][timer["own"]])
      BY <2>2, <3>1 DEF Typed, TasksInv
    <3> QED BY <3>1, <3>2 DEF Fits
  <2> QED BY <2>1, <2>2, <2>3
<1>r. ASSUME NEW g, NEW s, Raised(g, s)
      PROVE  drains' \in {{}, drains}
  BY <1>r DEF Raised
<1>1. ASSUME NEW g \in Group, NEW p \in PartOf(g), Arrive(g, p)
      PROVE  UNCHANGED <<scene, phase, drains>>
  BY <1>1 DEF Arrive
<1>2. ASSUME NEW g \in Group, NEW s \in Runner(g), Fire(g, s) \/ Flush(g, s) \/ FlushFails(g, s)
      PROVE  UNCHANGED <<scene, phase>> /\ drains' \in {{}, drains}
  <2>1. CASE Fire(g, s) \/ Read(g, s) \/ MapAlbum(g, s) \/ Record(g, s) \/ BindLink(g, s)
               \/ Submit(g, s) \/ SubmitEcho(g, s)
    BY <2>1 DEF Fire, Read, MapAlbum, Record, BindLink, Submit, SubmitEcho
  <2>2. CASE Index(g, s) \/ Attempted(g, s) \/ FlushFails(g, s)
    BY <1>r, <2>2 DEF Index, Attempted, FlushFails
  <2> QED BY <1>2, <2>1, <2>2 DEF Flush
<1>3. ASSUME NEW g \in Group, DrainNext(g)
      PROVE  UNCHANGED <<scene, phase>> /\ drains' \subseteq drains
  BY <1>3 DEF DrainNext
<1>4. ASSUME NEW g \in Album, Bind(g) \/ GiveUp(g) \/ BindingFails(g)
      PROVE  UNCHANGED <<scene, phase, drains>>
  <2>1. CASE RunJob(g) \/ Clear(g) \/ TestHead(g) \/ Attach(g) \/ StopBinding(g) \/ TestFollowing(g)
    BY <2>1 DEF RunJob, Clear, TestHead, Attach, StopBinding, TestFollowing
  <2>2. CASE GiveUp(g) \/ BindingFails(g)
    BY <2>2 DEF GiveUp, BindingFails
  <2> QED BY <1>4, <2>1, <2>2 DEF Bind
<1>5. CASE Crash \/ Exit
  BY <1>5 DEF Crash, Exit, Gone
<1>6. CASE Stop
  <2>1. scene' = scene /\ phase' = "draining" /\ drains' \subseteq {g \in Group : timer[g] # 0}
    BY <1>6 DEF Stop
  <2> QED BY <1>0, <2>1
<1>7. CASE Start
  BY <1>0, <1>7 DEF Start
<1>8. CASE UNCHANGED vars
  BY <1>0, <1>8
<1> QED BY <1>0, <1>1, <1>2, <1>3, <1>4, <1>5, <1>6, <1>7, <1>8 DEF Next

\* Every variable keeps its type, and what a task or a job refers to stays.
LEMMA TypedStep == ASSUME Typed, [Next]_vars PROVE Typed'
<1>1. TablesInv' /\ Stored("own") \subseteq Stored("own")' /\ Grown
  <2>1. TablesInv' /\ Stored("own") \subseteq Stored("own")'
        /\ Len(rows) <= Len(rows') /\ Len(rows) \in Nat
    BY TablesStep
  <2>2. Len(rows') \in Nat
    BY <2>1 DEF TablesInv
  <2> QED BY <2>1, <2>2 DEF Grown
<1>2. TasksInv'
  BY <1>1, TasksStep
<1>3. Attempts /\ alias' \in [Album -> [1..2 -> AliasRec]]
  <2>0. alias \in [Album -> [1..2 -> AliasRec]] /\ JobsInv
    BY DEF Typed, JobsInv
  <2>1. ASSUME NEW g \in Group, NEW s \in Runner(g), Submit(g, s) \/ SubmitEcho(g, s)
        PROVE  Attempts /\ alias' = alias
    BY <2>1, SubmitKeeps DEF Submit, SubmitEcho
  <2>2. CASE UNCHANGED <<job, step, alias>>
    BY <2>0, <2>2 DEF Attempts, JobsInv
  <2> QED BY <2>0, <2>1, <2>2, WhoBinds, BindKeeps, GoneBinds DEF Echoes
<1>4. JobsInv'
  <2>1. /\ scene' = scene /\ phase' \in {"up", "draining", "down"} /\ drains' \subseteq Group
        /\ "own" \in drains' => Stored("own")' # {}
    BY <1>1, PhaseStep
  <2>2. scene' \in {"owner", "alike", "unlike"}
    BY <2>1 DEF Typed, JobsInv
  <2> QED BY <1>3, <2>1, <2>2 DEF JobsInv, Attempts
<1> QED BY <1>1, <1>2, <1>4 DEF Typed

\* Nothing has come and nobody runs at first.
LEMMA TypedInit == Init => Typed
<1> SUFFICES ASSUME Init PROVE Typed
  OBVIOUS
<1>1. /\ buffer = [g \in Group |-> [p \in PartOf(g) |-> Absent]] /\ rows = <<>>
      /\ Absent.at = FALSE /\ Absent.index = 0 /\ Absent.row = 0 /\ Len(rows) = 0
      /\ Absent \in PartRec /\ <<>> \in Seq(Part)
  BY Constants DEF Init, Absent, PartRec
<1>2. \A g \in Group : Stored(g) = {}
  BY <1>1 DEF Stored
<1>3. TablesInv
  BY <1>1, <1>2 DEF TablesInv
<1>4. TasksInv
  <2>1. /\ timer = [g \in Group |-> 0] /\ tries = [g \in Group |-> 0]
        /\ task = [g \in Group |-> [s \in Runner(g) |-> Idle]]
    BY DEF Init
  <2>2. \A g \in Group : Fits(g, Idle)
    BY <1>1, SleeperFits
  <2>3. 0 \in 0..MaxRetries
    BY Constants
  <2> QED BY <2>1, <2>2, <2>3 DEF TasksInv
<1>5. JobsInv
  <2>1. /\ job = [g \in Group |-> NoJob] /\ step = [g \in Group |-> NoStep]
        /\ alias = [a \in Album |-> [p \in 1..2 |-> [owner |-> Nobody, print |-> TRUE]]]
        /\ scene \in {"owner", "alike", "unlike"} /\ phase = "up" /\ drains = {}
    BY DEF Init
  <2>2. NoJob \in JobRec
    BY <1>1 DEF NoJob, JobRec
  <2>3. NoStep \in StepRec /\ NoStep.pc = "none"
    BY DEF NoStep, StepRec, Album
  <2>4. [owner |-> Nobody, print |-> TRUE] \in AliasRec
    BY DEF AliasRec
  <2>5. \A g \in Album : StepFits(job[g], step[g])
    BY <2>1, <2>3, Constants DEF StepFits
  <2> QED BY <2>1, <2>2, <2>3, <2>4, <2>5 DEF JobsInv
<1> QED BY <1>3, <1>4, <1>5 DEF Typed

\* The invariant of the types holds throughout.
LEMMA TypedAlways == Spec => []Typed
<1>1. Typed /\ [Next]_vars => Typed'
  BY TypedStep
<1> QED BY <1>1, TypedInit, PTL DEF Spec

\* What every variable holds, the parts and the rows that a task or a part names included
\* (media_group_part, message_map, outbox).
THEOREM TypeCorrect == Spec => []TypeOK
<1>1. Typed => TypeOK
  <2> SUFFICES ASSUME Typed PROVE TypeOK
    OBVIOUS
  <2>1. TablesInv /\ TasksInv /\ JobsInv /\ Len(rows) \in Nat /\ Album \subseteq Group
    BY Constants DEF Typed, TablesInv
  <2>2. ASSUME NEW g \in Group, NEW p \in PartOf(g)
        PROVE  buffer[g][p] \in [at : BOOLEAN, index : 0..NParts, row : 0..Len(rows)]
    <3>1. buffer[g][p] \in PartRec /\ buffer[g][p].row <= Len(rows)
      BY <2>1 DEF TablesInv
    <3> QED BY <2>1, <3>1 DEF PartRec
  <2>3. ASSUME NEW g \in Group, NEW s \in Runner(g)
        PROVE  /\ task[g][s].pc \in Flushing \union {"none", "sleeping"}
               /\ task[g][s].parts \in Seq(Part) /\ task[g][s].row \in 0..Len(rows)
    <3>1. Fits(g, task[g][s])
      BY <2>1 DEF TasksInv
    <3> QED BY <2>1, <3>1 DEF Fits, TaskRec
  <2>4. ASSUME NEW g \in Group
        PROVE  /\ job[g].state \in {"none", "queued", "pending", "running", "done", "ambiguous"}
               /\ job[g].parts \in Seq(Part)
    BY <2>1 DEF JobsInv, JobRec
  <2>5. \A a \in Album, p \in 1..2 :
           alias[a][p] \in [owner : {Nobody} \union (Album \X Part), print : BOOLEAN]
    BY <2>1 DEF JobsInv, AliasRec
  <2> QED BY <2>1, <2>2, <2>3, <2>4, <2>5 DEF TypeOK, TablesInv, TasksInv, JobsInv
<1> QED BY <1>1, TypedAlways, PTL

-----------------------------------------------------------------------------
(* Echoes *)

\* The parts of an echo are never given places, so two of them are taken in the order of
\* their ids.
EchoesInv == /\ \A g \in Album : \A p \in PartOf(g) : buffer[g][p].index = 0
             /\ \A g \in Album : Len(job[g].parts) = 2 => job[g].parts = <<1, 2>>

Tied(a, p, g) == alias[a][p].owner = <<g, p>>
Free(a, p) == alias[a][p].owner = Nobody
HalfWay(g, a) == step[g].pc = "attaching" /\ step[g].album = a /\ step[g].i = 2

\* An album is bound from its first part on, to an echo of its structure; where the second
\* part is missing, the attempt is half way or has been cut off there.
OwnersInv ==
    /\ \A g \in Album : step[g].pc = "attaching" =>
          /\ Structure(step[g].album) = Structure(g)
          /\ step[g].i = 2 => Tied(step[g].album, 1, g)
    /\ \A a \in Album, p \in 1..2 :
          Free(a, p) \/ \E g \in Album : Tied(a, p, g) /\ Structure(a) = Structure(g)
    /\ \A a, g \in Album : Tied(a, 2, g) => Tied(a, 1, g)
    /\ \A a, g \in Album : Tied(a, 1, g) /\ Free(a, 2) => a \in cut \/ HalfWay(g, a)

\* Two parts without places are listed by their ids (ordered_parts).
LEMMA EchoInOrder ==
    ASSUME TablesInv, NEW g \in Album, \A p \in PartOf(g) : buffer[g][p].index = 0,
           Len(OrderedParts(g)) = 2
    PROVE  OrderedParts(g) = <<1, 2>>
<1> DEFINE s == OrderedParts(g)
<1>1. /\ s \in SetToSeqs(Stored(g)) /\ s \in Seq(Part) /\ Len(s) = 2
      /\ \A i, j \in DOMAIN s : i < j => Before(g, s[i], s[j])
      /\ IsFiniteSet(Stored(g)) /\ Stored(g) \subseteq PartOf(g) /\ PartOf(g) = 1..2
  BY PartsInOrder, StoredParts, Constants
<1>2. Cardinality(Stored(g)) = 2 /\ DOMAIN s = 1..2 /\ s[1] \in Stored(g) /\ s[2] \in Stored(g)
  <2> HIDE DEF s
  <2>1. Len(s) = Cardinality(Stored(g)) /\ s \in [1..Cardinality(Stored(g)) -> Stored(g)]
    BY <1>1, ListsAll
  <2> QED BY <1>1, <2>1
<1>3. s[1] \in 1..2 /\ s[2] \in 1..2 /\ s[1] < s[2]
  <2>1. Before(g, s[1], s[2]) /\ buffer[g][s[1]].index = 0 /\ buffer[g][s[2]].index = 0
    BY <1>1, <1>2
  <2> HIDE DEF s
  <2> QED BY <1>1, <1>2, <2>1 DEF Before
<1> HIDE DEF s
<1>4. s[1] = 1 /\ s[2] = 2
  BY <1>3
<1>5. s = <<1, 2>>
  BY <1>1, <1>4
<1> QED BY <1>5 DEF s

\* Whatever is written of an echo's parts has no place in it.
LEMMA EchoesStep ==
    ASSUME Typed, EchoesInv, [Next]_vars
    PROVE  EchoesInv'
<1>0. /\ TablesInv /\ TasksInv /\ JobsInv /\ Album \subseteq Group /\ "own" \notin Album
      /\ DOMAIN buffer = Group /\ DOMAIN job = Group
  BY Constants DEF Typed, TablesInv, JobsInv
<1>1. ASSUME NEW h \in Album, NEW q \in PartOf(h)
      PROVE  buffer'[h][q].index = 0
  <2>0. buffer[h] \in [PartOf(h) -> PartRec] /\ buffer[h][q].index = 0 /\ h \in Group
    BY <1>0 DEF TablesInv, EchoesInv
  <2>1. ASSUME NEW g \in Group, NEW p \in PartOf(g), Arrive(g, p)
        PROVE  buffer'[h][q].index = 0
    <3>1. buffer' = [buffer EXCEPT ![g][p] = [Absent EXCEPT !.at = TRUE]]
      BY <2>1 DEF Arrive
    <3>2. [Absent EXCEPT !.at = TRUE].index = 0
      BY DEF Absent
    <3>3. buffer'[h][q] \in {buffer[h][q], [Absent EXCEPT !.at = TRUE]}
      BY <1>0, <2>0, <3>1
    <3> QED BY <2>0, <3>2, <3>3
  <2>2. ASSUME NEW g \in Group, NEW s \in Runner(g), Index(g, s) \/ BindLink(g, s) \/ Record(g, s)
        PROVE  buffer'[h][q].index = 0
    <3>1. Fits(g, task[g][s]) /\ task[g][s].pc \in {"indexing", "binding", "recording"}
      BY <1>0, <2>2 DEF TasksInv, Index, BindLink, Record, At
    <3>2. g # h
      BY <3>1 DEF Fits
    <3>3. buffer'[h] = buffer[h]
      <4>1. CASE Index(g, s)
        <5>1. \/ UNCHANGED buffer
              \/ buffer' = [buffer EXCEPT ![g][task[g][s].parts[task[g][s].i]].index =
                               IF @ = 0 THEN task[g][s].i ELSE @]
          BY <4>1 DEF Index
        <5> QED BY <1>0, <2>0, <3>2, <5>1
      <4>2. CASE BindLink(g, s)
        BY <1>0, <2>0, <3>2, <4>2 DEF BindLink
      <4>3. CASE Record(g, s)
        BY <4>3 DEF Record
      <4> QED BY <2>2, <4>1, <4>2, <4>3
    <3> QED BY <2>0, <3>3
  <2>3. ASSUME NEW g \in Album, Clear(g)
        PROVE  buffer'[h][q].index = 0
    BY <1>0, <2>0, <2>3 DEF Clear, Absent
  <2> QED BY <2>0, <2>1, <2>2, <2>3, WhoWrites DEF Writes
<1>2. ASSUME NEW h \in Album, Len(job'[h].parts) = 2
      PROVE  job'[h].parts = <<1, 2>>
  <2>0. h \in Group /\ job[h] \in JobRec /\ (Len(job[h].parts) = 2 => job[h].parts = <<1, 2>>)
    BY <1>0 DEF JobsInv, EchoesInv
  <2>1. job'[h].parts = job[h].parts \/ job'[h].parts = OrderedParts(h)
    <3>1. ASSUME NEW g \in Group, NEW s \in Runner(g), Submit(g, s) \/ SubmitEcho(g, s)
          PROVE  job'[h].parts = job[h].parts \/ job'[h].parts = OrderedParts(h)
      <4>1. CASE SubmitEcho(g, s)
        BY <1>0, <2>0, <4>1 DEF SubmitEcho
      <4>2. CASE Submit(g, s)
        <5>1. Fits(g, task[g][s]) /\ task[g][s].pc = "submitting"
          BY <1>0, <4>2 DEF TasksInv, Submit, At
        <5>2. g # h
          BY <5>1 DEF Fits
        <5> QED BY <1>0, <2>0, <4>2, <5>2 DEF Submit
      <4> QED BY <3>1, <4>1, <4>2
    <3>2. ASSUME NEW g \in Album, Albumwise(g)
          PROVE  job'[h].parts = job[h].parts
      <4>1. UNCHANGED job \/ \E state : job' = [job EXCEPT ![g].state = state]
        BY <3>2 DEF Albumwise, Bind, RunJob, Clear, TestHead, GiveUp, Attach, StopBinding,
                    TestFollowing, BindingFails, Settles, tables
      <4> QED BY <1>0, <2>0, <4>1 DEF JobRec
    <3>3. CASE Gone
      BY <2>0, <3>3 DEF Gone, JobRec
    <3> QED BY <3>1, <3>2, <3>3, WhoBinds DEF Echoes
  <2>2. Len(OrderedParts(h)) = 2 => OrderedParts(h) = <<1, 2>>
    BY <1>0, EchoInOrder DEF EchoesInv
  <2> QED BY <1>2, <2>0, <2>1, <2>2
<1> QED BY <1>1, <1>2 DEF EchoesInv

\* As long as no album gets an owner-side id, an attempt may begin or end; one that was
\* half way ends with its album cut off.
LEMMA OwnersStay ==
    ASSUME OwnersInv, scene' = scene, cut \subseteq cut',
           \A a \in Album, p \in 1..2 : alias'[a][p].owner = alias[a][p].owner,
           \A g \in Album : step[g].album \in Album,
           \A g \in Album : step'[g].pc = "attaching" =>
              \/ step'[g] = step[g]
              \/ Structure(step'[g].album) = Structure(g) /\ step'[g].i = 1,
           \A g \in Album : step[g].pc = "attaching" /\ step[g].i = 2 =>
              step'[g] = step[g] \/ step[g].album \in cut'
    PROVE  OwnersInv'
<1>0. \A g : Structure(g)' = Structure(g)
  BY DEF Structure
<1>1. ASSUME NEW g \in Album, step'[g].pc = "attaching"
      PROVE  /\ Structure(step'[g].album) = Structure(g)
             /\ step'[g].i = 2 => step[g] = step'[g] /\ Tied(step'[g].album, 1, g)
  BY <1>1 DEF OwnersInv
<1>2. \A a \in Album, p \in 1..2 : /\ Free(a, p)' <=> Free(a, p)
                                   /\ \A g : Tied(a, p, g)' <=> Tied(a, p, g)
  BY DEF Free, Tied
<1>3. \A g \in Album : step'[g].pc = "attaching" =>
         /\ Structure(step[g].album)' = Structure(g)'
         /\ step'[g].i = 2 => Tied(step[g].album, 1, g)'
  <2>1. ASSUME NEW g \in Album, step'[g].pc = "attaching"
        PROVE  Structure(step[g].album)' = Structure(g)'
    BY <1>1, <2>1 DEF Structure
  <2>2. ASSUME NEW g \in Album, step'[g].pc = "attaching", step'[g].i = 2
        PROVE  Tied(step[g].album, 1, g)'
    <3>1. step'[g].album \in Album /\ Tied(step'[g].album, 1, g)
      BY <1>1, <2>2
    <3> QED BY <3>1 DEF Tied
  <2> QED BY <2>1, <2>2
<1>4. \A a, g \in Album : Tied(a, 1, g)' /\ Free(a, 2)' => a \in cut' \/ HalfWay(g, a)'
  BY <1>2 DEF OwnersInv, HalfWay
<1>5. \A a \in Album, p \in 1..2 :
          Free(a, p)' \/ \E g \in Album : Tied(a, p, g)' /\ Structure(a)' = Structure(g)'
  BY <1>0, <1>2 DEF OwnersInv
<1>6. \A a, g \in Album : Tied(a, 2, g)' => Tied(a, 1, g)'
  BY <1>2 DEF OwnersInv
<1> QED BY <1>3, <1>4, <1>5, <1>6 DEF OwnersInv

\* The part that an attempt comes to takes its id, or the attempt is over
\* (attach_owner_message).
LEMMA AttachKeeps ==
    ASSUME Typed, EchoesInv, OwnersInv, NEW h \in Album, Attach(h)
    PROVE  OwnersInv'
<1>0. /\ step[h] \in StepRec /\ StepFits(job[h], step[h]) /\ job[h] \in JobRec
      /\ alias \in [Album -> [1..2 -> AliasRec]] /\ step \in [Group -> StepRec]
      /\ Album \subseteq Group /\ scene' = scene
  BY Constants DEF Typed, JobsInv, Attach
<1>a. /\ step[h].pc = "attaching" /\ step[h].i \in 1..2 /\ step[h].album \in Album
      /\ job[h].parts = <<1, 2>>
  BY <1>0 DEF Attach, Trying, StepFits, StepRec, EchoesInv
<1>1. PICK b \in Album, i \in 1..2 : b = step[h].album /\ i = step[h].i
  BY <1>a
<1>2. <<h, job[h].parts[step[h].i]>> = <<h, i>>
  BY <1>a, <1>1
<1>3. /\ Structure(b) = Structure(h) /\ (i = 2 => Tied(b, 1, h))
      /\ \A g : Structure(g)' = Structure(g)
      /\ \A g \in Album : step[g].album \in Album
  BY <1>0, <1>a, <1>1 DEF OwnersInv, Structure, StepRec
<1>4. CASE ~CanAttach(b, i, <<h, i>>)
  <2>1. UNCHANGED alias /\ step' = [step EXCEPT ![h] = NoStep] /\ cut' = CutBy({h})
    BY <1>1, <1>2, <1>4 DEF Attach, Settles
  <2>2. cut \subseteq cut' /\ (i = 2 => b \in cut')
    BY <1>a, <1>1, <2>1 DEF CutBy
  <2>3. NoStep.pc = "none" /\ \A g \in Album \ {h} : step'[g] = step[g]
    BY <1>0, <2>1 DEF NoStep
  <2>4. \A g \in Album : step'[g].pc = "attaching" => step'[g] = step[g]
    BY <1>0, <2>1, <2>3
  <2>5. \A g \in Album : step[g].pc = "attaching" /\ step[g].i = 2 =>
              step'[g] = step[g] \/ step[g].album \in cut'
    BY <1>1, <2>2, <2>3
  <2> QED BY <1>0, <1>3, <2>1, <2>2, <2>4, <2>5, OwnersStay
<1>5. CASE CanAttach(b, i, <<h, i>>)
  <2>1. /\ alias' = [alias EXCEPT ![b][i].owner = <<h, i>>] /\ cut' = cut
        /\ \/ i = 2 /\ step' = [step EXCEPT ![h] = NoStep]
           \/ i = 1 /\ step' = [step EXCEPT ![h].i = 2]
    BY <1>1, <1>2, <1>5 DEF Attach, Settles
  <2>2. /\ alias'[b][i].owner = <<h, i>>
        /\ \A a \in Album, p \in 1..2 : a # b \/ p # i => alias'[a][p].owner = alias[a][p].owner
    BY <1>0, <1>1, <2>1 DEF AliasRec
  <2>3. alias[b][i].owner = <<h, i>> \/ alias[b][i].owner = Nobody
    BY <1>2, <1>5 DEF CanAttach
  <2>4. /\ Tied(b, i, h)' /\ ~Free(b, i)' /\ \A g \in Album : Tied(b, i, g)' => g = h
        /\ \A g \in Album : Tied(b, i, g) => g = h
        /\ \A a \in Album, p \in 1..2 : a # b \/ p # i =>
              /\ Free(a, p)' <=> Free(a, p)
              /\ \A g \in Album : Tied(a, p, g)' <=> Tied(a, p, g)
    <3>1. <<h, i>> # Nobody /\ \A g \in Album : <<h, i>> = <<g, i>> => g = h
      BY DEF Nobody
    <3>2. \A g \in Album : Nobody # <<g, i>>
      BY DEF Nobody
    <3> QED BY <2>2, <2>3, <3>1, <3>2 DEF Tied, Free
  <2>5. /\ \A g \in Album \ {h} : step'[g] = step[g]
        /\ \/ i = 2 /\ step'[h].pc = "none"
           \/ i = 1 /\ step'[h].pc = "attaching" /\ step'[h].album = b /\ step'[h].i = 2
    <3>1. NoStep.pc = "none"
      BY DEF NoStep
    <3>2. i = 1 => [step[h] EXCEPT !.i = 2].i = 2 /\ [step[h] EXCEPT !.i = 2].album = b
                   /\ [step[h] EXCEPT !.i = 2].pc = "attaching"
      BY <1>0, <1>a, <1>1 DEF StepRec
    <3> QED BY <1>0, <2>1, <3>1, <3>2
  <2>6. ASSUME NEW g \in Album, step'[g].pc = "attaching"
        PROVE  /\ Structure(step[g].album)' = Structure(g)'
               /\ step'[g].i = 2 => Tied(step[g].album, 1, g)'
    <3>1. CASE g = h
      <4>1. i = 1 /\ step'[g].album = b
        BY <2>5, <2>6, <3>1
      <4>2. Structure(step'[g].album) = Structure(g)
        BY <1>3, <3>1, <4>1
      <4>3. Structure(step[g].album)' = Structure(g)'
        BY <1>0, <4>2 DEF Structure
      <4>4. Tied(step[g].album, 1, g)'
        BY <2>4, <3>1, <4>1 DEF Tied
      <4> QED BY <4>3, <4>4
    <3>2. CASE g # h
      <4>1. step'[g] = step[g] /\ step[g].album \in Album
        BY <1>3, <2>5, <3>2
      <4>2. Structure(step[g].album) = Structure(g) /\ (step[g].i = 2 => Tied(step[g].album, 1, g))
        BY <2>6, <4>1 DEF OwnersInv
      <4>3. Structure(step[g].album)' = Structure(g)'
        BY <1>0, <4>1, <4>2 DEF Structure
      <4>4. ASSUME step[g].i = 2
            PROVE  Tied(step[g].album, 1, g)'
        <5>1. PICK a \in Album : a = step[g].album
          BY <4>1
        <5>2. Tied(a, 1, g) /\ ~(a = b /\ i = 1)
          BY <2>4, <3>2, <4>2, <4>4, <5>1
        <5>3. Tied(a, 1, g)'
          BY <2>4, <5>2
        <5> QED BY <4>1, <5>1, <5>3 DEF Tied
      <4> QED BY <4>1, <4>3, <4>4
    <3> QED BY <3>1, <3>2
  <2>7. ASSUME NEW a \in Album, NEW p \in 1..2
        PROVE  Free(a, p)' \/ \E g \in Album : Tied(a, p, g)' /\ Structure(a)' = Structure(g)'
    <3>1. CASE a = b /\ p = i
      BY <1>3, <2>4, <3>1
    <3>2. CASE ~(a = b /\ p = i)
      BY <1>3, <2>4, <3>2 DEF OwnersInv
    <3> QED BY <3>1, <3>2
  <2>8. ASSUME NEW a \in Album, NEW g \in Album, Tied(a, 2, g)'
        PROVE  Tied(a, 1, g)'
    <3>1. CASE a = b /\ i = 2
      BY <1>3, <2>4, <2>8, <3>1
    <3>2. CASE a = b /\ i = 1
      <4>1. Tied(b, 2, g) /\ Tied(b, 1, g)
        BY <2>4, <2>8, <3>2 DEF OwnersInv
      <4> QED BY <2>4, <3>2, <4>1
    <3>3. CASE a # b
      BY <2>4, <2>8, <3>3 DEF OwnersInv
    <3> QED BY <1>1, <3>1, <3>2, <3>3
  <2>9. ASSUME NEW a \in Album, NEW g \in Album, Tied(a, 1, g)', Free(a, 2)'
        PROVE  a \in cut' \/ HalfWay(g, a)'
    <3>1. CASE a = b /\ i = 2
      BY <2>4, <2>9, <3>1
    <3>2. CASE a = b /\ i = 1
      BY <2>4, <2>5, <2>9, <3>2 DEF HalfWay
    <3>3. CASE a # b
      <4>1. a \in cut \/ HalfWay(g, a)
        BY <2>4, <2>9, <3>3 DEF OwnersInv
      <4>2. HalfWay(g, a) => g # h
        BY <1>1, <3>3 DEF HalfWay
      <4> QED BY <2>1, <2>5, <4>1, <4>2 DEF HalfWay
    <3> QED BY <1>1, <3>1, <3>2, <3>3
  <2> QED BY <2>6, <2>7, <2>8, <2>9 DEF OwnersInv
<1> QED BY <1>4, <1>5

\* An album that was cut off stays so.
LEMMA CutStays == ASSUME [Next]_vars PROVE cut \subseteq cut'
<1> USE DEF vars, tables, timers, history, CutBy
<1>1. CASE Next
  <2>1. CASE \E g \in Group : \E p \in PartOf(g) : Arrive(g, p)
    BY <2>1 DEF Arrive
  <2>2. ASSUME NEW g \in Group, NEW s \in Runner(g), Fire(g, s) \/ Flush(g, s) \/ FlushFails(g, s)
        PROVE  cut \subseteq cut'
    <3>1. CASE Fire(g, s) \/ FlushFails(g, s)
      BY <3>1 DEF Fire, FlushFails
    <3>2. CASE Read(g, s) \/ Index(g, s) \/ MapAlbum(g, s) \/ Record(g, s) \/ BindLink(g, s)
                 \/ Attempted(g, s) \/ Submit(g, s) \/ SubmitEcho(g, s)
      BY <3>2 DEF Read, Index, MapAlbum, Record, BindLink, Attempted, Submit, SubmitEcho
    <3> QED BY <2>2, <3>1, <3>2 DEF Flush
  <2>3. CASE \E g \in Group : DrainNext(g)
    BY <2>3 DEF DrainNext
  <2>4. ASSUME NEW g \in Album, Bind(g) \/ GiveUp(g) \/ BindingFails(g)
        PROVE  cut \subseteq cut'
    <3>1. CASE RunJob(g) \/ Clear(g) \/ TestHead(g) \/ StopBinding(g) \/ TestFollowing(g)
      BY <3>1 DEF RunJob, Clear, TestHead, StopBinding, TestFollowing
    <3>2. CASE Attach(g)
      BY <3>2 DEF Attach
    <3>3. CASE GiveUp(g) \/ BindingFails(g)
      BY <3>3 DEF GiveUp, BindingFails
    <3> QED BY <2>4, <3>1, <3>2, <3>3 DEF Bind
  <2>5. CASE Crash \/ Stop \/ Exit \/ Start
    BY <2>5 DEF Crash, Stop, Exit, Start, Gone
  <2> QED BY <1>1, <2>1, <2>2, <2>3, <2>4, <2>5 DEF Next
<1> QED BY <1>1

\* One attempt moves, to a step at which it attaches nothing yet or to its end.
LEMMA OneMoves ==
    ASSUME Typed, OwnersInv, [Next]_vars, NEW h \in Group, NEW st,
           step' = [step EXCEPT ![h] = st],
           \A a \in Album, p \in 1..2 : alias'[a][p].owner = alias[a][p].owner,
           h \in Album /\ st.pc = "attaching" => Structure(st.album) = Structure(h) /\ st.i = 1,
           h \in Album /\ step[h].pc = "attaching" /\ step[h].i = 2 => step[h].album \in cut'
    PROVE  OwnersInv'
<1>1. step \in [Group -> StepRec] /\ Album \subseteq Group
  BY Constants DEF Typed, JobsInv
<1>2. step'[h] = st /\ \A g \in Group \ {h} : step'[g] = step[g]
  BY <1>1
<1>3. \A g \in Album : step[g].album \in Album
  BY <1>1 DEF StepRec
<1> QED BY <1>1, <1>2, <1>3, PhaseStep, CutStays, OwnersStay

\* The owner-side ids of an album are one echo's, whatever is attempted or breaks off.
LEMMA OwnersStep ==
    ASSUME Typed, EchoesInv, OwnersInv, [Next]_vars
    PROVE  OwnersInv'
<1>0. /\ JobsInv /\ step \in [Group -> StepRec] /\ Album \subseteq Group /\ NoStep.pc = "none"
      /\ \A g \in Album : StepFits(job[g], step[g]) /\ step[g].album \in Album
      /\ scene' = scene /\ cut \subseteq cut'
  BY Constants, PhaseStep, CutStays DEF Typed, JobsInv, StepRec, NoStep
<1>1. ASSUME NEW g \in Group, NEW s \in Runner(g), Submit(g, s) \/ SubmitEcho(g, s)
      PROVE  OwnersInv'
  <2>1. alias' = alias
    BY <1>1 DEF Submit, SubmitEcho
  <2>2. CASE step' = step
    BY <1>0, <2>1, <2>2, OwnersStay
  <2>3. CASE step' # step
    <3>1. job[g].state = "none" /\ Steps(g, "clearing", "first") /\ g \in Album
      BY <1>1, <2>3 DEF Submit, SubmitEcho
    <3>2. step[g].pc = "none"
      BY <1>0, <3>1 DEF StepFits
    <3> QED BY <2>1, <3>1, <3>2, OneMoves DEF Steps
  <2> QED BY <2>2, <2>3
<1>2. ASSUME NEW g \in Album, Albumwise(g)
      PROVE  OwnersInv'
  <2>0. g \in Group
    BY <1>0
  <2>1. CASE RunJob(g)
    <3>1. step[g].pc = "none"
      BY <1>0, <2>1 DEF RunJob, StepFits
    <3> QED BY <2>0, <2>1, <3>1, OneMoves DEF RunJob, Steps
  <2>2. CASE Clear(g)
    BY <2>0, <2>2, OneMoves DEF Clear, Steps, Trying
  <2>3. CASE TestHead(g) \/ TestFollowing(g)
    <3>1. /\ alias' = alias /\ step[g].pc # "attaching"
          /\ \/ step' = [step EXCEPT ![g] = NoStep]
             \/ \E a \in Heads : Matches(a, g) /\ Steps(g, "attaching", a)
      BY <2>3 DEF TestHead, TestFollowing, Trying, Settles
    <3>2. CASE step' = [step EXCEPT ![g] = NoStep]
      BY <1>0, <2>0, <3>1, <3>2, OneMoves
    <3>3. ASSUME NEW a \in Heads, Matches(a, g), Steps(g, "attaching", a)
          PROVE  OwnersInv'
      <4>1. Structure(a) = Structure(g)
        BY <3>3 DEF Matches
      <4> QED BY <2>0, <3>1, <3>3, <4>1, OneMoves DEF Steps
    <3> QED BY <3>1, <3>2, <3>3
  <2>4. CASE GiveUp(g)
    <3>1. /\ alias' = alias /\ step[g].pc = "heading"
          /\ \E a \in Heads : Steps(g, "stopping", a)
      BY <2>4 DEF GiveUp, Trying, tables
    <3> QED BY <2>0, <3>1, OneMoves DEF Steps
  <2>5. CASE Attach(g)
    BY <2>5, AttachKeeps
  <2>6. CASE StopBinding(g)
    <3>1. step[g].pc = "stopping" /\ step[g].i \in 1..2 /\ step[g].album \in Album
      BY <1>0, <2>6 DEF StopBinding, Trying, StepFits
    <3>2. \A a \in Album, p \in 1..2 : alias'[a][p].owner = alias[a][p].owner
      <4>1. alias \in [Album -> [1..2 -> AliasRec]]
        BY <1>0 DEF JobsInv
      <4>2. PICK b, i, x : alias' = [alias EXCEPT ![b][i].print = x]
        BY <2>6 DEF StopBinding
      <4> QED BY <4>1, <4>2 DEF AliasRec
    <3>3. \/ Steps(g, "following", step[g].album)
          \/ step' = [step EXCEPT ![g] = [step[g] EXCEPT !.i = step[g].i + 1]]
      BY <2>6 DEF StopBinding
    <3>4. [step[g] EXCEPT !.i = step[g].i + 1].pc = "stopping"
      BY <1>0, <2>0, <3>1 DEF StepRec
    <3>5. PICK u : u = [step[g] EXCEPT !.i = step[g].i + 1]
      OBVIOUS
    <3> QED BY <2>0, <3>1, <3>2, <3>3, <3>4, <3>5, OneMoves DEF Steps
  <2>7. CASE BindingFails(g)
    <3>1. /\ alias' = alias /\ step' = [step EXCEPT ![g] = NoStep] /\ cut' = CutBy({g})
      BY <2>7 DEF BindingFails, Settles
    <3>2. step[g].pc = "attaching" /\ step[g].i = 2 => step[g].album \in cut'
      BY <3>1 DEF CutBy
    <3> QED BY <1>0, <2>0, <3>1, <3>2, OneMoves
  <2> QED BY <1>2, <2>1, <2>2, <2>3, <2>4, <2>5, <2>6, <2>7 DEF Albumwise, Bind
<1>3. CASE Gone
  <2>1. alias' = alias /\ step' = [g \in Group |-> NoStep] /\ cut' = CutBy(Album)
    BY <1>3 DEF Gone
  <2>2. \A g \in Album : step[g].pc = "attaching" /\ step[g].i = 2 => step[g].album \in cut'
    BY <2>1 DEF CutBy
  <2>3. \A g \in Album : step'[g].pc # "attaching"
    BY <1>0, <2>1
  <2> QED BY <1>0, <2>1, <2>2, <2>3, OwnersStay
<1>4. CASE UNCHANGED <<job, step, alias>>
  BY <1>0, <1>4, OwnersStay
<1> QED BY <1>1, <1>2, <1>3, <1>4, WhoBinds DEF Echoes

\* A delivered album takes its owner-side ids from one echo, position by position, all of
\* them unless the binding was interrupted, and never from the echo of an album of another
\* structure (resolve_album_echo, _attach).
THEOREM AlbumBoundAsOne == Spec => []BoundAsOne
<1>1. Init => EchoesInv /\ OwnersInv
  <2> SUFFICES ASSUME Init PROVE EchoesInv /\ OwnersInv
    OBVIOUS
  <2>1. /\ buffer = [g \in Group |-> [p \in PartOf(g) |-> Absent]] /\ Absent.index = 0
        /\ job = [g \in Group |-> NoJob] /\ NoJob.parts = <<>>
        /\ step = [g \in Group |-> NoStep] /\ NoStep.pc = "none"
        /\ alias = [a \in Album |-> [p \in 1..2 |-> [owner |-> Nobody, print |-> TRUE]]]
        /\ Album \subseteq Group
    BY Constants DEF Init, Absent, NoJob, NoStep
  <2>2. EchoesInv
    <3>1. ASSUME NEW g \in Album
          PROVE  Len(job[g].parts) # 2
      <4>1. job[g].parts = <<>> /\ Len(<<>>) = 0
        BY <2>1
      <4> QED BY <4>1
    <3>2. \A g \in Album : \A p \in PartOf(g) : buffer[g][p].index = 0
      BY <2>1
    <3> QED BY <3>1, <3>2 DEF EchoesInv
  <2>3. \A a \in Album, p \in 1..2 : Free(a, p) /\ \A g \in Album : ~Tied(a, p, g)
    <3>1. \A a \in Album, p \in 1..2 : alias[a][p].owner = Nobody
      BY <2>1
    <3>2. \A g, p : Nobody # <<g, p>>
      BY DEF Nobody
    <3> QED BY <3>1, <3>2 DEF Free, Tied
  <2>4. OwnersInv
    BY <2>1, <2>3 DEF OwnersInv
  <2> QED BY <2>2, <2>4
<1>2. Typed /\ EchoesInv /\ OwnersInv /\ [Next]_vars => EchoesInv' /\ OwnersInv'
  BY EchoesStep, OwnersStep
<1>3. OwnersInv => BoundAsOne
  <2> SUFFICES ASSUME OwnersInv, NEW a \in Album
      PROVE  \E g \in Album :
               LET bound == {p \in 1..2 : alias[a][p].owner # Nobody} IN
               /\ \A p \in bound : alias[a][p].owner = <<g, p>>
               /\ bound # {} => Structure(a) = Structure(g)
               /\ \/ bound \in {{}, 1..2} \/ a \in cut
                  \/ step[g].pc = "attaching" /\ step[g].album = a /\ step[g].i = 2
    BY DEF BoundAsOne
  <2>0. \A p \in 1..2 : \A g, h \in Album :
           /\ Tied(a, p, g) => ~Free(a, p)
           /\ Tied(a, p, g) /\ Tied(a, p, h) => g = h
    BY DEF Tied, Free, Nobody
  <2>1. CASE Free(a, 1)
    <3>1. Free(a, 2)
      BY <2>0, <2>1 DEF OwnersInv
    <3>2. {p \in 1..2 : alias[a][p].owner # Nobody} = {}
      BY <2>1, <3>1 DEF Free
    <3> QED BY <3>2
  <2>2. ASSUME NEW g \in Album, Tied(a, 1, g), Structure(a) = Structure(g)
        PROVE  \E h \in Album :
                 LET bound == {p \in 1..2 : alias[a][p].owner # Nobody} IN
                 /\ \A p \in bound : alias[a][p].owner = <<h, p>>
                 /\ bound # {} => Structure(a) = Structure(h)
                 /\ \/ bound \in {{}, 1..2} \/ a \in cut
                    \/ step[h].pc = "attaching" /\ step[h].album = a /\ step[h].i = 2
    <3>1. CASE Free(a, 2)
      <4>1. a \in cut \/ HalfWay(g, a)
        BY <2>2, <3>1 DEF OwnersInv
      <4>2. \A p \in 1..2 : alias[a][p].owner # Nobody => alias[a][p].owner = <<g, p>>
        BY <2>2, <3>1 DEF Free, Tied
      <4> QED BY <2>2, <4>1, <4>2 DEF HalfWay
    <3>2. CASE ~Free(a, 2)
      <4>1. Tied(a, 2, g)
        BY <2>0, <2>2, <3>2 DEF OwnersInv
      <4>2. {p \in 1..2 : alias[a][p].owner # Nobody} = 1..2
        BY <2>0, <2>2, <4>1 DEF Free
      <4>3. \A p \in 1..2 : alias[a][p].owner = <<g, p>>
        BY <2>2, <4>1 DEF Tied
      <4> QED BY <2>2, <4>2, <4>3
    <3> QED BY <3>1, <3>2
  <2> QED BY <2>1, <2>2 DEF OwnersInv
<1> QED BY <1>1, <1>2, <1>3, TypedAlways, PTL DEF Spec

-----------------------------------------------------------------------------
(* The owner's album *)

\* Of what is stored of the owner's album, b, and its mapping rows, r: the parts there are,
\* in their places from the first on, under one row of the first part's or none.
In(b) == {p \in Part : b[p].at}
Placed(b) == \A p \in In(b) : b[p].index # 0
BoundTo(b, x) == \A p \in In(b) : b[p].row = x

InOrder(b) ==
    /\ \A s : Ascending(s, In(b)) =>
          \A p \in In(b) : b[p].index # 0 => b[p].index \in DOMAIN s /\ s[b[p].index] = p
    /\ \A p, q \in In(b) : p < q /\ b[q].index # 0 => b[p].index # 0

UnderOne(b, r) ==
    /\ r # <<>> => /\ Placed(b) /\ Len(r) = 1
                   /\ \A s : Ascending(s, In(b)) => r[1] = s[1]
    /\ r = <<>> => BoundTo(b, 0)
    /\ BoundTo(b, 0) \/ BoundTo(b, 1)

\* The job takes all of it.
Takes(b, r, j) == j.state # "none" =>
    Ascending(j.parts, In(b)) /\ j.row = 1 /\ r # <<>> /\ BoundTo(b, 1)

\* What a flush has done by the step it is at.
Carries(b, r, t) ==
    /\ t.pc \in Flushing \ {"reading"} => Ascending(t.parts, In(b))
    /\ t.pc = "indexing" => \A j \in 1..(t.i - 1) : b[t.parts[j]].index = j
    /\ t.pc \in Flushing \ {"reading", "indexing"} => Placed(b)
    /\ t.pc = "recording" => r = <<>>
    /\ t.pc \in {"binding", "submitting", "sending"} => r # <<>> /\ t.row = 1
    /\ t.pc \in {"submitting", "sending"} => BoundTo(b, 1)

\* Parts are numbers, so they can be listed from the lowest to the highest.
LEMMA PartsAscend ==
    ASSUME NEW S \in SUBSET Part
    PROVE  /\ IsFiniteSet(S) /\ S \in SUBSET Nat
           /\ \E s : Ascending(s, S)
<1>1. NParts \in Nat /\ \A p \in Part : p \in Nat
  BY Constants
<1>2. IsFiniteSet(Part)
  BY <1>1, FS_Interval DEF Part
<1>3. IsFiniteSet(S) /\ S \in SUBSET Nat
  BY <1>1, <1>2, FS_Subset
<1> DEFINE number == [p \in S |-> p]
<1>4. number \in [S -> Nat] /\ \A p, q \in S : number[p] = number[q] => p = q
  BY <1>3
<1>5. \A p \in S : number[p] = p
  OBVIOUS
<1> HIDE DEF number
<1>6. PICK s \in SetToSeqs(S) : \A i, j \in DOMAIN s : i < j => number[s[i]] < number[s[j]]
  BY <1>3, <1>4, ListedByNumber
<1>7. \A i \in DOMAIN s : s[i] \in S
  BY <1>3, ListsAll
<1>8. Ascending(s, S)
  BY <1>5, <1>6, <1>7 DEF Ascending
<1> QED BY <1>3, <1>8

\* A listing in order has its parts where they are.
LEMMA AscendsAll ==
    ASSUME NEW S \in SUBSET Part, NEW s, Ascending(s, S)
    PROVE  /\ s \in Seq(S) /\ s \in Seq(Part) /\ Len(s) \in Nat /\ DOMAIN s = 1..Len(s)
           /\ \A i \in 1..Len(s) : s[i] \in S
           /\ \A p \in S : \E i \in 1..Len(s) : s[i] = p
           /\ \A i, j \in 1..Len(s) : i < j <=> s[i] < s[j]
           /\ \A i, j \in 1..Len(s) : s[i] = s[j] => i = j
<1>1. IsFiniteSet(S) /\ S \in SUBSET Nat /\ s \in SetToSeqs(S)
  BY PartsAscend DEF Ascending
<1>a. PICK n : n = Cardinality(S)
  OBVIOUS
<1>b. /\ n \in Nat /\ s \in [1..n -> S] /\ DOMAIN s = 1..n /\ s \in Seq(S) /\ Len(s) = n
      /\ \A i, j \in 1..n : s[i] = s[j] => i = j
      /\ \A p \in S : \E i \in 1..n : s[i] = p
  <2>1. IsFiniteSet(S) /\ s \in SetToSeqs(S)
    BY <1>1
  <2>2. /\ n \in Nat /\ s \in [1..n -> S] /\ DOMAIN s = 1..n /\ s \in Seq(S) /\ Len(s) = n
    BY <2>1, <1>a, ListsAll
  <2>3. \A i, j \in 1..n : s[i] = s[j] => i = j
    BY <2>1, <1>a, ListsAll
  <2>4. \A p \in S : \E i \in 1..n : s[i] = p
    BY <2>1, <1>a, ListsAll
  <2> QED BY <2>2, <2>3, <2>4
<1>2. /\ Len(s) \in Nat /\ DOMAIN s = 1..Len(s) /\ s \in Seq(S)
      /\ \A i \in 1..Len(s) : s[i] \in S
      /\ \A i, j \in 1..Len(s) : s[i] = s[j] => i = j
      /\ \A p \in S : \E i \in 1..Len(s) : s[i] = p
  BY <1>b
<1>3. s \in Seq(Part)
  BY <1>2, SeqMonotonic
<1>4. \A i, j \in 1..Len(s) : i < j => s[i] < s[j]
  BY <1>2 DEF Ascending
<1>5. ASSUME NEW i \in 1..Len(s), NEW j \in 1..Len(s), s[i] < s[j]
      PROVE  i < j
  <2>0. s[i] \in S /\ s[j] \in S
    BY <1>2
  <2>1. i \in Nat /\ j \in Nat /\ s[i] \in Nat /\ s[j] \in Nat
    <3>1. \A k \in 1..Len(s) : k \in Nat
      OBVIOUS
    <3> QED BY <1>1, <2>0, <3>1
  <2>2. i # j /\ ~(j < i)
    BY <1>4, <1>5, <2>1
  <2> QED BY <2>1, <2>2
<1> QED BY <1>2, <1>3, <1>4, <1>5

\* What has its place comes first and in its place, so the order of ordered_parts is that
\* of the ids.
LEMMA OrderAscends ==
    ASSUME NEW b \in [Part -> PartRec], InOrder(b), NEW s \in SetToSeqs(In(b)),
           \A i, j \in DOMAIN s : i < j =>
              \/ b[s[i]].index # 0 /\ (b[s[j]].index = 0 \/ b[s[i]].index < b[s[j]].index)
              \/ b[s[i]].index = 0 /\ b[s[j]].index = 0 /\ s[i] < s[j]
    PROVE  Ascending(s, In(b))
<1>1. In(b) \in SUBSET Part /\ \A p \in In(b) : p \in Nat
  BY Constants DEF In
<1>2. PICK o : Ascending(o, In(b))
  BY <1>1, PartsAscend
<1>3. /\ Len(o) \in Nat /\ DOMAIN o = 1..Len(o)
      /\ \A i, j \in 1..Len(o) : i < j <=> o[i] < o[j]
  BY <1>1, <1>2, AscendsAll
<1>4. \A i \in DOMAIN s : s[i] \in In(b)
  BY <1>1, PartsAscend, ListsAll
<1>5. ASSUME NEW i \in DOMAIN s, NEW j \in DOMAIN s, i < j
      PROVE  s[i] < s[j]
  <2>1. s[i] \in In(b) /\ s[j] \in In(b) /\ s[i] \in Nat /\ s[j] \in Nat
    BY <1>1, <1>4
  <2>2. CASE b[s[i]].index = 0 /\ b[s[j]].index = 0
    BY <1>5, <2>2
  <2>3. CASE b[s[i]].index # 0 /\ b[s[j]].index = 0
    <3>1. s[i] # s[j] /\ ~(s[j] < s[i])
      BY <2>1, <2>3 DEF InOrder
    <3> QED BY <2>1, <3>1
  <2>4. CASE b[s[i]].index # 0 /\ b[s[j]].index # 0 /\ b[s[i]].index < b[s[j]].index
    <3>1. /\ b[s[i]].index \in 1..Len(o) /\ o[b[s[i]].index] = s[i]
          /\ b[s[j]].index \in 1..Len(o) /\ o[b[s[j]].index] = s[j]
      BY <1>2, <1>3, <2>1, <2>4 DEF InOrder
    <3> QED BY <1>3, <2>4, <3>1
  <2> QED BY <1>5, <2>2, <2>3, <2>4
<1> QED BY <1>5 DEF Ascending

\* A part is given the place it is listed at, or has it (assign_part_index).
LEMMA PlaceGiven ==
    ASSUME NEW b \in [Part -> PartRec], InOrder(b), NEW s, Ascending(s, In(b)),
           NEW i \in 1..Len(s), \A j \in 1..(i - 1) : b[s[j]].index = j,
           NEW c, \A p \in Part \ {s[i]} : c[p] = b[p],
           c[s[i]].index = IF b[s[i]].index = 0 THEN i ELSE b[s[i]].index,
           c[s[i]].at = b[s[i]].at, c[s[i]].row = b[s[i]].row
    PROVE  /\ In(c) = In(b) /\ InOrder(c)
           /\ \A j \in 1..i : c[s[j]].index = j
           /\ i = Len(s) => Placed(c)
           /\ Placed(b) => Placed(c)
           /\ \A x : BoundTo(c, x) <=> BoundTo(b, x)
<1>1. In(b) \in SUBSET Part /\ \A p \in In(b) : p \in Nat
  BY Constants DEF In
<1>a. /\ Len(s) \in Nat /\ DOMAIN s = 1..Len(s)
      /\ \A j \in 1..Len(s) : s[j] \in In(b)
      /\ \A p \in In(b) : \E j \in 1..Len(s) : s[j] = p
      /\ \A j, k \in 1..Len(s) : j < k <=> s[j] < s[k]
      /\ \A j, k \in 1..Len(s) : s[j] = s[k] => j = k
  <2>1. PICK S \in SUBSET Part : S = In(b)
    BY <1>1
  <2> QED BY <2>1, AscendsAll, Zenon
<1>2. /\ Len(s) \in Nat /\ DOMAIN s = 1..Len(s) /\ i \in Nat /\ i # 0
      /\ \A j \in 1..Len(s) : s[j] \in In(b)
      /\ \A p \in In(b) : \E j \in 1..Len(s) : s[j] = p
      /\ \A j, k \in 1..Len(s) : j < k <=> s[j] < s[k]
      /\ \A j, k \in 1..Len(s) : s[j] = s[k] => j = k
  BY <1>a
<1>3. ASSUME NEW o, Ascending(o, In(b))
      PROVE  o = s
  BY <1>1, <1>3, PartsAscend, AscendsOneWay
<1>4. s[i] \in In(b) /\ s[i] \in Part
  BY <1>1, <1>2
<1>5. b[s[i]].index = 0 \/ b[s[i]].index = i
  BY <1>2, <1>4 DEF InOrder
<1>6. /\ c[s[i]].index = i /\ c[s[i]].at = b[s[i]].at /\ c[s[i]].row = b[s[i]].row
      /\ \A p \in Part \ {s[i]} : c[p] = b[p]
  BY <1>4, <1>5
<1>7. In(c) = In(b)
  BY <1>4, <1>6 DEF In
<1>8. ASSUME NEW j \in 1..i
      PROVE  c[s[j]].index = j
  <2>1. CASE j = i
    BY <1>6, <2>1
  <2>2. CASE j # i
    <3>1. j \in 1..(i - 1) /\ j \in 1..Len(s)
      BY <1>2, <2>2
    <3>2. s[j] # s[i] /\ s[j] \in Part
      BY <1>1, <1>2, <2>2, <3>1
    <3> QED BY <1>6, <3>1, <3>2
  <2> QED BY <2>1, <2>2
<1>9. InOrder(c)
  <2>1. ASSUME NEW o, Ascending(o, In(c)), NEW p \in In(c), c[p].index # 0
        PROVE  c[p].index \in DOMAIN o /\ o[c[p].index] = p
    <3>1. o = s
      BY <1>3, <1>7, <2>1
    <3>2. CASE p = s[i]
      BY <1>2, <1>6, <3>1, <3>2
    <3>3. CASE p # s[i]
      BY <1>1, <1>6, <1>7, <2>1, <3>1, <3>3 DEF InOrder
    <3> QED BY <3>2, <3>3
  <2>2. ASSUME NEW p \in In(c), NEW q \in In(c), p < q, c[q].index # 0
        PROVE  c[p].index # 0
    <3>1. CASE q = s[i]
      <4>1. PICK j \in 1..Len(s) : s[j] = p
        BY <1>2, <1>7
      <4>2. j < i
        BY <1>2, <2>2, <3>1, <4>1
      <4>3. j \in 1..i
        BY <1>2, <4>2
      <4> QED BY <1>8, <4>1, <4>3
    <3>2. CASE p = s[i]
      BY <1>2, <1>6, <3>2
    <3>3. CASE q # s[i] /\ p # s[i]
      BY <1>1, <1>6, <1>7, <2>2, <3>3 DEF InOrder
    <3> QED BY <3>1, <3>2, <3>3
  <2> QED BY <2>1, <2>2 DEF InOrder
<1>10. ASSUME i = Len(s)
       PROVE  Placed(c)
  <2>1. ASSUME NEW p \in In(c)
        PROVE  c[p].index # 0
    <3>1. PICK j \in 1..i : s[j] = p
      BY <1>2, <1>7, <1>10
    <3> QED BY <1>2, <1>8, <3>1
  <2> QED BY <2>1 DEF Placed
<1>11. Placed(b) => Placed(c)
  BY <1>1, <1>2, <1>6, <1>7 DEF Placed
<1>12. \A x : BoundTo(c, x) <=> BoundTo(b, x)
  BY <1>1, <1>6, <1>7 DEF BoundTo
<1> QED BY <1>7, <1>8, <1>9, <1>10, <1>11, <1>12

\* Only what is sent has parts, timers and flushes, so a shutdown has the owner's album
\* to itself; a process that is down has none of them.
Alone ==
    /\ "own" \notin drains /\ \A g \in drains : Sent(g)
    /\ \A g \in Group : ~Sent(g) =>
          Stored(g) = {} /\ timer[g] = 0 /\ \A s \in Runner(g) : task[g][s].pc = "none"
    /\ phase = "down" => \A g \in Group :
          timer[g] = 0 /\ \A s \in Runner(g) : task[g][s].pc = "none"

\* A group that is sent moves alone.
LEMMA AloneMoves ==
    ASSUME Alone, NEW g \in Group, Sent(g), scene' = scene, phase' # "down",
           "own" \notin drains', \A h \in drains' : Sent(h),
           \A h \in Group \ {g} :
              buffer'[h] = buffer[h] /\ timer'[h] = timer[h] /\ task'[h] = task[h]
    PROVE  Alone'
<1>1. \A h : Sent(h)' <=> Sent(h)
  BY DEF Sent
<1>2. ASSUME NEW h \in Group, ~Sent(h)
      PROVE  Stored(h)' = {} /\ timer'[h] = 0 /\ \A s \in Runner(h) : task'[h][s].pc = "none"
  <2>1. h \in Group \ {g}
    BY <1>2
  <2>2. buffer'[h] = buffer[h] /\ timer'[h] = timer[h] /\ task'[h] = task[h]
    BY <2>1
  <2>3. Stored(h) = {} /\ timer[h] = 0 /\ \A s \in Runner(h) : task[h][s].pc = "none"
    BY <1>2 DEF Alone
  <2> QED BY <2>2, <2>3 DEF Stored
<1> QED BY <1>1, <1>2 DEF Alone

\* Nobody runs for a group that is not sent.
LEMMA AloneStep ==
    ASSUME Typed, Alone, [Next]_vars
    PROVE  Alone'
<1> USE DEF vars, tables, timers, history
<1>0. /\ TablesInv /\ TasksInv /\ Album \subseteq Group /\ "own" \in Group /\ "own" \notin Album
      /\ scene' = scene /\ DOMAIN buffer = Group /\ DOMAIN timer = Group /\ DOMAIN task = Group
      /\ \A g \in Group : SlotOf(g) \subseteq Runner(g)
  BY Constants, PhaseStep DEF Typed, TablesInv, TasksInv
<1>a. ASSUME NEW g \in Group, NEW s \in Runner(g), task[g][s].pc # "none"
      PROVE  Sent(g) /\ phase # "down"
  BY <1>a DEF Alone
<1>b. \A g \in Group : timer[g] # 0 => Sent(g)
  BY DEF Alone
<1>c. "own" \notin drains /\ \A g \in drains : Sent(g)
  BY DEF Alone
<1>r. ASSUME NEW g \in Group, NEW s \in Runner(g), Raised(g, s)
      PROVE  /\ drains' \in {{}, drains}
             /\ \A h \in Group \ {g} : timer'[h] = timer[h] /\ task'[h] = task[h]
  BY <1>0, <1>r DEF Raised
<1>1. ASSUME NEW g \in Group, NEW p \in PartOf(g), Arrive(g, p)
      PROVE  Alone'
  <2>1. Sent(g) /\ phase' # "down" /\ drains' = drains
    BY <1>1 DEF Arrive
  <2>2. \A h \in Group \ {g} : buffer'[h] = buffer[h]
    BY <1>0, <1>1 DEF Arrive
  <2>3. \A h \in Group \ {g} : timer'[h] = timer[h] /\ task'[h] = task[h]
    BY <1>0, <1>1 DEF Arrive, Armed
  <2> QED BY <1>0, <1>c, <2>1, <2>2, <2>3, AloneMoves
<1>2. ASSUME NEW g \in Group, NEW s \in Runner(g), Fire(g, s) \/ Flush(g, s) \/ FlushFails(g, s)
      PROVE  Alone'
  <2>1. task[g][s].pc # "none"
    BY <1>2 DEF Fire, Flush, FlushFails, Read, Index, MapAlbum, Record, BindLink, Submit, Attempted,
                SubmitEcho, At, Flushing
  <2>2. /\ phase' = phase /\ drains' \in {{}, drains}
        /\ \A h \in Group \ {g} : timer'[h] = timer[h] /\ task'[h] = task[h]
    <3>1. CASE Fire(g, s) \/ Read(g, s) \/ MapAlbum(g, s) \/ Record(g, s) \/ BindLink(g, s)
      BY <1>0, <3>1 DEF Fire, Read, MapAlbum, Record, BindLink, Goes
    <3>2. CASE Submit(g, s) \/ SubmitEcho(g, s)
      BY <1>0, <3>2 DEF Submit, SubmitEcho, Goes, Ends
    <3>3. CASE Index(g, s)
      BY <1>0, <1>r, <3>3 DEF Index
    <3>4. CASE Attempted(g, s) \/ FlushFails(g, s)
      BY <1>0, <1>r, <3>4 DEF Attempted, FlushFails, Ends
    <3> QED BY <1>2, <3>1, <3>2, <3>3, <3>4 DEF Flush
  <2>3. \A h \in Group \ {g} : buffer'[h] = buffer[h]
    <3>1. CASE Fire(g, s) \/ Read(g, s) \/ MapAlbum(g, s) \/ Record(g, s) \/ Submit(g, s)
                 \/ SubmitEcho(g, s) \/ Attempted(g, s) \/ FlushFails(g, s)
      BY <3>1 DEF Fire, Read, MapAlbum, Record, Submit, SubmitEcho, Attempted, FlushFails
    <3>2. CASE Index(g, s) \/ BindLink(g, s)
      BY <1>0, <3>2 DEF Index, BindLink
    <3> QED BY <1>2, <3>1, <3>2 DEF Flush
  <2>4. Sent(g) /\ phase # "down"
    BY <1>a, <2>1
  <2>5. phase' # "down" /\ "own" \notin drains' /\ \A h \in drains' : Sent(h)
    BY <1>c, <2>2, <2>4
  <2> QED BY <1>0, <2>2, <2>3, <2>4, <2>5, AloneMoves
<1>3. ASSUME NEW g \in Group, DrainNext(g)
      PROVE  Alone'
  <2>1. Sent(g) /\ phase' # "down" /\ drains' \subseteq drains
    BY <1>3, <1>c DEF DrainNext
  <2>2. \A h \in Group \ {g} :
           buffer'[h] = buffer[h] /\ timer'[h] = timer[h] /\ task'[h] = task[h]
    BY <1>0, <1>3 DEF DrainNext, Drained
  <2> QED BY <1>0, <1>c, <2>1, <2>2, AloneMoves
<1>9. ASSUME UNCHANGED <<timer, task, phase, drains>>,
             \A h \in Group : Stored(h) = {} => Stored(h)' = {}
      PROVE  Alone'
  <2>1. \A h : Sent(h)' <=> Sent(h)
    BY <1>0 DEF Sent
  <2>2. \A h \in Group : ~Sent(h) => Stored(h)' = {}
    BY <1>9 DEF Alone
  <2> QED BY <1>9, <2>1, <2>2 DEF Alone
<1>4. ASSUME NEW g \in Album, Bind(g) \/ GiveUp(g) \/ BindingFails(g)
      PROVE  Alone'
  <2>1. CASE RunJob(g) \/ TestHead(g) \/ Attach(g) \/ StopBinding(g) \/ TestFollowing(g)
               \/ GiveUp(g) \/ BindingFails(g)
    <3>1. UNCHANGED <<timer, task, phase, drains, buffer>>
      BY <2>1 DEF RunJob, TestHead, Attach, StopBinding, TestFollowing, GiveUp, BindingFails
    <3> QED BY <1>9, <3>1 DEF Stored
  <2>2. CASE Clear(g)
    <3>1. UNCHANGED <<timer, task, phase, drains>>
      BY <2>2 DEF Clear
    <3>2. \A h \in Group : buffer'[h] = IF h = g THEN [p \in PartOf(g) |-> Absent] ELSE buffer[h]
      BY <1>0, <2>2 DEF Clear
    <3>3. ~Absent.at
      BY DEF Absent
    <3>4. \A h \in Group : Stored(h) = {} => Stored(h)' = {}
      BY <3>2, <3>3 DEF Stored
    <3> QED BY <1>9, <3>1, <3>4
  <2> QED BY <1>4, <2>1, <2>2 DEF Bind
<1>5. CASE Crash \/ Exit
  <2>1. /\ drains' = {} /\ timer' = [g \in Group |-> 0] /\ buffer' = buffer
        /\ task' = [g \in Group |-> [s \in Runner(g) |-> Idle]] /\ Idle.pc = "none"
    BY <1>5 DEF Crash, Exit, Gone, Idle
  <2>2. \A h : (Sent(h)' <=> Sent(h)) /\ Stored(h)' = Stored(h)
    BY <1>0, <2>1 DEF Sent, Stored
  <2> QED BY <2>1, <2>2 DEF Alone
<1>6. CASE Stop
  <2>1. phase = "up" /\ phase' = "draining" /\ buffer' = buffer
    BY <1>6 DEF Stop
  <2>2. CASE drains' = {} /\ UNCHANGED <<timer, task>>
    <3>1. \A h : (Sent(h)' <=> Sent(h)) /\ Stored(h)' = Stored(h)
      BY <1>0, <2>1 DEF Sent, Stored
    <3> QED BY <2>1, <2>2, <3>1 DEF Alone
  <2>3. ASSUME NEW g \in Group, timer[g] # 0, Drained(g),
               drains' = {h \in Group : timer[h] # 0} \ {g}
        PROVE  Alone'
    <3>1. Sent(g) /\ \A h \in drains' : Sent(h)
      BY <1>b, <2>3
    <3>2. "own" \notin drains'
      BY <1>0, <2>3, <3>1 DEF Sent
    <3>3. \A h \in Group \ {g} :
             buffer'[h] = buffer[h] /\ timer'[h] = timer[h] /\ task'[h] = task[h]
      BY <1>0, <2>1, <2>3 DEF Drained
    <3> QED BY <1>0, <2>1, <2>3, <3>1, <3>2, <3>3, AloneMoves
  <2> QED BY <1>6, <2>2, <2>3 DEF Stop
<1>7. CASE Start
  <2>1. /\ phase = "down" /\ phase' = "up" /\ drains' = drains /\ buffer' = buffer
        /\ \A h : (Sent(h)' <=> Sent(h)) /\ Stored(h)' = Stored(h)
    BY <1>0, <1>7 DEF Start, Sent, Stored
  <2>2. CASE UNCHANGED <<timer, task>>
    BY <2>1, <2>2 DEF Alone
  <2>3. CASE /\ timer' = [g \in Group |-> IF OpenGroup(g) THEN 1 ELSE 0]
             /\ task' = [g \in Group |-> [task[g] EXCEPT ![1] =
                  IF OpenGroup(g) THEN [Idle EXCEPT !.pc = "sleeping"] ELSE Idle]]
    <3>1. ASSUME NEW h \in Group, ~Sent(h)
          PROVE  timer'[h] = 0 /\ \A s \in Runner(h) : task'[h][s].pc = "none"
      <4>1. Stored(h) = {} /\ \A s \in Runner(h) : task[h][s].pc = "none"
        BY <3>1 DEF Alone
      <4>2. ~OpenGroup(h)
        BY <4>1 DEF OpenGroup, Bound
      <4>3. timer'[h] = 0 /\ task'[h] = [task[h] EXCEPT ![1] = Idle] /\ Idle.pc = "none"
        BY <2>3, <4>2 DEF Idle
      <4> QED BY <1>0, <4>1, <4>3 DEF TasksInv
    <3> QED BY <1>c, <2>1, <3>1 DEF Alone
  <2> QED BY <1>7, <2>2, <2>3 DEF Start
<1>8. CASE UNCHANGED vars
  BY <1>8, <1>9 DEF Stored
<1> QED BY <1>1, <1>2, <1>3, <1>4, <1>5, <1>6, <1>7, <1>8 DEF Next

\* What concerns the owner's album is as it was.
OwnSame == /\ buffer'["own"] = buffer["own"] /\ rows' = rows /\ job'["own"] = job["own"]
           /\ task'["own"] = task["own"] /\ timer'["own"] = timer["own"]
           /\ closed' <=> closed
           /\ late' <=> late

OwnMoves == \/ \E p \in Part : Arrive("own", p)
            \/ \E s \in Runner("own") : Fire("own", s) \/ Flush("own", s) \/ FlushFails("own", s)
            \/ Stop /\ timer["own"] # 0 /\ Drained("own")
            \/ Gone \/ Start

\* The echoes leave the owner's album alone.
LEMMA WhoCarries ==
    ASSUME Typed, Alone, [Next]_vars
    PROVE  OwnMoves \/ OwnSame
<1> USE DEF vars, tables, timers, history
<1>0. /\ TablesInv /\ TasksInv /\ JobsInv /\ Album \subseteq Group /\ "own" \in Group
      /\ "own" \notin Album /\ PartOf("own") = Part /\ Group = {"own"} \union Album
      /\ DOMAIN buffer = Group /\ DOMAIN timer = Group /\ DOMAIN task = Group /\ DOMAIN job = Group
  BY Constants DEF Typed, TablesInv, TasksInv, JobsInv, Group
<1>r. ASSUME NEW g \in Album, NEW s \in Runner(g), Raised(g, s)
      PROVE  timer'["own"] = timer["own"] /\ task'["own"] = task["own"]
  BY <1>0, <1>r DEF Raised
<1>1. ASSUME NEW g \in Group, NEW p \in PartOf(g), Arrive(g, p)
      PROVE  OwnMoves \/ OwnSame
  <2>1. CASE g = "own"
    BY <1>0, <1>1, <2>1 DEF OwnMoves
  <2>2. CASE g # "own"
    <3>1. buffer'["own"] = buffer["own"] /\ rows' = rows /\ job' = job /\ (closed' <=> closed)
          /\ (late' <=> late)
      BY <1>0, <1>1, <2>2 DEF Arrive
    <3>2. task'["own"] = task["own"] /\ timer'["own"] = timer["own"]
      BY <1>0, <1>1, <2>2 DEF Arrive, Armed
    <3> QED BY <3>1, <3>2 DEF OwnSame
  <2> QED BY <2>1, <2>2
<1>2. ASSUME NEW g \in Group, NEW s \in Runner(g), Fire(g, s) \/ Flush(g, s) \/ FlushFails(g, s)
      PROVE  OwnMoves \/ OwnSame
  <2>1. CASE g = "own"
    BY <1>2, <2>1 DEF OwnMoves
  <2>2. CASE g \in Album
    <3>0. task[g][s].pc \in {"none", "sleeping", "reading"} /\ g # "own"
      BY <1>0, <2>2 DEF TasksInv, Fits
    <3>1. CASE Fire(g, s)
      BY <1>0, <3>0, <3>1 DEF Fire, OwnSame
    <3>2. CASE Flush(g, s)
      <4>1. SubmitEcho(g, s)
        BY <3>0, <3>2 DEF Flush, Read, Index, MapAlbum, Record, BindLink, Submit, Attempted, At
      <4> QED BY <1>0, <3>0, <4>1 DEF SubmitEcho, Ends, OwnSame
    <3>3. CASE FlushFails(g, s)
      <4>1. timer'["own"] = timer["own"] /\ task'["own"] = task["own"]
        BY <1>r, <2>2, <3>3 DEF FlushFails
      <4> QED BY <3>3, <4>1 DEF FlushFails, OwnSame
    <3> QED BY <1>2, <3>1, <3>2, <3>3
  <2> QED BY <1>0, <2>1, <2>2
<1>3. ASSUME NEW g \in Group, DrainNext(g)
      PROVE  OwnMoves \/ OwnSame
  <2>1. g # "own"
    BY <1>3 DEF Alone, DrainNext
  <2> QED BY <1>0, <1>3, <2>1 DEF DrainNext, Drained, OwnSame
<1>4. ASSUME NEW g \in Album, Bind(g) \/ GiveUp(g) \/ BindingFails(g)
      PROVE  OwnMoves \/ OwnSame
  <2>0. g # "own"
    BY <1>0
  <2>1. CASE RunJob(g) \/ TestHead(g)
    BY <1>0, <2>0, <2>1 DEF RunJob, TestHead, Settles, OwnSame
  <2>2. CASE Attach(g)
    BY <1>0, <2>0, <2>2 DEF Attach, Settles, OwnSame
  <2>3. CASE StopBinding(g) \/ TestFollowing(g)
    BY <1>0, <2>0, <2>3 DEF StopBinding, TestFollowing, Settles, OwnSame
  <2>4. CASE GiveUp(g) \/ BindingFails(g)
    BY <1>0, <2>0, <2>4 DEF GiveUp, BindingFails, Settles, OwnSame
  <2>5. CASE Clear(g)
    BY <1>0, <2>0, <2>5 DEF Clear, OwnSame
  <2> QED BY <1>4, <2>1, <2>2, <2>3, <2>4, <2>5 DEF Bind
<1>5. CASE Crash \/ Exit \/ Start
  BY <1>5 DEF Crash, Exit, OwnMoves
<1>6. CASE Stop
  <2>1. CASE UNCHANGED <<timer, task, closed>>
    BY <1>6, <2>1 DEF Stop, OwnSame
  <2>2. ASSUME NEW g \in Group, timer[g] # 0, Drained(g)
        PROVE  OwnMoves \/ OwnSame
    <3>1. CASE g = "own"
      BY <1>6, <2>2, <3>1 DEF OwnMoves
    <3>2. CASE g # "own"
      BY <1>0, <1>6, <2>2, <3>2 DEF Stop, Drained, OwnSame
    <3> QED BY <3>1, <3>2
  <2> QED BY <1>6, <2>1, <2>2 DEF Stop
<1>8. CASE UNCHANGED vars
  BY <1>8 DEF OwnSame
<1> QED BY <1>1, <1>2, <1>3, <1>4, <1>5, <1>6, <1>8 DEF Next

\* What has come late stays so, and a group that was closed too.
LEMMA HistoryStays ==
    ASSUME Typed, Alone, [Next]_vars
    PROVE  (late => late') /\ (closed => closed')
<1>1. CASE OwnMoves
  <2>1. ASSUME NEW p \in Part, Arrive("own", p)
        PROVE  (late => late') /\ (closed => closed')
    <3>1. closed' = closed /\ late' = (late \/ ("own" = "own" /\ closed))
      BY <2>1 DEF Arrive
    <3> QED BY <3>1, Zenon
  <2>2. ASSUME NEW s \in Runner("own"), Fire("own", s) \/ Flush("own", s) \/ FlushFails("own", s)
        PROVE  (late => late') /\ (closed => closed')
    <3>1. CASE Fire("own", s)
      <4>1. late' = late /\ closed' = (closed \/ "own" = "own")
        BY <3>1 DEF Fire
      <4> QED BY <4>1, Zenon
    <3>2. CASE Flush("own", s) \/ FlushFails("own", s)
      <4>1. late' = late /\ closed' = closed
        BY <3>2 DEF Flush, FlushFails, Read, Index, MapAlbum, Record, BindLink, Submit, Attempted,
                    SubmitEcho, history
      <4> QED BY <4>1, Zenon
    <3> QED BY <2>2, <3>1, <3>2
  <2>3. CASE Stop /\ timer["own"] # 0 /\ Drained("own")
    BY <2>3 DEF Stop, Drained
  <2>4. CASE Gone \/ Start
    BY <2>4 DEF Gone, Start
  <2> QED BY <1>1, <2>1, <2>2, <2>3, <2>4 DEF OwnMoves
<1>2. CASE OwnSame
  BY <1>2 DEF OwnSame
<1> QED BY <1>1, <1>2, WhoCarries

\* One timer or flush of the owner's album at a time, as long as nothing comes late; none
\* has read it before it is closed.
OneRunner ==
    /\ \A s, t \in Runner("own") :
          task["own"][s].pc # "none" /\ task["own"][t].pc # "none" => s = t
    /\ \A s \in Runner("own") : task["own"][s].pc = "sleeping" =>
          timer["own"] = s /\ s # Drainer
    /\ ~closed => \A s \in Runner("own") : task["own"][s].pc \in {"none", "sleeping"}

\* The one that runs goes on, or sleeps again under its own timer.
LEMMA RunnerMoves ==
    ASSUME TasksInv, OneRunner, NEW s \in Runner("own"), task["own"][s].pc # "none", NEW t,
           task' = [task EXCEPT !["own"][s] = t],
           t.pc = "sleeping" => timer'["own"] = s /\ s # Drainer,
           closed' \/ t.pc \in {"none", "sleeping"}
    PROVE  OneRunner'
<1>1. /\ DOMAIN task = Group /\ "own" \in Group /\ DOMAIN task["own"] = Runner("own")
  BY Constants DEF TasksInv
<1>2. task'["own"][s] = t /\ \A r \in Runner("own") \ {s} : task'["own"][r] = task["own"][r]
  BY <1>1
<1>3. \A r \in Runner("own") \ {s} : task'["own"][r].pc = "none"
  BY <1>2 DEF OneRunner
<1> QED BY <1>2, <1>3 DEF OneRunner

\* A part that comes in time arms the one timer, and no step of a flush makes a second.
LEMMA OneRunnerStep ==
    ASSUME Typed, Alone, OneRunner, [Next]_vars, ~late'
    PROVE  OneRunner'
<1>0. /\ TasksInv /\ "own" \in Group /\ DOMAIN task = Group /\ DOMAIN task["own"] = Runner("own")
      /\ Drainer \in Runner("own") /\ Drainer = 0 /\ 1 \in Runner("own")
      /\ SlotOf("own") \subseteq Runner("own") /\ 0 \notin SlotOf("own")
      /\ timer["own"] \in SlotOf("own") \union {0} /\ DOMAIN timer = Group
      /\ timer["own"] # 0 => task["own"][timer["own"]].pc = "sleeping"
  BY Constants DEF Typed, TasksInv
<1>a. (closed => closed') /\ ~late
  BY HistoryStays
<1>b. Idle.pc = "none" /\ [Idle EXCEPT !.pc = "sleeping"].pc = "sleeping"
      /\ [Idle EXCEPT !.pc = "reading"].pc = "reading"
  BY DEF Idle
<1>c. \A s \in Runner("own") : task["own"][s] \in TaskRec
  BY <1>0 DEF TasksInv, Fits
<1>1. ASSUME NEW p \in Part, Arrive("own", p)
      PROVE  OneRunner'
  <2>1. ~closed /\ closed' = closed /\ Armed("own")
    BY <1>1 DEF Arrive
  <2>2. PICK s \in FreeSlots("own") \union ({timer["own"]} \ {0}) :
          /\ timer["own"] # 0 => s = timer["own"]
          /\ timer' = [timer EXCEPT !["own"] = s]
          /\ task' = [task EXCEPT !["own"][s] = [Idle EXCEPT !.pc = "sleeping"]]
    BY <2>1 DEF Armed
  <2>3. s \in Runner("own") /\ timer'["own"] = s /\ s # Drainer
    BY <1>0, <2>2 DEF FreeSlots
  <2>4. \A r \in Runner("own") \ {s} : task["own"][r].pc = "none"
    <3>1. \A r \in Runner("own") : task["own"][r].pc # "none" => timer["own"] = r /\ r # Drainer
      BY <2>1 DEF OneRunner
    <3>2. ASSUME NEW r \in Runner("own"), task["own"][r].pc # "none"
          PROVE  r = s
      <4>1. timer["own"] = r /\ r # 0
        BY <1>0, <3>1, <3>2
      <4> QED BY <2>2, <4>1
    <3> QED BY <3>2
  <2>5. /\ task'["own"][s].pc = "sleeping"
        /\ \A r \in Runner("own") \ {s} : task'["own"][r].pc = "none"
    BY <1>0, <1>b, <2>2, <2>3, <2>4
  <2> QED BY <2>3, <2>5 DEF OneRunner
<1>2. ASSUME NEW s \in Runner("own"), Fire("own", s) \/ Flush("own", s) \/ FlushFails("own", s)
      PROVE  OneRunner'
  <2>1. CASE Fire("own", s)
    <3>1. /\ task["own"][s].pc # "none" /\ closed'
          /\ task' = [task EXCEPT !["own"][s] = [task["own"][s] EXCEPT !.pc = "reading"]]
      BY <2>1 DEF Fire
    <3>2. [task["own"][s] EXCEPT !.pc = "reading"].pc = "reading"
      BY <1>c DEF TaskRec
    <3>3. PICK t : t = [task["own"][s] EXCEPT !.pc = "reading"]
      OBVIOUS
    <3> QED BY <1>0, <3>1, <3>2, <3>3, RunnerMoves
  <2>2. ASSUME Flush("own", s) \/ FlushFails("own", s)
        PROVE  task["own"][s].pc \in Flushing /\ closed'
    <3>1. task["own"][s].pc \in Flushing
      BY <2>2 DEF Flush, FlushFails, Read, Index, MapAlbum, Record, BindLink, Submit, Attempted,
                  SubmitEcho, At, Flushing
    <3>2. closed
      BY <3>1 DEF OneRunner, Flushing
    <3> QED BY <1>a, <3>1, <3>2
  <2>3. ASSUME Raised("own", s), task["own"][s].pc \in Flushing, closed'
        PROVE  OneRunner'
    <3>1. task["own"][s].pc # "none"
      BY <2>3 DEF Flushing
    <3>2. CASE task' = [task EXCEPT !["own"][s] = Idle]
      BY <1>0, <1>b, <2>3, <3>1, <3>2, RunnerMoves
    <3>3. CASE task' # [task EXCEPT !["own"][s] = Idle]
      <4>1. /\ s # Drainer /\ timer'["own"] = s
            /\ task' = [task EXCEPT !["own"][s] = [Idle EXCEPT !.pc = "sleeping"]]
        BY <1>0, <2>3, <3>3 DEF Raised
      <4> QED BY <1>0, <2>3, <3>1, <4>1, RunnerMoves
    <3> QED BY <3>2, <3>3
  <2>4. ASSUME NEW t, t.pc \in Flushing \union {"none"}, task["own"][s].pc \in Flushing, closed',
               task' = [task EXCEPT !["own"][s] = t]
        PROVE  OneRunner'
    <3>1. task["own"][s].pc # "none" /\ t.pc # "sleeping"
      BY <2>4 DEF Flushing
    <3> QED BY <1>0, <2>4, <3>1, RunnerMoves
  <2>5. CASE Read("own", s)
    <3>1. PICK ps : task' = [task EXCEPT !["own"][s] =
                       [pc |-> "indexing", parts |-> ps, i |-> 1, row |-> 0]]
      BY <2>5 DEF Read
    <3>2. [pc |-> "indexing", parts |-> ps, i |-> 1, row |-> 0].pc \in Flushing
      BY DEF Flushing
    <3> QED BY <2>2, <2>4, <2>5, <3>1, <3>2 DEF Flush
  <2>6. CASE Index("own", s) /\ ~Raised("own", s)
    <3>1. PICK t : t = task["own"][s]
      OBVIOUS
    <3>2. /\ t.pc = "indexing"
          /\ \/ task' = [task EXCEPT !["own"][s] = [t EXCEPT !.pc = "mapping"]]
             \/ task' = [task EXCEPT !["own"][s] = [t EXCEPT !.i = @ + 1]]
      BY <2>6, <3>1 DEF Index, At
    <3>3. /\ [t EXCEPT !.pc = "mapping"].pc \in Flushing
          /\ [t EXCEPT !.i = t.i + 1].pc \in Flushing
      BY <1>c, <3>1, <3>2 DEF TaskRec, Flushing
    <3>4. task["own"][s].pc \in Flushing /\ closed'
      BY <2>2, <2>6 DEF Flush
    <3> QED BY <2>4, <3>2, <3>3, <3>4
  <2>7. ASSUME NEW pc \in Flushing, Goes("own", s, pc), task["own"][s].pc \in Flushing, closed'
        PROVE  OneRunner'
    <3>1. PICK t : t = [task["own"][s] EXCEPT !.pc = pc]
      OBVIOUS
    <3>2. t.pc = pc
      BY <1>c, <3>1 DEF TaskRec
    <3>3. task' = [task EXCEPT !["own"][s] = t]
      BY <2>7, <3>1 DEF Goes
    <3> QED BY <2>4, <2>7, <3>2, <3>3
  <2>8. ASSUME NEW r, task' = [task EXCEPT !["own"][s].pc = "binding", !["own"][s].row = r],
               task["own"][s].pc \in Flushing, closed'
        PROVE  OneRunner'
    <3>1. PICK t : t = [task["own"][s] EXCEPT !.pc = "binding", !.row = r]
      OBVIOUS
    <3>2. t.pc \in Flushing
      BY <1>c, <3>1 DEF TaskRec, Flushing
    <3>3. task' = [task EXCEPT !["own"][s] = t]
      BY <1>0, <2>8, <3>1
    <3> QED BY <2>4, <2>8, <3>2, <3>3
  <2>9. CASE MapAlbum("own", s) \/ Record("own", s)
    <3>1. task["own"][s].pc \in Flushing /\ closed'
      BY <2>2, <2>9 DEF Flush
    <3>2. \/ Goes("own", s, "recording")
          \/ \E r : task' = [task EXCEPT !["own"][s].pc = "binding", !["own"][s].row = r]
      BY <2>9 DEF MapAlbum, Record
    <3> QED BY <2>7, <2>8, <3>1, <3>2 DEF Flushing
  <2>10. CASE BindLink("own", s) \/ Submit("own", s) \/ SubmitEcho("own", s)
    <3>1. task["own"][s].pc \in Flushing /\ closed'
      BY <2>2, <2>10 DEF Flush
    <3>2. \/ Goes("own", s, "submitting") \/ Goes("own", s, "sending")
          \/ task' = [task EXCEPT !["own"][s] = Idle]
      BY <2>10 DEF BindLink, Submit, SubmitEcho, Ends
    <3> QED BY <1>b, <2>4, <2>7, <3>1, <3>2 DEF Flushing
  <2>11. CASE Attempted("own", s) \/ FlushFails("own", s) \/ (Index("own", s) /\ Raised("own", s))
    <3>1. task["own"][s].pc \in Flushing /\ closed'
      BY <2>2, <2>11 DEF Flush
    <3>2. Raised("own", s) \/ task' = [task EXCEPT !["own"][s] = Idle]
      BY <2>11 DEF Attempted, FlushFails, Ends
    <3> QED BY <1>b, <2>3, <2>4, <3>1, <3>2
  <2> QED BY <1>2, <2>1, <2>5, <2>6, <2>9, <2>10, <2>11 DEF Flush
<1>3. CASE Stop /\ timer["own"] # 0 /\ Drained("own")
  <2>1. /\ closed' /\ timer["own"] \in Runner("own") /\ timer["own"] # Drainer
        /\ task["own"][timer["own"]].pc = "sleeping"
    BY <1>0, <1>3 DEF Drained
  <2>2. \A r \in Runner("own") \ {timer["own"]} : task["own"][r].pc = "none"
    BY <2>1 DEF OneRunner
  <2>3. \A r \in Runner("own") : task'["own"][r] =
           IF r = Drainer THEN [Idle EXCEPT !.pc = "reading"]
           ELSE IF r = timer["own"] THEN Idle ELSE task["own"][r]
    BY <1>0, <1>3 DEF Drained
  <2>4. /\ \A r \in Runner("own") \ {Drainer} : task'["own"][r].pc = "none"
        /\ task'["own"][Drainer].pc = "reading"
    BY <1>0, <1>b, <2>2, <2>3
  <2> QED BY <2>1, <2>4 DEF OneRunner
<1>4. CASE Gone
  <2>1. \A r \in Runner("own") : task'["own"][r].pc = "none"
    BY <1>0, <1>b, <1>4 DEF Gone
  <2> QED BY <2>1 DEF OneRunner
<1>5. CASE Start
  <2>1. \A r \in Runner("own") : task["own"][r].pc = "none"
    BY <1>0, <1>5 DEF Start, Alone
  <2>2. CASE UNCHANGED <<timer, task>>
    BY <2>1, <2>2 DEF OneRunner
  <2>3. CASE /\ timer' = [g \in Group |-> IF OpenGroup(g) THEN 1 ELSE 0]
             /\ task' = [g \in Group |-> [task[g] EXCEPT ![1] =
                  IF OpenGroup(g) THEN [Idle EXCEPT !.pc = "sleeping"] ELSE Idle]]
    <3>1. /\ \A r \in Runner("own") \ {1} : task'["own"][r].pc = "none"
          /\ \/ task'["own"][1].pc = "none"
             \/ task'["own"][1].pc = "sleeping" /\ timer'["own"] = 1
      BY <1>0, <1>b, <2>1, <2>3
    <3> QED BY <1>0, <3>1 DEF OneRunner
  <2> QED BY <1>5, <2>2, <2>3 DEF Start
<1>6. CASE OwnSame
  BY <1>6 DEF OneRunner, OwnSame
<1> QED BY <1>1, <1>2, <1>3, <1>4, <1>5, <1>6, WhoCarries DEF OwnMoves

RecordsInv ==
    /\ ~closed => /\ rows = <<>> /\ job["own"].state = "none"
                  /\ \A p \in In(buffer["own"]) :
                        buffer["own"][p].index = 0 /\ buffer["own"][p].row = 0
    /\ InOrder(buffer["own"]) /\ UnderOne(buffer["own"], rows)
    /\ Takes(buffer["own"], rows, job["own"])
    /\ \A s \in Runner("own") : Carries(buffer["own"], rows, task["own"][s])

\* Who does not flush says nothing of what is written.
LEMMA RestCarries ==
    ASSUME NEW b, NEW r, NEW t, t.pc \in {"none", "sleeping", "reading"}
    PROVE  Carries(b, r, t)
  BY DEF Carries, Flushing

\* What the one that runs leaves behind.
LEMMA FlushKeeps ==
    ASSUME TasksInv, OneRunner, RecordsInv, NEW s \in Runner("own"),
           task["own"][s].pc # "none", closed', NEW t, task' = [task EXCEPT !["own"][s] = t],
           InOrder(buffer'["own"]), UnderOne(buffer'["own"], rows'),
           Takes(buffer'["own"], rows', job'["own"]), Carries(buffer'["own"], rows', t)
    PROVE  RecordsInv'
<1>1. /\ DOMAIN task = Group /\ "own" \in Group /\ DOMAIN task["own"] = Runner("own")
  BY Constants DEF TasksInv
<1>2. task'["own"][s] = t /\ \A r \in Runner("own") \ {s} : task'["own"][r] = task["own"][r]
  BY <1>1
<1>3. \A r \in Runner("own") \ {s} : task'["own"][r].pc = "none"
  BY <1>2 DEF OneRunner
<1>4. ASSUME NEW r \in Runner("own")
      PROVE  Carries(buffer'["own"], rows', task'["own"][r])
  BY <1>2, <1>3, RestCarries
<1> QED BY <1>4 DEF RecordsInv

\* A flush that writes nothing keeps what is written.
LEMMA QuietKeeps ==
    ASSUME TasksInv, OneRunner, RecordsInv, NEW s \in Runner("own"),
           task["own"][s].pc # "none", closed', NEW t, task' = [task EXCEPT !["own"][s] = t],
           buffer'["own"] = buffer["own"], rows' = rows, job'["own"] = job["own"],
           Carries(buffer["own"], rows, t)
    PROVE  RecordsInv'
  BY FlushKeeps DEF RecordsInv

\* What is stored of the owner's album, in both ways of saying it.
LEMMA OwnParts ==
    ASSUME TablesInv
    PROVE  /\ buffer["own"] \in [Part -> PartRec] /\ In(buffer["own"]) = Stored("own")
           /\ In(buffer["own"]) \in SUBSET Part /\ rows \in Seq(Part) /\ DOMAIN buffer = Group
           /\ "own" \in Group
<1>1. PartOf("own") = Part /\ "own" \in Group
  BY Constants
<1> QED BY <1>1 DEF TablesInv, In, Stored

\* ordered_parts gives the parts in the order of their ids.
LEMMA ReadCarries ==
    ASSUME TablesInv, RecordsInv
    PROVE  Ascending(OrderedParts("own"), In(buffer["own"]))
<1>1. /\ OrderedParts("own") \in SetToSeqs(Stored("own"))
      /\ \A i, j \in DOMAIN OrderedParts("own") :
            i < j => Before("own", OrderedParts("own")[i], OrderedParts("own")[j])
  BY OwnParts, PartsInOrder
<1>2. buffer["own"] \in [Part -> PartRec] /\ In(buffer["own"]) = Stored("own") /\ InOrder(buffer["own"])
  BY OwnParts DEF RecordsInv
<1> DEFINE b == buffer["own"]
           s == OrderedParts("own")
<1>3. \A i, j \in DOMAIN s : i < j =>
              \/ b[s[i]].index # 0 /\ (b[s[j]].index = 0 \/ b[s[i]].index < b[s[j]].index)
              \/ b[s[i]].index = 0 /\ b[s[j]].index = 0 /\ s[i] < s[j]
  BY <1>1 DEF Before
<1> HIDE DEF s, b
<1>4. s \in SetToSeqs(In(b)) /\ b \in [Part -> PartRec] /\ InOrder(b)
  BY <1>1, <1>2 DEF s, b
<1>5. Ascending(s, In(b))
  BY <1>3, <1>4, OrderAscends
<1> QED BY <1>5 DEF s, b

\* A flush of the owner's album takes a place, a row or the job as the steps before it left
\* them (OwnerAlbums.flush, on_telegram_media).
LEMMA FlushStep ==
    ASSUME Typed, OneRunner, RecordsInv, closed', NEW s \in Runner("own"), Flush("own", s)
    PROVE  RecordsInv'
<1>0. /\ TablesInv /\ TasksInv /\ JobsInv
      /\ buffer["own"] \in [Part -> PartRec] /\ In(buffer["own"]) = Stored("own")
      /\ In(buffer["own"]) \in SUBSET Part /\ rows \in Seq(Part) /\ DOMAIN buffer = Group
      /\ "own" \in Group /\ "own" \notin Album
  BY OwnParts, Constants DEF Typed
<1>a. PICK t : t = task["own"][s]
  OBVIOUS
<1>b. PICK b : b = buffer["own"]
  OBVIOUS
<1>1. /\ t \in TaskRec /\ Fits("own", t) /\ t.parts \in Seq(Part)
      /\ InOrder(b) /\ UnderOne(b, rows) /\ Takes(b, rows, job["own"]) /\ Carries(b, rows, t)
      /\ b \in [Part -> PartRec] /\ In(b) = Stored("own") /\ In(b) \in SUBSET Part
      /\ t.pc # "none" => In(b) # {}
  BY <1>0, <1>a, <1>b DEF TasksInv, Fits, TaskRec, RecordsInv
<1>2. t.pc # "none"
  BY <1>a DEF Flush, Read, Index, MapAlbum, Record, BindLink, Submit, Attempted, SubmitEcho, At
<1>3. ASSUME t.pc \in Flushing \ {"reading"}
      PROVE  /\ Ascending(t.parts, In(b)) /\ Len(t.parts) \in Nat /\ DOMAIN t.parts = 1..Len(t.parts)
             /\ Len(t.parts) # 0
             /\ \A o : Ascending(o, In(b)) => o = t.parts
  <2>1. Ascending(t.parts, In(b))
    BY <1>1, <1>3 DEF Carries
  <2>2. t.parts # <<>>
    BY <1>1, <1>3 DEF Fits
  <2>3. In(b) \in SUBSET Nat /\ IsFiniteSet(In(b))
    BY <1>1, PartsAscend
  <2>4. \A o : Ascending(o, In(b)) => o = t.parts
    BY <2>1, <2>3, AscendsOneWay
  <2> QED BY <1>1, <2>1, <2>2, <2>4
<1>q. ASSUME NEW u, task' = [task EXCEPT !["own"][s] = u], Carries(b, rows, u),
             buffer'["own"] = b, rows' = rows, job'["own"] = job["own"]
      PROVE  RecordsInv'
  BY <1>0, <1>a, <1>b, <1>2, <1>q, QuietKeeps
<1>4. CASE Read("own", s)
  <2>1. PICK o : o = OrderedParts("own")
    OBVIOUS
  <2>2. Ascending(o, In(b))
    BY <1>0, <1>b, <2>1, ReadCarries
  <2>3. PICK u : u = [pc |-> "indexing", parts |-> o, i |-> 1, row |-> 0]
    OBVIOUS
  <2>4. task' = [task EXCEPT !["own"][s] = u] /\ UNCHANGED <<buffer, rows, job>>
    BY <1>4, <2>1, <2>3 DEF Read, tables
  <2>5. Carries(b, rows, u)
    BY <2>2, <2>3 DEF Carries, Flushing
  <2> QED BY <1>b, <1>q, <2>4, <2>5
<1>i. Index("own", s) =>
         \/ Raised("own", s) /\ UNCHANGED buffer
         \/ /\ buffer' = [buffer EXCEPT !["own"][t.parts[t.i]].index = IF @ = 0 THEN t.i ELSE @]
            /\ task' = [task EXCEPT !["own"][s] = IF t.i = Len(t.parts) THEN [t EXCEPT !.pc = "mapping"]
                                                  ELSE [t EXCEPT !.i = @ + 1]]
  BY <1>a DEF Index
<1>5. CASE Index("own", s) /\ ~(Raised("own", s) /\ UNCHANGED buffer)
  <2>0. t.pc = "indexing" /\ t.i \in 1..Len(t.parts)
    BY <1>1, <1>5, <1>a DEF Index, At, Fits
  <2>1. /\ buffer' = [buffer EXCEPT !["own"][t.parts[t.i]].index = IF @ = 0 THEN t.i ELSE @]
        /\ UNCHANGED <<rows, job>>
        /\ task' = [task EXCEPT !["own"][s] = IF t.i = Len(t.parts) THEN [t EXCEPT !.pc = "mapping"]
                                              ELSE [t EXCEPT !.i = @ + 1]]
    <3>1. UNCHANGED <<rows, job>>
      BY <1>5 DEF Index
    <3> QED BY <1>5, <1>i, <3>1
  <2>2. PICK c : c = [b EXCEPT ![t.parts[t.i]].index = IF @ = 0 THEN t.i ELSE @]
    OBVIOUS
  <2>3. buffer'["own"] = c
    BY <1>0, <1>b, <2>1, <2>2
  <2>4. /\ Ascending(t.parts, In(b)) /\ \A j \in 1..(t.i - 1) : b[t.parts[j]].index = j
    BY <1>1, <1>3, <2>0 DEF Carries, Flushing
  <2>5. /\ In(c) = In(b) /\ InOrder(c)
        /\ \A j \in 1..t.i : c[t.parts[j]].index = j
        /\ t.i = Len(t.parts) => Placed(c)
        /\ Placed(b) => Placed(c)
        /\ \A x : BoundTo(c, x) <=> BoundTo(b, x)
    <3>1. PICK o : o = t.parts
      OBVIOUS
    <3>2. PICK i : i = t.i
      OBVIOUS
    <3>3. /\ Ascending(o, In(b)) /\ i \in 1..Len(o) /\ \A j \in 1..(i - 1) : b[o[j]].index = j
      BY <2>0, <2>4, <3>1, <3>2
    <3>c. c = [b EXCEPT ![o[i]].index = IF @ = 0 THEN i ELSE @]
      BY <2>2, <3>1, <3>2
    <3>a. o[i] \in Part
      BY <1>1, <2>0, <3>1, <3>2
    <3>b. /\ \A p \in Part \ {o[i]} : c[p] = b[p]
          /\ c[o[i]].index = IF b[o[i]].index = 0 THEN i ELSE b[o[i]].index
          /\ c[o[i]].at = b[o[i]].at /\ c[o[i]].row = b[o[i]].row
      BY <1>1, <3>a, <3>c DEF PartRec
    <3>4. b \in [Part -> PartRec] /\ InOrder(b)
      BY <1>1
    <3>5. In(c) = In(b) /\ InOrder(c)
      BY <3>3, <3>b, <3>4, PlaceGiven
    <3>6. \A j \in 1..i : c[o[j]].index = j
      BY <3>3, <3>b, <3>4, PlaceGiven
    <3>7. (i = Len(o) => Placed(c)) /\ (Placed(b) => Placed(c))
      BY <3>3, <3>b, <3>4, PlaceGiven
    <3>8. \A x : BoundTo(c, x) <=> BoundTo(b, x)
      BY <3>3, <3>b, <3>4, PlaceGiven
    <3> QED BY <3>1, <3>2, <3>5, <3>6, <3>7, <3>8
  <2>6. UnderOne(c, rows) /\ Takes(c, rows, job["own"])
    BY <1>1, <2>5 DEF UnderOne, Takes
  <2>7. PICK u : u = IF t.i = Len(t.parts) THEN [t EXCEPT !.pc = "mapping"]
                     ELSE [t EXCEPT !.i = t.i + 1]
    OBVIOUS
  <2>8. Carries(c, rows, u)
    <3>1. CASE t.i = Len(t.parts)
      <4>1. u.pc = "mapping" /\ u.parts = t.parts
        BY <1>1, <2>7, <3>1 DEF TaskRec
      <4> QED BY <2>4, <2>5, <3>1, <4>1 DEF Carries, Flushing
    <3>2. CASE t.i # Len(t.parts)
      <4>1. u.pc = "indexing" /\ u.parts = t.parts /\ u.i = t.i + 1
        BY <1>1, <2>0, <2>7, <3>2 DEF TaskRec
      <4>2. u.i - 1 = t.i
        BY <1>1, <2>0, <4>1 DEF TaskRec
      <4> QED BY <2>4, <2>5, <4>1, <4>2 DEF Carries, Flushing
    <3> QED BY <3>1, <3>2
  <2>9. task' = [task EXCEPT !["own"][s] = u]
    BY <2>1, <2>7
  <2>10. InOrder(buffer'["own"]) /\ UnderOne(buffer'["own"], rows')
         /\ Takes(buffer'["own"], rows', job'["own"]) /\ Carries(buffer'["own"], rows', u)
    BY <2>1, <2>3, <2>5, <2>6, <2>8
  <2> QED BY <1>0, <1>a, <1>2, <2>9, <2>10, FlushKeeps
<1>6. CASE MapAlbum("own", s)
  <2>0. t.pc = "mapping" /\ UNCHANGED <<buffer, rows, job>>
    BY <1>6, <1>a DEF MapAlbum, At, tables
  <2>1. Ascending(t.parts, In(b)) /\ Placed(b)
    BY <1>1, <1>3, <2>0 DEF Carries, Flushing
  <2>2. Bound("own") = {p \in In(b) : b[p].row # 0}
    BY <1>1, <1>b DEF Bound
  <2>3. rows # <<>> => 1 \in DOMAIN rows /\ DOMAIN rows = {1} /\ rows[1] = t.parts[1]
    <3>1. rows # <<>> => Len(rows) = 1 /\ rows[1] = t.parts[1]
      BY <1>1, <2>1 DEF UnderOne
    <3>2. DOMAIN rows = 1..Len(rows)
      BY <1>0
    <3> QED BY <3>1, <3>2
  <2>4. CASE Known("own", t.parts[1]) = {}
    <3>1. Bound("own") = {} /\ rows = <<>>
      BY <2>3, <2>4 DEF Known
    <3>2. PICK u : u = [t EXCEPT !.pc = "recording"]
      OBVIOUS
    <3>3. task' = [task EXCEPT !["own"][s] = u]
      BY <1>6, <1>a, <2>4, <3>2 DEF MapAlbum, Goes
    <3>4. u.pc = "recording" /\ u.parts = t.parts
      BY <1>1, <3>2 DEF TaskRec
    <3>5. Carries(b, rows, u)
      BY <2>1, <3>1, <3>4 DEF Carries, Flushing
    <3> QED BY <1>b, <1>q, <2>0, <3>3, <3>5
  <2>5. ASSUME NEW r \in Known("own", t.parts[1]),
               task' = [task EXCEPT !["own"][s].pc = "binding", !["own"][s].row = r]
        PROVE  RecordsInv'
    <3>1. rows # <<>> /\ r = 1
      <4>1. CASE Bound("own") = {}
        BY <2>3, <2>5, <4>1 DEF Known
      <4>2. CASE Bound("own") # {}
        <5>1. ~BoundTo(b, 0) /\ BoundTo(b, 1)
          BY <1>1, <2>2, <4>2 DEF BoundTo, UnderOne
        <5>2. PICK p \in Bound("own") : r = buffer["own"][p].row
          BY <2>5, <4>2 DEF Known
        <5> QED BY <1>1, <1>b, <2>2, <5>1, <5>2 DEF BoundTo, UnderOne
      <4> QED BY <4>1, <4>2
    <3>2. PICK u : u = [t EXCEPT !.pc = "binding", !.row = r]
      OBVIOUS
    <3>3. task' = [task EXCEPT !["own"][s] = u]
      BY <1>0, <1>a, <2>5, <3>2 DEF TasksInv
    <3>4. u.pc = "binding" /\ u.parts = t.parts /\ u.row = 1
      BY <1>1, <3>1, <3>2 DEF TaskRec
    <3>5. Carries(b, rows, u)
      BY <2>1, <3>1, <3>4 DEF Carries, Flushing
    <3> QED BY <1>b, <1>q, <2>0, <3>3, <3>5
  <2>6. \/ Known("own", t.parts[1]) = {}
        \/ \E r \in Known("own", t.parts[1]) :
              task' = [task EXCEPT !["own"][s].pc = "binding", !["own"][s].row = r]
    BY <1>6, <1>a DEF MapAlbum
  <2> QED BY <2>4, <2>5, <2>6
<1>7. CASE Record("own", s)
  <2>0. t.pc = "recording" /\ UNCHANGED <<buffer, job>>
    BY <1>7, <1>a DEF Record, At
  <2>1. Ascending(t.parts, In(b)) /\ Placed(b) /\ rows = <<>> /\ Len(t.parts) # 0
        /\ DOMAIN t.parts = 1..Len(t.parts) /\ Len(t.parts) \in Nat
    BY <1>1, <1>3, <2>0 DEF Carries, Flushing
  <2>2. BoundTo(b, 0) /\ job["own"].state = "none"
    BY <1>1, <2>1 DEF UnderOne, Takes
  <2>3. rows' = <<t.parts[1]>> /\ Len(rows) = 0
    <3>1. rows' = Append(rows, t.parts[1])
      BY <1>7, <1>a DEF Record
    <3> QED BY <2>1, <3>1
  <2>4. rows' # <<>> /\ Len(rows') = 1 /\ rows'[1] = t.parts[1]
    BY <2>3
  <2>5. PICK u : u = [t EXCEPT !.pc = "binding", !.row = 1]
    OBVIOUS
  <2>6. task' = [task EXCEPT !["own"][s] = u]
    <3>1. task' = [task EXCEPT !["own"][s].pc = "binding", !["own"][s].row = 1]
      BY <1>7, <2>3 DEF Record
    <3> QED BY <1>0, <1>a, <2>5, <3>1 DEF TasksInv
  <2>7. u.pc = "binding" /\ u.parts = t.parts /\ u.row = 1
    BY <1>1, <2>5 DEF TaskRec
  <2>8. Carries(b, rows', u)
    BY <2>1, <2>4, <2>7 DEF Carries, Flushing
  <2>9. UnderOne(b, rows')
    BY <1>3, <2>0, <2>1, <2>2, <2>4 DEF UnderOne, Flushing
  <2>10. Takes(b, rows', job["own"])
    BY <2>2 DEF Takes
  <2>11. InOrder(buffer'["own"]) /\ UnderOne(buffer'["own"], rows')
         /\ Takes(buffer'["own"], rows', job'["own"]) /\ Carries(buffer'["own"], rows', u)
    BY <1>1, <1>b, <2>0, <2>8, <2>9, <2>10
  <2> QED BY <1>0, <1>a, <1>2, <2>6, <2>11, FlushKeeps
<1>8. CASE BindLink("own", s)
  <2>0. t.pc = "binding" /\ UNCHANGED <<rows, job>>
    BY <1>8, <1>a DEF BindLink, At
  <2>1. Ascending(t.parts, In(b)) /\ Placed(b) /\ rows # <<>> /\ t.row = 1
    BY <1>1, <1>3, <2>0 DEF Carries, Flushing
  <2>2. PICK c : c = buffer'["own"]
    OBVIOUS
  <2>3. \A p \in Part : c[p] = IF b[p].at /\ b[p].row = 0 THEN [b[p] EXCEPT !.row = 1] ELSE b[p]
    BY <1>0, <1>8, <1>a, <1>b, <2>1, <2>2, Constants DEF BindLink
  <2>4. \A p \in Part : /\ c[p].at = b[p].at /\ c[p].index = b[p].index
                        /\ b[p].at => c[p].row = IF b[p].row = 0 THEN 1 ELSE b[p].row
    <3>1. \A p \in Part : b[p] \in PartRec
      BY <1>1
    <3> QED BY <2>3, <3>1 DEF PartRec
  <2>5. In(c) = In(b)
    BY <2>4 DEF In
  <2>6. InOrder(c) /\ Placed(c)
    <3>1. \A p \in In(b) : c[p].index = b[p].index
      BY <1>1, <2>4
    <3> QED BY <1>1, <2>1, <2>5, <3>1 DEF InOrder, Placed
  <2>7. BoundTo(c, 1)
    <3>1. BoundTo(b, 0) \/ BoundTo(b, 1)
      BY <1>1 DEF UnderOne
    <3>2. \A p \in In(b) : c[p].row = IF b[p].row = 0 THEN 1 ELSE b[p].row
      BY <2>4 DEF In
    <3> QED BY <2>5, <3>1, <3>2 DEF BoundTo
  <2>8. UnderOne(c, rows)
    BY <1>1, <2>1, <2>5, <2>6, <2>7 DEF UnderOne
  <2>9. Takes(c, rows, job["own"])
    BY <1>1, <2>5, <2>7 DEF Takes
  <2>10. PICK u : u = [t EXCEPT !.pc = "submitting"]
    OBVIOUS
  <2>11. u.pc = "submitting" /\ u.parts = t.parts /\ u.row = 1
    BY <1>1, <2>1, <2>10 DEF TaskRec
  <2>12. Carries(c, rows, u)
    BY <2>1, <2>5, <2>6, <2>7, <2>11 DEF Carries, Flushing
  <2>13. task' = [task EXCEPT !["own"][s] = u]
    BY <1>8, <1>a, <2>10 DEF BindLink, Goes
  <2>14. InOrder(buffer'["own"]) /\ UnderOne(buffer'["own"], rows')
         /\ Takes(buffer'["own"], rows', job'["own"]) /\ Carries(buffer'["own"], rows', u)
    BY <2>0, <2>2, <2>6, <2>8, <2>9, <2>12
  <2> QED BY <1>0, <1>a, <1>2, <2>13, <2>14, FlushKeeps
<1>9. CASE Submit("own", s)
  <2>0. t.pc = "submitting" /\ UNCHANGED <<buffer, rows>>
    BY <1>9, <1>a DEF Submit, At
  <2>1. Ascending(t.parts, In(b)) /\ Placed(b) /\ rows # <<>> /\ t.row = 1 /\ BoundTo(b, 1)
    BY <1>1, <1>3, <2>0 DEF Carries, Flushing
  <2>2. CASE job["own"].state # "none"
    <3>1. job' = job /\ task' = [task EXCEPT !["own"][s] = Idle] /\ Idle.pc = "none"
      BY <1>9, <2>2 DEF Submit, Ends, Idle
    <3>2. PICK u : u = Idle
      OBVIOUS
    <3>3. Carries(b, rows, u)
      BY <3>1, <3>2, RestCarries
    <3> QED BY <1>b, <1>q, <2>0, <3>1, <3>2, <3>3
  <2>3. CASE job["own"].state = "none"
    <3>1. PICK j : j = [state |-> "queued", parts |-> t.parts, row |-> t.row]
      OBVIOUS
    <3>2. PICK u : u = [t EXCEPT !.pc = "sending"]
      OBVIOUS
    <3>3. job'["own"] = j /\ task' = [task EXCEPT !["own"][s] = u]
      BY <1>0, <1>9, <1>a, <2>3, <3>1, <3>2 DEF Submit, Goes, JobsInv
    <3>4. u.pc = "sending" /\ u.parts = t.parts /\ u.row = 1
      BY <1>1, <2>1, <3>2 DEF TaskRec
    <3>5. Carries(b, rows, u)
      BY <2>1, <3>4 DEF Carries, Flushing
    <3>6. Takes(b, rows, j)
      BY <2>1, <3>1 DEF Takes
    <3>7. InOrder(buffer'["own"]) /\ UnderOne(buffer'["own"], rows')
         /\ Takes(buffer'["own"], rows', job'["own"]) /\ Carries(buffer'["own"], rows', u)
      BY <1>1, <1>b, <2>0, <3>3, <3>5, <3>6
    <3> QED BY <1>0, <1>a, <1>2, <3>3, <3>7, FlushKeeps
  <2> QED BY <2>2, <2>3
<1>r. ASSUME Raised("own", s), UNCHANGED <<buffer, rows, job>>
      PROVE  RecordsInv'
  <2>1. PICK u \in {Idle, [Idle EXCEPT !.pc = "sleeping"]} : task' = [task EXCEPT !["own"][s] = u]
    BY <1>r DEF Raised
  <2>2. u.pc \in {"none", "sleeping"}
    BY DEF Idle
  <2>3. Carries(b, rows, u)
    BY <2>2, RestCarries
  <2> QED BY <1>b, <1>q, <1>r, <2>1, <2>3
<1>10. CASE Attempted("own", s)
  <2>1. UNCHANGED <<buffer, rows, job>> /\ (Raised("own", s) \/ Ends("own", s))
    BY <1>10 DEF Attempted, tables
  <2>2. CASE Ends("own", s)
    <3>1. PICK u : u = Idle
      OBVIOUS
    <3>2. u.pc = "none" /\ task' = [task EXCEPT !["own"][s] = u]
      BY <2>2, <3>1 DEF Idle, Ends
    <3>3. Carries(b, rows, u)
      BY <3>2, RestCarries
    <3> QED BY <1>b, <1>q, <2>1, <3>2, <3>3
  <2> QED BY <1>r, <2>1, <2>2
<1>11. CASE Index("own", s) /\ Raised("own", s) /\ UNCHANGED buffer
  BY <1>r, <1>11 DEF Index
<1> QED BY <1>0, <1>4, <1>5, <1>6, <1>7, <1>8, <1>9, <1>10, <1>11 DEF Flush, SubmitEcho

\* Timers, crashes and starts write nothing.
LEMMA RestKeeps ==
    ASSUME RecordsInv, buffer'["own"] = buffer["own"], rows' = rows,
           Takes(buffer["own"], rows, job'["own"]),
           ~closed' => ~closed /\ job'["own"].state = "none",
           \A s \in Runner("own") : \/ task'["own"][s] = task["own"][s]
                                    \/ task'["own"][s].pc \in {"none", "sleeping", "reading"}
    PROVE  RecordsInv'
<1>1. ASSUME NEW s \in Runner("own")
      PROVE  Carries(buffer["own"], rows, task'["own"][s])
  <2>1. CASE task'["own"][s] = task["own"][s]
    BY <2>1 DEF RecordsInv
  <2>2. CASE task'["own"][s].pc \in {"none", "sleeping", "reading"}
    BY <2>2, RestCarries
  <2> QED BY <2>1, <2>2
<1> QED BY <1>1 DEF RecordsInv

\* The album is carried as it was when its group was closed, through every failure, crash
\* and start, as long as nothing comes late.
LEMMA RecordsStep ==
    ASSUME Typed, Alone, OneRunner, RecordsInv, [Next]_vars, ~late'
    PROVE  RecordsInv'
<1>0. /\ TablesInv /\ TasksInv /\ JobsInv /\ OneRunner' /\ (closed => closed') /\ ~late
      /\ buffer["own"] \in [Part -> PartRec] /\ DOMAIN buffer = Group /\ "own" \in Group
      /\ DOMAIN task = Group /\ DOMAIN task["own"] = Runner("own") /\ 1 \in Runner("own")
      /\ \A s \in Runner("own") : task["own"][s] \in TaskRec
  BY OwnParts, OneRunnerStep, HistoryStays, Constants DEF Typed, TasksInv, Fits
<1>b. Idle.pc = "none" /\ [Idle EXCEPT !.pc = "sleeping"].pc = "sleeping"
      /\ [Idle EXCEPT !.pc = "reading"].pc = "reading"
  BY DEF Idle
<1>c. Takes(buffer["own"], rows, job["own"]) /\ (~closed => job["own"].state = "none")
  BY DEF RecordsInv
<1>1. ASSUME NEW p \in Part, Arrive("own", p)
      PROVE  RecordsInv'
  <2>1. /\ ~closed /\ ~closed' /\ rows' = rows /\ job' = job
        /\ buffer' = [buffer EXCEPT !["own"][p] = [Absent EXCEPT !.at = TRUE]]
    BY <1>0, <1>1 DEF Arrive
  <2>2. /\ rows = <<>> /\ job["own"].state = "none"
        /\ \A q \in In(buffer["own"]) : buffer["own"][q].index = 0 /\ buffer["own"][q].row = 0
    BY <2>1 DEF RecordsInv
  <2>3. [Absent EXCEPT !.at = TRUE].index = 0 /\ [Absent EXCEPT !.at = TRUE].row = 0
    BY DEF Absent
  <2>4. PICK c : c = buffer'["own"]
    OBVIOUS
  <2>5. c[p] = [Absent EXCEPT !.at = TRUE] /\ \A q \in Part \ {p} : c[q] = buffer["own"][q]
    BY <1>0, <2>1, <2>4
  <2>6. \A q \in In(c) : c[q].index = 0 /\ c[q].row = 0
    BY <2>2, <2>3, <2>5 DEF In
  <2>7. InOrder(c) /\ UnderOne(c, rows)
    BY <2>2, <2>6 DEF InOrder, UnderOne, BoundTo
  <2>8. Takes(c, rows, job["own"])
    BY <2>2 DEF Takes
  <2>9. \A s \in Runner("own") : Carries(c, rows, task'["own"][s])
    <3>1. \A s \in Runner("own") : task'["own"][s].pc \in {"none", "sleeping"}
      BY <1>0, <2>1 DEF OneRunner
    <3> QED BY <3>1, RestCarries
  <2> QED BY <2>1, <2>2, <2>4, <2>6, <2>7, <2>8, <2>9 DEF RecordsInv
<1>2. ASSUME NEW s \in Runner("own"), Fire("own", s) \/ Flush("own", s) \/ FlushFails("own", s)
      PROVE  RecordsInv'
  <2>1. CASE Fire("own", s)
    <3>1. /\ closed' /\ buffer' = buffer /\ rows' = rows /\ job' = job
          /\ task' = [task EXCEPT !["own"][s].pc = "reading"]
      BY <2>1 DEF Fire, tables
    <3>2. [task["own"][s] EXCEPT !.pc = "reading"].pc = "reading"
      BY <1>0 DEF TaskRec
    <3>3. \A r \in Runner("own") : \/ task'["own"][r] = task["own"][r]
                                   \/ task'["own"][r].pc \in {"none", "sleeping", "reading"}
      BY <1>0, <3>1, <3>2
    <3> QED BY <1>c, <3>1, <3>3, RestKeeps
  <2>2. ASSUME Flush("own", s) \/ FlushFails("own", s)
        PROVE  task["own"][s].pc \in Flushing /\ closed'
    <3>1. task["own"][s].pc \in Flushing
      BY <2>2 DEF Flush, FlushFails, Read, Index, MapAlbum, Record, BindLink, Submit, Attempted,
                  SubmitEcho, At, Flushing
    <3>2. closed
      BY <3>1 DEF OneRunner, Flushing
    <3> QED BY <1>0, <3>1, <3>2
  <2>3. CASE Flush("own", s)
    BY <2>2, <2>3, FlushStep
  <2>4. CASE FlushFails("own", s)
    <3>1. UNCHANGED <<buffer, rows, job>> /\ Raised("own", s)
      BY <2>4 DEF FlushFails, tables
    <3>2. \/ task' = [task EXCEPT !["own"][s] = Idle]
          \/ task' = [task EXCEPT !["own"][s] = [Idle EXCEPT !.pc = "sleeping"]]
      BY <3>1 DEF Raised
    <3>3. \A r \in Runner("own") : \/ task'["own"][r] = task["own"][r]
                                   \/ task'["own"][r].pc \in {"none", "sleeping", "reading"}
      BY <1>0, <1>b, <3>2
    <3>4. closed'
      BY <2>2, <2>4
    <3> QED BY <1>c, <3>1, <3>3, <3>4, RestKeeps
  <2> QED BY <1>2, <2>1, <2>3, <2>4
<1>3. CASE Stop /\ timer["own"] # 0 /\ Drained("own")
  <2>1. closed' /\ buffer' = buffer /\ rows' = rows /\ job' = job
    BY <1>3 DEF Stop, Drained, tables
  <2>2. \A r \in Runner("own") : task'["own"][r] =
           IF r = Drainer THEN [Idle EXCEPT !.pc = "reading"]
           ELSE IF r = timer["own"] THEN Idle ELSE task["own"][r]
    BY <1>0, <1>3 DEF Drained
  <2>3. \A r \in Runner("own") : \/ task'["own"][r] = task["own"][r]
                                 \/ task'["own"][r].pc \in {"none", "sleeping", "reading"}
    BY <1>b, <2>2
  <2> QED BY <1>c, <2>1, <2>3, RestKeeps
<1>4. CASE Gone
  <2>1. buffer' = buffer /\ rows' = rows /\ closed' = closed
        /\ \A r \in Runner("own") : task'["own"][r].pc = "none"
    BY <1>0, <1>b, <1>4 DEF Gone
  <2>2. job'["own"] = IF job["own"].state = "running" THEN [job["own"] EXCEPT !.state = "pending"]
                      ELSE job["own"]
    BY <1>0, <1>4 DEF Gone
  <2>3. Takes(buffer["own"], rows, job'["own"]) /\ (~closed => job'["own"].state = "none")
    <3>1. CASE job["own"].state = "running"
      <4>1. job["own"] \in JobRec
        BY <1>0 DEF JobsInv
      <4>2. job'["own"].parts = job["own"].parts /\ job'["own"].row = job["own"].row
        BY <2>2, <3>1, <4>1 DEF JobRec
      <4>3. closed
        BY <1>c, <3>1
      <4> QED BY <1>c, <3>1, <4>2, <4>3 DEF Takes
    <3>2. CASE job["own"].state # "running"
      BY <1>c, <2>2, <3>2
    <3> QED BY <3>1, <3>2
  <2> QED BY <2>1, <2>3, RestKeeps
<1>5. CASE Start
  <2>1. buffer' = buffer /\ rows' = rows /\ job' = job /\ closed' = closed
    BY <1>5 DEF Start, tables
  <2>2. CASE UNCHANGED <<timer, task>>
    BY <1>c, <2>1, <2>2, RestKeeps
  <2>3. CASE task' = [g \in Group |-> [task[g] EXCEPT ![1] =
                  IF OpenGroup(g) THEN [Idle EXCEPT !.pc = "sleeping"] ELSE Idle]]
    <3>1. \A r \in Runner("own") : \/ task'["own"][r] = task["own"][r]
                                   \/ task'["own"][r].pc \in {"none", "sleeping", "reading"}
      BY <1>0, <1>b, <2>3
    <3> QED BY <1>c, <2>1, <3>1, RestKeeps
  <2> QED BY <1>5, <2>2, <2>3 DEF Start
<1>6. CASE OwnSame
  BY <1>c, <1>6, RestKeeps DEF OwnSame
<1> QED BY <1>1, <1>2, <1>3, <1>4, <1>5, <1>6, WhoCarries DEF OwnMoves

\* The owner's album goes to MAX whole, in the order of its message ids, under one mapping
\* row that every part resolves to, whatever fails or crashes while it is carried, unless a
\* part came after the group was closed (OwnerAlbums.flush, on_telegram_media).
THEOREM AlbumCarriedWhole == Spec => []CarriedWhole
<1> DEFINE Carried == ~late => OneRunner /\ RecordsInv
<1>1. Init => Alone /\ Carried
  <2> SUFFICES ASSUME Init PROVE Alone /\ OneRunner /\ RecordsInv
    OBVIOUS
  <2>1. /\ buffer = [g \in Group |-> [p \in PartOf(g) |-> Absent]] /\ ~Absent.at
        /\ timer = [g \in Group |-> 0] /\ task = [g \in Group |-> [s \in Runner(g) |-> Idle]]
        /\ Idle.pc = "none" /\ phase = "up" /\ drains = {} /\ rows = <<>>
        /\ job = [g \in Group |-> NoJob] /\ NoJob.state = "none" /\ "own" \in Group
    BY Constants DEF Init, Absent, Idle, NoJob
  <2>2. \A g \in Group : Stored(g) = {}
    BY <2>1 DEF Stored
  <2>3. Alone
    BY <2>1, <2>2 DEF Alone
  <2>4. OneRunner
    BY <2>1 DEF OneRunner
  <2>5. In(buffer["own"]) = {}
    <3>1. PartOf("own") = Part
      BY Constants
    <3> QED BY <2>1, <3>1 DEF In
  <2>6. RecordsInv
    <3>1. InOrder(buffer["own"]) /\ UnderOne(buffer["own"], rows)
      BY <2>1, <2>5 DEF InOrder, UnderOne, BoundTo
    <3>2. Takes(buffer["own"], rows, job["own"])
      BY <2>1 DEF Takes
    <3>3. \A s \in Runner("own") : Carries(buffer["own"], rows, task["own"][s])
      BY <2>1, RestCarries
    <3> QED BY <2>1, <2>5, <3>1, <3>2, <3>3 DEF RecordsInv
  <2> QED BY <2>3, <2>4, <2>6
<1>2. Typed /\ Alone /\ Carried /\ [Next]_vars => Alone' /\ Carried'
  <2> SUFFICES ASSUME Typed, Alone, Carried, [Next]_vars PROVE Alone' /\ Carried'
    OBVIOUS
  <2>1. ASSUME ~late'
        PROVE  OneRunner' /\ RecordsInv'
    BY <2>1, HistoryStays, OneRunnerStep, RecordsStep
  <2> QED BY <2>1, AloneStep
<1>3. Typed /\ Carried => CarriedWhole
  <2> SUFFICES ASSUME Typed, RecordsInv, job["own"].state # "none"
      PROVE  /\ Ascending(job["own"].parts, Stored("own"))
             /\ Len(rows) = 1
             /\ \A p \in Stored("own") : buffer["own"][p].row = job["own"].row
                                         /\ job["own"].parts[buffer["own"][p].index] = p
    BY DEF CarriedWhole
  <2>1. In(buffer["own"]) = Stored("own")
    BY OwnParts DEF Typed
  <2>2. /\ Ascending(job["own"].parts, In(buffer["own"])) /\ job["own"].row = 1
        /\ rows # <<>> /\ BoundTo(buffer["own"], 1)
    BY DEF RecordsInv, Takes
  <2>3. Len(rows) = 1 /\ Placed(buffer["own"]) /\ InOrder(buffer["own"])
    BY <2>2 DEF RecordsInv, UnderOne
  <2>4. \A p \in In(buffer["own"]) : job["own"].parts[buffer["own"][p].index] = p
    BY <2>2, <2>3 DEF InOrder, Placed
  <2> QED BY <2>1, <2>2, <2>3, <2>4 DEF BoundTo
<1> QED BY <1>1, <1>2, <1>3, TypedAlways, PTL DEF Spec
=============================================================================
