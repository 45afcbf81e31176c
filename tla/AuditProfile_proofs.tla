------------------------ MODULE AuditProfile_proofs ------------------------
(***************************************************************************)
(* Lemmas about the classifier: its union, and what merging keeps.         *)
(***************************************************************************)
EXTENDS AuditProfile, SequenceTheorems, TLAPS

LEMMA RanksAreNumbers == \A a \in Applicabilities : Rank[a] \in Nat
BY DEF Applicabilities, Rank

LEMMA KindsFoundAreKnown ==
    ASSUME NEW d \in Disk
    PROVE  Detected(d) \cup Overrides(d).pins \subseteq Kinds
<1>1. Overrides(d).pins \subseteq Kinds
  <2>1. d.override \in Override  BY DEF Disk
  <2>2. d.override.pins \subseteq Kinds  BY <2>1 DEF Override
  <2>3. Overrides(d).pins =
            IF d.override.is = "good" /\ d.override.parsed THEN d.override.pins ELSE {}
    BY Zenon DEF Overrides
  <2> QED  BY <2>2, <2>3
<1>2. Marked(d) \subseteq Kinds
  BY KindAssumption DEF Marked
<1>3. \A p : TypeSignals(p) \subseteq Kinds
  BY KindAssumption DEF TypeSignals
<1>4. Detected(d) \subseteq Kinds
  <2>1. UNION {TypeSignals(p) : p \in d.subs \cup {d.root}} \subseteq Kinds  BY <1>3
  <2>2. "monorepo" \in Kinds /\ "mcp" \in Kinds /\ "embedded" \in Kinds  BY KindAssumption
  <2> DEFINE T == UNION {TypeSignals(p) : p \in d.subs \cup {d.root}}
  <2>3. Detected(d) = Marked(d) \cup T \cup {k \in {"monorepo"} : d.subs # {}}
                      \cup {k \in {"mcp"} : d.subServer} \cup {k \in {"embedded"} : Embedded(d)}
    BY DEF Detected
  <2> HIDE DEF T
  <2> QED  BY <1>2, <2>1, <2>2, <2>3 DEF T
<1> QED  BY <1>1, <1>4

LEMMA ListsAreLists ==
    ASSUME NEW d \in Disk, NEW kinds
    PROVE  Lists(d, kinds) \in Seq(Seq(Gate)) /\ Len(Lists(d, kinds)) = 1 + Len(KindOrder)
<1> DEFINE rest == [i \in DOMAIN KindOrder |->
        IF KindOrder[i] \in Named(kinds) THEN d.registry.for[KindOrder[i]] ELSE <<>>]
<1>1. d.registry \in Registry  BY DEF Disk
<1>2. d.registry.base \in Seq(Gate) /\ d.registry.for \in [Kinds -> Seq(Gate)]
  BY <1>1 DEF Registry
<1>3. Len(KindOrder) \in Nat /\ DOMAIN KindOrder = 1 .. Len(KindOrder)
      /\ \A i \in DOMAIN KindOrder : KindOrder[i] \in Kinds
  BY OrderAssumption
<1>4. <<>> \in Seq(Gate)  OBVIOUS
<1>5. \A i \in 1 .. Len(KindOrder) : rest[i] \in Seq(Gate)
  BY <1>2, <1>3, <1>4
<1>6. rest \in Seq(Seq(Gate)) /\ Len(rest) = Len(KindOrder)
  <2>1. rest \in [1 .. Len(KindOrder) -> Seq(Gate)]  BY <1>3, <1>5
  <2> HIDE DEF rest
  <2> QED  BY <1>3, <2>1
<1>7. Lists(d, kinds) = <<d.registry.base>> \o rest
  BY DEF Lists
<1> HIDE DEF rest
<1>8. <<d.registry.base>> \in Seq(Seq(Gate)) /\ Len(<<d.registry.base>>) = 1
  BY <1>2
<1> QED  BY <1>3, <1>6, <1>7, <1>8

\* Each entry of a list is a gate.
LEMMA EntriesAreGates ==
    ASSUME NEW d \in Disk, NEW kinds,
           NEW i \in DOMAIN Lists(d, kinds), NEW j \in DOMAIN Lists(d, kinds)[i]
    PROVE  Lists(d, kinds)[i][j] \in Gate
<1>1. Lists(d, kinds)[i] \in Seq(Gate)  BY ListsAreLists
<1> QED  BY <1>1

\* What a merge makes of the gates so far.
LEMMA MergeRaises ==
    ASSUME NEW gates, NEW g \in Gate,
           \A id \in DOMAIN gates : gates[id] \in Gate /\ gates[id].id = id
    PROVE  /\ DOMAIN Merge(gates, g) = DOMAIN gates \cup {g.id}
           /\ \A id \in DOMAIN Merge(gates, g) :
                  Merge(gates, g)[id] \in Gate /\ Merge(gates, g)[id].id = id
           /\ Rank[g.applicability] <= Rank[Merge(gates, g)[g.id].applicability]
           /\ \A id \in DOMAIN gates :
                  Rank[gates[id].applicability] <= Rank[Merge(gates, g)[id].applicability]
           /\ \A id \in DOMAIN Merge(gates, g) :
                  \/ /\ id = g.id /\ Merge(gates, g)[id] = g
                     /\ id \in DOMAIN gates =>
                            Rank[gates[id].applicability] < Rank[g.applicability]
                  \/ id \in DOMAIN gates /\ Merge(gates, g)[id] = gates[id]
<1>1. \A x \in Gate : x.applicability \in Applicabilities /\ Rank[x.applicability] \in Nat
  BY RanksAreNumbers DEF Gate
<1>2. CASE Outranks(g, gates)
  <2>1. Merge(gates, g) = [id \in DOMAIN gates \cup {g.id} |-> IF id = g.id THEN g ELSE gates[id]]
    BY <1>2 DEF Merge
  <2>2. g.id \in DOMAIN gates => Rank[g.applicability] > Rank[gates[g.id].applicability]
    BY <1>2 DEF Outranks
  <2>3. DOMAIN Merge(gates, g) = DOMAIN gates \cup {g.id}  BY <2>1
  <2>4. Merge(gates, g)[g.id] = g  BY <2>1
  <2>5. \A id \in DOMAIN gates : id # g.id => Merge(gates, g)[id] = gates[id]  BY <2>1
  <2>6. \A id \in DOMAIN gates :
            Rank[gates[id].applicability] <= Rank[Merge(gates, g)[id].applicability]
    <3> TAKE id \in DOMAIN gates
    <3>1. gates[id] \in Gate  OBVIOUS
    <3>2. Rank[gates[id].applicability] \in Nat /\ Rank[g.applicability] \in Nat  BY <1>1, <3>1
    <3>3. CASE id = g.id  BY <2>2, <2>4, <3>2, <3>3
    <3>4. CASE id # g.id  BY <2>5, <3>2, <3>4
    <3> QED  BY <3>3, <3>4
  <2>7. Rank[g.applicability] <= Rank[Merge(gates, g)[g.id].applicability]
    BY <1>1, <2>4
  <2>8. g.id \in DOMAIN gates => Rank[gates[g.id].applicability] < Rank[g.applicability]
    BY <1>1, <2>2
  <2> QED  BY <2>3, <2>4, <2>5, <2>6, <2>7, <2>8
<1>3. CASE ~Outranks(g, gates)
  <2>1. Merge(gates, g) = gates  BY <1>3 DEF Merge
  <2>2. g.id \in DOMAIN gates /\ ~(Rank[g.applicability] > Rank[gates[g.id].applicability])
    BY <1>3 DEF Outranks
  <2>3. Rank[g.applicability] <= Rank[gates[g.id].applicability]
    <3>1. gates[g.id] \in Gate  BY <2>2
    <3>2. Rank[gates[g.id].applicability] \in Nat /\ Rank[g.applicability] \in Nat  BY <1>1, <3>1
    <3> QED  BY <2>2, <3>2
  <2>4. \A id \in DOMAIN gates : Rank[gates[id].applicability] <= Rank[gates[id].applicability]
    BY <1>1
  <2>5. DOMAIN gates = DOMAIN gates \cup {g.id}  BY <2>2
  <2> QED  BY <2>1, <2>2, <2>3, <2>4, <2>5
<1> QED  BY <1>2, <1>3

\* Settling a gate moves its applicability up and its enforcement down.
LEMMA SettledKeeps ==
    ASSUME NEW g \in Gate, NEW d, NEW kinds
    PROVE  /\ Settled(g, d, kinds) \in Gate
           /\ Settled(g, d, kinds).id = g.id
           /\ Rank[g.applicability] <= Rank[Settled(g, d, kinds).applicability]
           /\ Settled(g, d, kinds).enforcement = "blocking" =>
                  /\ g.enforcement = "blocking"
                  /\ g.id \notin Overrides(d).advisory \cup Overrides(d).disabled
                  /\ g.id \notin d.advisory
<1> DEFINE p == Promoted(g, d, kinds)
<1>1. /\ p \in Gate /\ p.id = g.id /\ p.enforcement = g.enforcement
      /\ Rank[g.applicability] <= Rank[p.applicability]
  <2>1. CASE "regulated" \in kinds /\ g.dimension \in d.registry.promote
             /\ g.applicability = "recommended"
    <3>1. p = [g EXCEPT !.applicability = "required"]  BY <2>1 DEF Promoted
    <3>2. p \in Gate /\ p.id = g.id /\ p.enforcement = g.enforcement /\ p.applicability = "required"
      BY <3>1 DEF Gate, Applicabilities
    <3> QED  BY <2>1, <3>2 DEF Rank
  <2>2. CASE ~("regulated" \in kinds /\ g.dimension \in d.registry.promote
               /\ g.applicability = "recommended")
    <3>1. p = g  BY <2>2 DEF Promoted
    <3>2. Rank[g.applicability] \in Nat  BY RanksAreNumbers DEF Gate
    <3> QED  BY <3>1, <3>2
  <2> QED  BY <2>1, <2>2
<1> HIDE DEF p
<1> DEFINE o == Overrides(d)
<1> DEFINE e == IF p.id \in o.disabled \/ p.applicability = "waived" \/ Killed(d) THEN "disabled"
                ELSE IF p.id \in o.advisory \cup d.advisory THEN "advisory" ELSE p.enforcement
<1>2. Settled(g, d, kinds) = [p EXCEPT !.enforcement = e]
  BY DEF Settled, Forced, p
<1>3. e \in Enforcements
  BY <1>1 DEF Gate, Enforcements
<1>4. e = "blocking" => /\ p.enforcement = "blocking"
                        /\ p.id \notin o.advisory \cup o.disabled /\ p.id \notin d.advisory
  OBVIOUS
<1> HIDE DEF e
<1>5. /\ [p EXCEPT !.enforcement = e] \in Gate
      /\ [p EXCEPT !.enforcement = e].id = p.id
      /\ [p EXCEPT !.enforcement = e].applicability = p.applicability
      /\ [p EXCEPT !.enforcement = e].enforcement = e
  BY <1>1, <1>3 DEF Gate
<1> QED  BY <1>1, <1>2, <1>4, <1>5

(***************************************************************************)
(* The loop.                                                               *)
(***************************************************************************)
LEMMA DetectMerged ==
    ASSUME ProfileTypeOK, MergedSoFar, Detect
    PROVE  ProfileTypeOK' /\ MergedSoFar'
<1>1. disk \in Disk /\ list = 1 /\ pos = 1 /\ DOMAIN byId = {}
  BY DEF ProfileTypeOK, MergedSoFar, Detect
<1>2. found' \subseteq Kinds
  BY <1>1, KindsFoundAreKnown DEF Detect
<1>3. ProfileTypeOK'
  BY <1>2 DEF ProfileTypeOK, Detect
<1> DEFINE ls == Lists(disk, found')
<1>4. list' = 1 /\ pos' = 1 /\ byId' = byId /\ disk' = disk /\ stage' = "merge"
  BY <1>1 DEF Detect
<1>5. Len(ls) = 1 + Len(KindOrder) /\ DOMAIN ls = 1 .. Len(ls) /\ Len(KindOrder) \in Nat
      /\ \A i \in DOMAIN ls : DOMAIN ls[i] = 1 .. Len(ls[i])
  BY <1>1, ListsAreLists, OrderAssumption
<1>6. \A i \in DOMAIN ls : \A j \in DOMAIN ls[i] : ~(i < 1 \/ (i = 1 /\ j < 1))
  BY <1>5
<1>7. 1 \in DOMAIN ls
  BY <1>5
<1> HIDE DEF ls
<1>8. MergedSoFar'
  BY <1>1, <1>4, <1>6, <1>7 DEF MergedSoFar, Passed, ls
<1> QED  BY <1>3, <1>8

LEMMA TakeGateMerged ==
    ASSUME ProfileTypeOK, MergedSoFar, TakeGate
    PROVE  ProfileTypeOK' /\ MergedSoFar'
<1> DEFINE ls == Lists(disk, found)
<1> DEFINE g == ls[list][pos]
<1> DEFINE m == Merge(byId, g)
<1>1. disk \in Disk /\ list \in Nat /\ pos \in Nat \ {0} /\ pos <= Len(ls[list])
  BY DEF ProfileTypeOK, TakeGate
<1>2. stage = "merge" /\ list \in DOMAIN ls
  BY DEF MergedSoFar, TakeGate
<1>3. /\ DOMAIN ls = 1 .. Len(ls)
      /\ \A i \in DOMAIN ls : ls[i] \in Seq(Gate) /\ DOMAIN ls[i] = 1 .. Len(ls[i]) /\ Len(ls[i]) \in Nat
  BY <1>1, ListsAreLists
<1>4. pos \in DOMAIN ls[list] /\ g \in Gate
  BY <1>1, <1>2, <1>3, EntriesAreGates
<1>5. \A id \in DOMAIN byId : byId[id] \in Gate /\ byId[id].id = id
  BY DEF ProfileTypeOK
<1>6. /\ byId' = m /\ pos' = pos + 1
      /\ UNCHANGED <<disk, stage, found, list>>
  BY DEF TakeGate
<1> HIDE DEF ls, g, m
<1>7. /\ DOMAIN m = DOMAIN byId \cup {g.id}
      /\ \A id \in DOMAIN m : m[id] \in Gate /\ m[id].id = id
      /\ Rank[g.applicability] <= Rank[m[g.id].applicability]
      /\ \A id \in DOMAIN byId : Rank[byId[id].applicability] <= Rank[m[id].applicability]
      /\ \A id \in DOMAIN m :
             \/ /\ id = g.id /\ m[id] = g
                /\ id \in DOMAIN byId => Rank[byId[id].applicability] < Rank[g.applicability]
             \/ id \in DOMAIN byId /\ m[id] = byId[id]
  BY <1>4, <1>5, MergeRaises DEF m
<1>8. ProfileTypeOK'
  <2>1. g.id \in GateIds  BY <1>4 DEF Gate
  <2> QED  BY <1>1, <1>6, <1>7, <2>1 DEF ProfileTypeOK
<1> DEFINE P(i, j) == i < list \/ (i = list /\ j < pos)
<1> DEFINE Q(i, j) == i < list \/ (i = list /\ j < pos + 1)
<1>9. \A i \in DOMAIN ls : \A j \in DOMAIN ls[i] : Q(i, j) <=> P(i, j) \/ (i = list /\ j = pos)
  BY <1>1, <1>3
<1>10. Q(list, pos)  BY <1>1
<1> DEFINE Alone(x, i, j) ==
               \A k \in DOMAIN ls : \A n \in DOMAIN ls[k] :
                   Sooner(k, n, i, j) /\ ls[k][n].id = x.id
                   => Rank[ls[k][n].applicability] < Rank[x.applicability]
<1>11. /\ \A i \in DOMAIN ls : \A j \in DOMAIN ls[i] : P(i, j) =>
              /\ ls[i][j].id \in DOMAIN byId
              /\ Rank[ls[i][j].applicability] <= Rank[byId[ls[i][j].id].applicability]
       /\ \A id \in DOMAIN byId : \E i \in DOMAIN ls : \E j \in DOMAIN ls[i] :
              P(i, j) /\ ls[i][j] = byId[id] /\ Alone(byId[id], i, j)
  BY <1>2, <1>5 DEF MergedSoFar, Passed, ls
<1>12. \A i \in DOMAIN ls : \A j \in DOMAIN ls[i] : i = list /\ j = pos => ls[i][j] = g
  BY DEF g
<1>17. \A i \in DOMAIN ls : \A j \in DOMAIN ls[i] : Sooner(i, j, list, pos) => P(i, j)
  BY DEF Sooner
<1>18. \A i \in DOMAIN ls : \A j \in DOMAIN ls[i] : ls[i][j] \in Gate
  BY <1>1, EntriesAreGates DEF ls
<1> HIDE DEF P, Q
<1>19. (g.id \in DOMAIN byId => Rank[byId[g.id].applicability] < Rank[g.applicability])
       => Alone(g, list, pos)
  <2> SUFFICES ASSUME g.id \in DOMAIN byId => Rank[byId[g.id].applicability] < Rank[g.applicability],
                      NEW k \in DOMAIN ls, NEW n \in DOMAIN ls[k],
                      Sooner(k, n, list, pos), ls[k][n].id = g.id
               PROVE  Rank[ls[k][n].applicability] < Rank[g.applicability]
    OBVIOUS
  <2>1. /\ g.id \in DOMAIN byId
        /\ Rank[ls[k][n].applicability] <= Rank[byId[g.id].applicability]
    BY <1>11, <1>17
  <2>2. ls[k][n] \in Gate /\ byId[g.id] \in Gate
    BY <1>5, <1>18, <2>1
  <2>3. /\ Rank[ls[k][n].applicability] \in Nat /\ Rank[g.applicability] \in Nat
        /\ Rank[byId[g.id].applicability] \in Nat
    BY <1>4, <2>2, RanksAreNumbers DEF Gate
  <2> QED  BY <2>1, <2>3
<1> HIDE DEF Alone
<1>13. \A i \in DOMAIN ls : \A j \in DOMAIN ls[i] : Q(i, j) =>
              /\ ls[i][j].id \in DOMAIN m
              /\ Rank[ls[i][j].applicability] <= Rank[m[ls[i][j].id].applicability]
  <2> TAKE i \in DOMAIN ls
  <2> TAKE j \in DOMAIN ls[i]
  <2> HAVE Q(i, j)
  <2>1. CASE i = list /\ j = pos  BY <1>7, <1>12, <2>1
  <2>2. CASE P(i, j)
    <3> DEFINE id == ls[i][j].id
    <3>1. id \in DOMAIN byId /\ Rank[ls[i][j].applicability] <= Rank[byId[id].applicability]
      BY <1>11, <2>2
    <3>2. Rank[byId[id].applicability] <= Rank[m[id].applicability] /\ id \in DOMAIN m
      BY <1>7, <3>1
    <3>3. ls[i][j] \in Gate /\ byId[id] \in Gate /\ m[id] \in Gate
      BY <1>1, <1>5, <1>7, <3>1, <3>2, EntriesAreGates DEF ls
    <3>4. /\ Rank[ls[i][j].applicability] \in Nat /\ Rank[byId[id].applicability] \in Nat
          /\ Rank[m[id].applicability] \in Nat
      BY <3>3, RanksAreNumbers DEF Gate
    <3> HIDE DEF id
    <3>5. Rank[ls[i][j].applicability] <= Rank[m[id].applicability]
      BY <3>1, <3>2, <3>4
    <3> QED  BY <3>2, <3>5 DEF id
  <2> QED  BY <1>9, <2>1, <2>2
<1>14. \A id \in DOMAIN m : \E i \in DOMAIN ls : \E j \in DOMAIN ls[i] :
              Q(i, j) /\ ls[i][j] = m[id] /\ Alone(m[id], i, j)
  <2> TAKE id \in DOMAIN m
  <2>1. CASE /\ id = g.id /\ m[id] = g
             /\ id \in DOMAIN byId => Rank[byId[id].applicability] < Rank[g.applicability]
    BY <1>2, <1>4, <1>10, <1>19, <2>1 DEF g
  <2>2. CASE id \in DOMAIN byId /\ m[id] = byId[id]
    <3>1. PICK i \in DOMAIN ls : \E j \in DOMAIN ls[i] :
                 P(i, j) /\ ls[i][j] = byId[id] /\ Alone(byId[id], i, j)
      BY <1>11, <2>2
    <3>2. PICK j \in DOMAIN ls[i] : P(i, j) /\ ls[i][j] = byId[id] /\ Alone(byId[id], i, j)
      BY <3>1
    <3>3. Q(i, j)  BY <1>9, <3>2
    <3> QED  BY <2>2, <3>2, <3>3
  <2> QED  BY <1>7, <2>1, <2>2
<1>15. ls' = ls  BY <1>6 DEF ls
<1>16. MergedSoFar'
  BY <1>2, <1>6, <1>7, <1>13, <1>14 DEF MergedSoFar, Passed, ls, Q, Alone
<1> QED  BY <1>8, <1>16

\* Where the loop stands at the end of a list, it has passed all of it.
LEMMA PassedAtEnd ==
    ASSUME ProfileTypeOK, MergedSoFar, stage = "merge", pos > Len(Lists(disk, found)[list]),
           NEW i \in DOMAIN Lists(disk, found), NEW j \in DOMAIN Lists(disk, found)[i]
    PROVE  /\ Passed(i, j) <=> i <= list
           /\ i \in 1 .. Len(Lists(disk, found)) /\ j \in Nat \ {0}
           /\ Len(Lists(disk, found)) \in Nat
<1> DEFINE ls == Lists(disk, found)
<1>1. disk \in Disk /\ list \in Nat /\ pos \in Nat  BY DEF ProfileTypeOK
<1>2. ls \in Seq(Seq(Gate))  BY <1>1, ListsAreLists
<1>3. DOMAIN ls = 1 .. Len(ls) /\ Len(ls) \in Nat /\ ls[i] \in Seq(Gate)  BY <1>2
<1>4. DOMAIN ls[i] = 1 .. Len(ls[i]) /\ Len(ls[i]) \in Nat  BY <1>3
<1>5. i = list => j < pos
  BY <1>1, <1>4
<1>6. i \in 1 .. Len(ls) /\ j \in Nat \ {0}  BY <1>3, <1>4
<1> HIDE DEF ls
<1>7. Passed(i, j) <=> i <= list
  BY <1>1, <1>3, <1>5, <1>6 DEF Passed
<1> QED  BY <1>3, <1>6, <1>7 DEF ls

LEMMA NextListMerged ==
    ASSUME ProfileTypeOK, MergedSoFar, NextList
    PROVE  ProfileTypeOK' /\ MergedSoFar'
<1> DEFINE ls == Lists(disk, found)
<1>1. /\ stage = "merge" /\ pos > Len(ls[list]) /\ list < Len(ls)
      /\ list' = list + 1 /\ pos' = 1 /\ UNCHANGED <<disk, stage, found, byId>>
  BY DEF NextList
<1>2. disk \in Disk /\ list \in Nat \ {0}  BY DEF ProfileTypeOK
<1>3. DOMAIN ls = 1 .. Len(ls) /\ Len(ls) \in Nat  BY <1>2, ListsAreLists
<1>4. \A i \in DOMAIN ls : \A j \in DOMAIN ls[i] :
          (i < list + 1 \/ (i = list + 1 /\ j < 1)) <=> Passed(i, j)
  <2> TAKE i \in DOMAIN ls
  <2> TAKE j \in DOMAIN ls[i]
  <2>1. (Passed(i, j) <=> i <= list) /\ i \in 1 .. Len(ls) /\ j \in Nat \ {0}
    BY <1>1, PassedAtEnd
  <2> HIDE DEF ls
  <2> QED  BY <1>2, <1>3, <2>1
<1>5. ProfileTypeOK'
  <2>1. list + 1 \in Nat \ {0} /\ 1 \in Nat \ {0}  BY <1>2
  <2> QED  BY <1>1, <2>1 DEF ProfileTypeOK
<1>6. list + 1 \in DOMAIN ls
  <2> HIDE DEF ls
  <2> QED  BY <1>1, <1>2, <1>3
<1> DEFINE Alone(id, i, j) ==
               \A k \in DOMAIN ls : \A n \in DOMAIN ls[k] :
                   Sooner(k, n, i, j) /\ ls[k][n].id = id
                   => Rank[ls[k][n].applicability] < Rank[byId[id].applicability]
<1>7. /\ \A i \in DOMAIN ls : \A j \in DOMAIN ls[i] : Passed(i, j) =>
              /\ ls[i][j].id \in DOMAIN byId
              /\ Rank[ls[i][j].applicability] <= Rank[byId[ls[i][j].id].applicability]
      /\ \A id \in DOMAIN byId : \E i \in DOMAIN ls : \E j \in DOMAIN ls[i] :
              Passed(i, j) /\ ls[i][j] = byId[id] /\ Alone(id, i, j)
  BY <1>1 DEF MergedSoFar
<1>8. (\A i \in DOMAIN ls : \A j \in DOMAIN ls[i] :
          (i < list + 1 \/ (i = list + 1 /\ j < 1)) =>
              /\ ls[i][j].id \in DOMAIN byId
              /\ Rank[ls[i][j].applicability] <= Rank[byId[ls[i][j].id].applicability])
      /\ \A id \in DOMAIN byId : \E i \in DOMAIN ls : \E j \in DOMAIN ls[i] :
              /\ i < list + 1 \/ (i = list + 1 /\ j < 1)
              /\ ls[i][j] = byId[id] /\ Alone(id, i, j)
  <2> HIDE DEF ls, Alone
  <2> QED  BY <1>4, <1>7
<1> HIDE DEF ls
<1>9. MergedSoFar'
  BY <1>1, <1>6, <1>8 DEF MergedSoFar, Passed, ls, Alone
<1> QED  BY <1>5, <1>9

LEMMA EmitMerged ==
    ASSUME ProfileTypeOK, MergedSoFar, Emit
    PROVE  ProfileTypeOK' /\ MergedSoFar'
<1> DEFINE ls == Lists(disk, found)
<1>1. /\ stage = "merge" /\ pos > Len(ls[list]) /\ list = Len(ls)
      /\ stage' \in {"failed", "printed"} /\ UNCHANGED <<disk, found, list, pos, byId>>
  BY DEF Emit
<1>2. ProfileTypeOK'
  BY <1>1 DEF ProfileTypeOK
<1>3. \A i \in DOMAIN ls : \A j \in DOMAIN ls[i] : Passed(i, j)
  <2> TAKE i \in DOMAIN ls
  <2> TAKE j \in DOMAIN ls[i]
  <2>1. (Passed(i, j) <=> i <= list) /\ i \in 1 .. Len(ls) /\ Len(ls) \in Nat
    BY <1>1, PassedAtEnd
  <2> HIDE DEF ls
  <2> QED  BY <1>1, <2>1
<1>4. MergedSoFar'
  BY <1>1, <1>3 DEF MergedSoFar, Passed
<1> QED  BY <1>2, <1>4

LEMMA ProfileStutters ==
    ASSUME ProfileTypeOK, MergedSoFar, UNCHANGED profileVars
    PROVE  ProfileTypeOK' /\ MergedSoFar' /\ Profile' = Profile
<1> DEFINE ls == Lists(disk, found)
<1>1. UNCHANGED <<disk, stage, found, list, pos, byId>>  BY DEF profileVars
<1>2. ls' = ls  BY <1>1 DEF ls
<1>3. ProfileTypeOK'  BY <1>1 DEF ProfileTypeOK
<1>4. Profile' = Profile  BY <1>1 DEF Profile
<1>5. \A i, j : Passed(i, j)' <=> Passed(i, j)  BY <1>1 DEF Passed
<1> HIDE DEF ls
<1>6. MergedSoFar'  BY <1>1, <1>2, <1>5 DEF MergedSoFar, ls
<1> QED  BY <1>3, <1>4, <1>6

\* Every step of the classifier keeps its working state and what it has merged.
LEMMA ClassifyKeeps ==
    ASSUME ProfileTypeOK, MergedSoFar, Classify
    PROVE  ProfileTypeOK' /\ MergedSoFar' /\ UNCHANGED disk
<1>1. CASE NoRegistry
  BY <1>1 DEF NoRegistry, ProfileTypeOK, MergedSoFar
<1>2. CASE Detect  BY <1>2, DetectMerged DEF Detect
<1>3. CASE TakeGate  BY <1>3, TakeGateMerged DEF TakeGate
<1>4. CASE NextList  BY <1>4, NextListMerged DEF NextList
<1>5. CASE Emit  BY <1>5, EmitMerged DEF Emit
<1> QED  BY <1>1, <1>2, <1>3, <1>4, <1>5 DEF Classify

\* What has been merged when the profile is printed is the union.
LEMMA MergedIsUnion ==
    ASSUME ProfileTypeOK, MergedSoFar
    PROVE  ProfileIsUnion
<1> SUFFICES ASSUME stage = "printed" PROVE ProfileIsUnion
  BY DEF ProfileIsUnion
<1> DEFINE ls == Lists(disk, found)
<1>1. \A i \in DOMAIN ls : \A j \in DOMAIN ls[i] :
          /\ ls[i][j].id \in DOMAIN byId
          /\ Rank[ls[i][j].applicability] <= Rank[byId[ls[i][j].id].applicability]
  BY DEF MergedSoFar
<1>2. \A id \in DOMAIN byId : \E i \in DOMAIN ls : \E j \in DOMAIN ls[i] : ls[i][j] = byId[id]
  BY DEF MergedSoFar
<1>3. \A id \in DOMAIN byId : byId[id] \in Gate /\ byId[id].id = id
  BY DEF ProfileTypeOK
<1>4. DOMAIN Profile = DOMAIN byId
      /\ \A id \in DOMAIN byId : Profile[id] = Settled(byId[id], disk, found)
  BY DEF Profile
<1>5. disk \in Disk  BY DEF ProfileTypeOK
<1>6. \A i \in DOMAIN ls : \A j \in DOMAIN ls[i] : ls[i][j] \in Gate
  BY <1>5, EntriesAreGates
<1> HIDE DEF ls
<1>7. \A i \in DOMAIN ls : \A j \in DOMAIN ls[i] :
          Rank[ls[i][j].applicability] <= Rank[Profile[ls[i][j].id].applicability]
  <2> TAKE i \in DOMAIN ls
  <2> TAKE j \in DOMAIN ls[i]
  <2> DEFINE id == ls[i][j].id
  <2>1. id \in DOMAIN byId /\ Rank[ls[i][j].applicability] <= Rank[byId[id].applicability]
    BY <1>1
  <2>2. byId[id] \in Gate /\ ls[i][j] \in Gate  BY <1>3, <1>6, <2>1
  <2>3. Settled(byId[id], disk, found) \in Gate
        /\ Rank[byId[id].applicability] <= Rank[Settled(byId[id], disk, found).applicability]
    BY <2>2, SettledKeeps
  <2>4. Profile[id] = Settled(byId[id], disk, found)  BY <1>4, <2>1
  <2>5. /\ Rank[ls[i][j].applicability] \in Nat /\ Rank[byId[id].applicability] \in Nat
        /\ Rank[Profile[id].applicability] \in Nat
    BY <2>2, <2>3, <2>4, RanksAreNumbers DEF Gate
  <2> HIDE DEF id
  <2>6. Rank[ls[i][j].applicability] <= Rank[Profile[id].applicability]
    BY <2>1, <2>3, <2>4, <2>5
  <2> QED  BY <2>6 DEF id
<1>8. \A id \in DOMAIN Profile : \E i \in DOMAIN ls : \E j \in DOMAIN ls[i] : ls[i][j].id = id
  BY <1>2, <1>3, <1>4
<1> QED  BY <1>1, <1>4, <1>7, <1>8 DEF ProfileIsUnion, ls

\* Settling an entry takes its enforcement from the engineer, or else from it.
LEMMA SettledForce ==
    ASSUME NEW g \in Gate, NEW d, NEW kinds
    PROVE  Settled(g, d, kinds).enforcement =
               IF g.id \in Overrides(d).disabled \/ g.applicability = "waived" \/ Killed(d)
               THEN "disabled"
               ELSE IF g.id \in Overrides(d).advisory \cup d.advisory THEN "advisory"
               ELSE g.enforcement
<1> DEFINE p == Promoted(g, d, kinds)
<1>1. /\ p \in Gate /\ p.id = g.id /\ p.enforcement = g.enforcement
      /\ p.applicability = "waived" <=> g.applicability = "waived"
  <2>1. CASE "regulated" \in kinds /\ g.dimension \in d.registry.promote
             /\ g.applicability = "recommended"
    <3>1. p = [g EXCEPT !.applicability = "required"]  BY <2>1 DEF Promoted
    <3> QED  BY <2>1, <3>1 DEF Gate, Applicabilities
  <2>2. CASE ~("regulated" \in kinds /\ g.dimension \in d.registry.promote
               /\ g.applicability = "recommended")
    BY <2>2 DEF Promoted
  <2> QED  BY <2>1, <2>2
<1> HIDE DEF p
<1> DEFINE e == IF p.id \in Overrides(d).disabled \/ p.applicability = "waived" \/ Killed(d)
                THEN "disabled"
                ELSE IF p.id \in Overrides(d).advisory \cup d.advisory THEN "advisory"
                ELSE p.enforcement
<1>2. Settled(g, d, kinds) = [p EXCEPT !.enforcement = e]
  BY DEF Settled, Forced, p
<1> HIDE DEF e
<1>3. Settled(g, d, kinds).enforcement = e
  BY <1>1, <1>2 DEF Gate
<1> QED  BY <1>1, <1>3 DEF e

\* The entry that has been merged for a gate is the one that leads.
LEMMA LeaderIsMerged ==
    ASSUME ProfileTypeOK, MergedSoFar, stage = "printed",
           NEW i \in DOMAIN Lists(disk, found), NEW j \in DOMAIN Lists(disk, found)[i],
           Leads(Lists(disk, found), i, j)
    PROVE  LET g == Lists(disk, found)[i][j]
           IN  g.id \in DOMAIN byId /\ byId[g.id] = g
<1> DEFINE ls == Lists(disk, found)
<1> DEFINE g == ls[i][j]
<1>1. disk \in Disk  BY DEF ProfileTypeOK
<1>2. /\ DOMAIN ls \subseteq Nat
      /\ \A k \in DOMAIN ls : DOMAIN ls[k] \subseteq Nat
      /\ \A k \in DOMAIN ls : \A n \in DOMAIN ls[k] : ls[k][n] \in Gate
  <2>1. ls \in Seq(Seq(Gate))  BY <1>1, ListsAreLists
  <2> HIDE DEF ls
  <2>2. DOMAIN ls = 1 .. Len(ls) /\ Len(ls) \in Nat
        /\ \A k \in DOMAIN ls : ls[k] \in Seq(Gate)
    BY <2>1
  <2>3. \A k \in DOMAIN ls : DOMAIN ls[k] = 1 .. Len(ls[k]) /\ Len(ls[k]) \in Nat
    BY <2>2
  <2> QED  BY <2>2, <2>3
<1>3. g.id \in DOMAIN byId /\ Rank[g.applicability] <= Rank[byId[g.id].applicability]
  BY DEF MergedSoFar
<1>4. PICK m \in DOMAIN ls : \E n \in DOMAIN ls[m] :
          /\ ls[m][n] = byId[g.id]
          /\ Sooner(i, j, m, n) => Rank[g.applicability] < Rank[byId[g.id].applicability]
  BY <1>3 DEF MergedSoFar
<1>5. PICK n \in DOMAIN ls[m] :
          /\ ls[m][n] = byId[g.id]
          /\ Sooner(i, j, m, n) => Rank[g.applicability] < Rank[byId[g.id].applicability]
  BY <1>4
<1>6. byId[g.id] \in Gate /\ byId[g.id].id = g.id /\ g \in Gate
  BY <1>2, <1>3 DEF ProfileTypeOK
<1>7. IF Sooner(m, n, i, j) THEN Rank[byId[g.id].applicability] < Rank[g.applicability]
      ELSE Rank[byId[g.id].applicability] <= Rank[g.applicability]
  BY <1>5, <1>6 DEF Leads
<1>8. Rank[g.applicability] \in Nat /\ Rank[byId[g.id].applicability] \in Nat
  BY <1>6, RanksAreNumbers DEF Gate
<1> HIDE DEF ls, g
<1>9. ~Sooner(m, n, i, j) /\ ~Sooner(i, j, m, n)
  BY <1>3, <1>5, <1>7, <1>8
<1>10. m = i /\ n = j
  <2>1. m \in Nat /\ i \in Nat /\ n \in Nat /\ j \in Nat  BY <1>2, <1>4 DEF ls
  <2> QED  BY <1>9, <2>1 DEF Sooner
<1> QED  BY <1>3, <1>5, <1>10 DEF g, ls

\* So that entry decides the force of the gate when the profile is printed.
LEMMA MergedIsFirst ==
    ASSUME ProfileTypeOK, MergedSoFar
    PROVE  FirstOfHighestDecides
<1> SUFFICES ASSUME stage = "printed",
                    NEW i \in DOMAIN Lists(disk, found), NEW j \in DOMAIN Lists(disk, found)[i],
                    Leads(Lists(disk, found), i, j)
             PROVE  LET g == Lists(disk, found)[i][j]
                        o == Overrides(disk)
                    IN  Profile[g.id].enforcement =
                            IF g.id \in o.disabled \/ g.applicability = "waived" \/ Killed(disk)
                            THEN "disabled"
                            ELSE IF g.id \in o.advisory \cup disk.advisory THEN "advisory"
                            ELSE g.enforcement
  BY DEF FirstOfHighestDecides
<1> DEFINE g == Lists(disk, found)[i][j]
<1>1. g.id \in DOMAIN byId /\ byId[g.id] = g  BY LeaderIsMerged
<1>2. g \in Gate  BY EntriesAreGates DEF ProfileTypeOK
<1>3. Profile[g.id] = Settled(g, disk, found)  BY <1>1 DEF Profile
<1> HIDE DEF g
<1>4. Profile[g.id].enforcement =
          IF g.id \in Overrides(disk).disabled \/ g.applicability = "waived" \/ Killed(disk)
          THEN "disabled"
          ELSE IF g.id \in Overrides(disk).advisory \cup disk.advisory THEN "advisory"
          ELSE g.enforcement
  BY <1>2, <1>3, SettledForce
<1> QED  BY <1>4 DEF g
=============================================================================
