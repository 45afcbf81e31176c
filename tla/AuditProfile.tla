---------------------------- MODULE AuditProfile ----------------------------
(***************************************************************************)
(* audit-harness classify: the kinds of repository that the files on disk  *)
(* give away, and the profile of gates that follows from them.  A gate may *)
(* be listed for several kinds; the profile holds each gate once, as the   *)
(* list that ranks it highest has it, and then applies the compliance      *)
(* overlay and the engineer's overrides.                                   *)
(***************************************************************************)
EXTENDS Integers, Sequences, FiniteSets, Functions

CONSTANTS
    GateCount,   \* the gate ids, numbered as they sort
    KindOrder,   \* the kinds of repository a registry may name, sorted
    Dimensions,
    Endings,     \* what a gate id ends in
    Tools,       \* the tools a gate may name
    NoTool

GateIds == 1 .. GateCount
Kinds == Range(KindOrder)
Applicabilities == {"required", "recommended", "conditional", "waived"}
Enforcements == {"blocking", "advisory", "disabled"}

Gate == [id : GateIds, suffix : Endings, dimension : Dimensions, tool : Tools \cup {NoTool},
         applicability : Applicabilities, enforcement : Enforcements]

Registry == [readable : BOOLEAN, base : Seq(Gate), for : [Kinds -> Seq(Gate)],
             promote : SUBSET Dimensions]

\* unreadable: it is there and cannot be opened; garbled: it is not UTF-8;
\* parsed: its lists are inline, or their items indented, as the parser wants them.
Override == [is : {"absent", "unreadable", "garbled", "good"}, parsed : BOOLEAN,
             disable : BOOLEAN, pins : SUBSET Kinds,
             advisory : SUBSET GateIds, disabled : SUBSET GateIds]

\* A package.json: falsy is {}, other is a value that is not an object.
Package == [is : {"absent", "garbled", "falsy", "other", "object"},
            deps : SUBSET {"frontend", "server"}, bin : BOOLEAN, private : BOOLEAN,
            entry : BOOLEAN, servers : BOOLEAN]

Evidence == {"workspace", "SKILL.md", "agents", "hooks", ".mcp.json", "plugin", "marketplace",
             "action", "openapi", "python server", "build file", "C source", "compliance"}

\* subs: the packages/* that have a package.json; subServer: one of them has .mcp.json.
Disk == [files : SUBSET Evidence, root : Package, subs : SUBSET Package, subServer : BOOLEAN,
         override : Override, kill : BOOLEAN, advisory : SUBSET GateIds, registry : Registry]

ASSUME CountAssumption == GateCount \in Nat
ASSUME OrderAssumption == KindOrder \in Seq(Kinds)
\* Every kind that the files can give away is one the registry may name.
ASSUME KindAssumption ==
    {"action", "agent", "api", "cli", "embedded", "frontend", "hook", "library", "marketplace",
     "mcp", "monorepo", "plugin", "regulated", "service", "skill", "unknown"} \subseteq Kinds

VARIABLES
    disk,    \* the repository, the registry and the environment
    stage,   \* of the classifier
    found,   \* the kinds found
    list,    \* the list of gates being merged ...
    pos,     \* ... and the place in it
    byId     \* the gates so far

profileVars == <<disk, stage, found, list, pos, byId>>

-----------------------------------------------------------------------------
(* What the files say. *)

TypeSignals(p) ==
    IF p.is # "object" THEN {}
    ELSE {k \in {"frontend", "service", "cli", "library", "mcp"} :
             \/ k = "frontend" /\ "frontend" \in p.deps
             \/ k = "service" /\ "server" \in p.deps
             \/ k = "cli" /\ p.bin
             \/ k = "library" /\ ~p.private /\ p.entry
             \/ k = "mcp" /\ p.servers}

Embedded(d) == /\ {"build file", "C source"} \subseteq d.files
               /\ d.root.is \notin {"object", "other"}

Marked(d) ==
    LET marks == [monorepo |-> "workspace", skill |-> "SKILL.md", agent |-> "agents",
                  hook |-> "hooks", mcp |-> ".mcp.json", plugin |-> "plugin",
                  marketplace |-> "marketplace", action |-> "action", api |-> "openapi",
                  service |-> "python server", regulated |-> "compliance"]
    IN  {k \in DOMAIN marks : marks[k] \in d.files}

Detected(d) ==
    Marked(d) \cup (UNION {TypeSignals(p) : p \in d.subs \cup {d.root}})
    \cup {k \in {"monorepo"} : d.subs # {}}
    \cup {k \in {"mcp"} : d.subServer}
    \cup {k \in {"embedded"} : Embedded(d)}

\* A file that cannot be read overrides nothing, nor does a list not parsed.
Overrides(d) ==
    LET o == d.override
        Listed(s) == IF o.is = "good" /\ o.parsed THEN s ELSE {}
    IN  [disable |-> o.is = "good" /\ o.disable, pins |-> Listed(o.pins),
         advisory |-> Listed(o.advisory), disabled |-> Listed(o.disabled)]

Killed(d) == Overrides(d).disable \/ d.kill

Named(kinds) == IF kinds = {} THEN {"unknown"} ELSE kinds

-----------------------------------------------------------------------------
(* The union. *)

Rank == [required |-> 3, recommended |-> 2, conditional |-> 1, waived |-> 0]

\* The base, then the list of each kind in their order; a kind that was not
\* found, or that the registry does not know, adds nothing.
Lists(d, kinds) ==
    <<d.registry.base>> \o [i \in DOMAIN KindOrder |->
        IF KindOrder[i] \in Named(kinds) THEN d.registry.for[KindOrder[i]] ELSE <<>>]

\* Mutant: the first list that has a gate decides.
OutranksFirst(g, gates) == g.id \notin DOMAIN gates

\* Mutant: of two entries that rank the same, the later one is kept.
OutranksTies(g, gates) == \/ g.id \notin DOMAIN gates
                          \/ Rank[g.applicability] >= Rank[gates[g.id].applicability]

Outranks(g, gates) == \/ g.id \notin DOMAIN gates
                      \/ Rank[g.applicability] > Rank[gates[g.id].applicability]

Merge(gates, g) ==
    IF Outranks(g, gates)
    THEN [id \in DOMAIN gates \cup {g.id} |-> IF id = g.id THEN g ELSE gates[id]]
    ELSE gates

Promoted(g, d, kinds) ==
    IF "regulated" \in kinds /\ g.dimension \in d.registry.promote
       /\ g.applicability = "recommended"
    THEN [g EXCEPT !.applicability = "required"]
    ELSE g

\* Mutant: the gates that the environment turns down are read and not applied.
ForcedByFile(g, d) ==
    LET o == Overrides(d)
    IN  [g EXCEPT !.enforcement =
            IF g.id \in o.disabled \/ g.applicability = "waived" \/ Killed(d) THEN "disabled"
            ELSE IF g.id \in o.advisory THEN "advisory" ELSE @]

Forced(g, d) ==
    LET o == Overrides(d)
    IN  [g EXCEPT !.enforcement =
            IF g.id \in o.disabled \/ g.applicability = "waived" \/ Killed(d) THEN "disabled"
            ELSE IF g.id \in o.advisory \cup d.advisory THEN "advisory" ELSE @]

Settled(g, d, kinds) == Forced(Promoted(g, d, kinds), d)
Profile == [id \in DOMAIN byId |-> Settled(byId[id], disk, found)]

-----------------------------------------------------------------------------
ProfileInit == /\ stage = "idle"
               /\ found = {}
               /\ list = 1
               /\ pos = 1
               /\ byId = [id \in {} |-> {}]

\* The registry is missing: exit 2.
NoRegistry == /\ stage = "read" /\ ~disk.registry.readable
              /\ stage' = "failed"
              /\ UNCHANGED <<disk, found, list, pos, byId>>

Detect == /\ stage = "read" /\ disk.registry.readable
          /\ found' = Detected(disk) \cup Overrides(disk).pins
          /\ stage' = "merge"
          /\ UNCHANGED <<disk, list, pos, byId>>

TakeGate == /\ stage = "merge" /\ pos <= Len(Lists(disk, found)[list])
            /\ byId' = Merge(byId, Lists(disk, found)[list][pos])
            /\ pos' = pos + 1
            /\ UNCHANGED <<disk, stage, found, list>>

\* Mutant: the place in the list is kept for the next one.
NextListInPlace == /\ stage = "merge" /\ pos > Len(Lists(disk, found)[list])
                   /\ list < Len(Lists(disk, found))
                   /\ list' = list + 1
                   /\ UNCHANGED <<disk, stage, found, pos, byId>>

NextList == /\ stage = "merge" /\ pos > Len(Lists(disk, found)[list])
            /\ list < Len(Lists(disk, found))
            /\ list' = list + 1
            /\ pos' = 1
            /\ UNCHANGED <<disk, stage, found, byId>>

\* At the end the override file, read or not, is hashed; and the name of the
\* repository is asked of the root package.json, whatever it is.
Emit == /\ stage = "merge" /\ pos > Len(Lists(disk, found)[list])
        /\ list = Len(Lists(disk, found))
        /\ stage' = IF disk.override.is = "unreadable" \/ disk.root.is = "other"
                    THEN "failed" ELSE "printed"
        /\ UNCHANGED <<disk, found, list, pos, byId>>

Classify == NoRegistry \/ Detect \/ TakeGate \/ NextList \/ Emit

-----------------------------------------------------------------------------
ProfileTypeOK ==
    /\ disk \in Disk
    /\ stage \in {"idle", "read", "merge", "failed", "printed"}
    /\ found \subseteq Kinds
    /\ list \in Nat \ {0} /\ pos \in Nat \ {0}
    /\ DOMAIN byId \subseteq GateIds
    /\ \A id \in DOMAIN byId : byId[id] \in Gate /\ byId[id].id = id

Passed(i, j) == i < list \/ (i = list /\ j < pos)

Sooner(m, n, i, j) == m < i \/ (m = i /\ n < j)

\* What has been merged is what the lists passed so far give each gate: one of
\* its entries, no entry of it ranks higher, and each sooner one ranks lower.
MergedSoFar ==
    /\ stage \in {"idle", "read"} => list = 1 /\ pos = 1 /\ DOMAIN byId = {}
    /\ stage \in {"merge", "printed"} =>
        LET ls == Lists(disk, found)
        IN  /\ list \in DOMAIN ls
            /\ \A i \in DOMAIN ls : \A j \in DOMAIN ls[i] : Passed(i, j) =>
                   /\ ls[i][j].id \in DOMAIN byId
                   /\ Rank[ls[i][j].applicability] <= Rank[byId[ls[i][j].id].applicability]
            /\ \A id \in DOMAIN byId : \E i \in DOMAIN ls : \E j \in DOMAIN ls[i] :
                   /\ Passed(i, j) /\ ls[i][j] = byId[id]
                   /\ \A m \in DOMAIN ls : \A n \in DOMAIN ls[m] :
                          Sooner(m, n, i, j) /\ ls[m][n].id = id
                          => Rank[ls[m][n].applicability] < Rank[byId[id].applicability]
            /\ stage = "printed" => \A i \in DOMAIN ls : \A j \in DOMAIN ls[i] : Passed(i, j)

\* The profile that is printed holds every gate that the base or a kind found
\* lists, at an applicability no lower than any of these lists gives it; and
\* every gate it holds is one of theirs (resolve_gates).
ProfileIsUnion ==
    stage = "printed" =>
        LET ls == Lists(disk, found)
        IN  /\ \A i \in DOMAIN ls : \A j \in DOMAIN ls[i] :
                   /\ ls[i][j].id \in DOMAIN Profile
                   /\ Rank[ls[i][j].applicability] <= Rank[Profile[ls[i][j].id].applicability]
            /\ \A id \in DOMAIN Profile : \E i \in DOMAIN ls : \E j \in DOMAIN ls[i] :
                   ls[i][j].id = id

\* Of all the entries of its gate in these lists, this one ranks the highest, the
\* first of them where some rank the same.
Leads(ls, i, j) ==
    \A m \in DOMAIN ls : \A n \in DOMAIN ls[m] : ls[m][n].id = ls[i][j].id =>
        IF Sooner(m, n, i, j) THEN Rank[ls[m][n].applicability] < Rank[ls[i][j].applicability]
        ELSE Rank[ls[m][n].applicability] <= Rank[ls[i][j].applicability]

\* The force of a gate is decided by one entry, the first that ranks it highest,
\* and by the engineer: a later kind that ranks it as high, or one that ranks it
\* lower, neither makes the gate block nor keeps it from blocking; and a promotion
\* comes too late to change which entry that is (resolve_gates).
FirstOfHighestDecides ==
    stage = "printed" =>
        LET ls == Lists(disk, found)
            o == Overrides(disk)
        IN  \A i \in DOMAIN ls : \A j \in DOMAIN ls[i] : Leads(ls, i, j) =>
                LET g == ls[i][j]
                IN  Profile[g.id].enforcement =
                        IF g.id \in o.disabled \/ g.applicability = "waived" \/ Killed(disk)
                        THEN "disabled"
                        ELSE IF g.id \in o.advisory \cup disk.advisory THEN "advisory"
                        ELSE g.enforcement
=============================================================================
