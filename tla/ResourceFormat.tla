--------------------------- MODULE ResourceFormat ---------------------------
(***************************************************************************)
(* What the user reads of a resource: SchedulerService.formatResource,     *)
(* formatPercent and absUsagePercent, the formatters of CommonUtil they    *)
(* call, the used capacities among the details of the queue diagram, and   *)
(* the resource cells of the tables (formatResources of the applications   *)
(* and nodes views).                                                       *)
(*                                                                         *)
(* The functions keep no state: the one variable is what the scheduler     *)
(* reported last.  A formatted resource is the sequence of its keys with   *)
(* their printed amounts, a printed amount is hundredths of a unit.        *)
(***************************************************************************)
EXTENDS Integers, Sequences, SequencesExt, ArraySort

CONSTANTS
  KeyOrder,              \* resource types, as localeCompare sorts them
  NamedCpu, NamedMemory, \* those whose label contains cpu, or memory
  Base,                  \* 1000 or 1024
  UnitsLen,              \* number of prefixes
  Amounts,               \* amounts reported
  Usages                 \* used capacities reported, in percent

Keys == ToSet(KeyOrder)
UsageKeys == {"memory", "vcore"}

ASSUME FormatsAssumption ==
  /\ KeyOrder \in Seq(Keys)
  /\ UsageKeys \subseteq Keys
  /\ "vcore" \in NamedCpu \ NamedMemory /\ "memory" \in NamedMemory \ NamedCpu
  /\ NamedCpu \cup NamedMemory \subseteq Keys
  /\ Base \in Nat \ {0, 1} /\ UnitsLen \in Nat
  /\ Amounts \subseteq Nat /\ Usages \subseteq Nat

VARIABLE reported  \* [amount, resource: set of keys, usage: [some of UsageKeys -> percent]]

-----------------------------------------------------------------------------
(* Amounts *)

\* What one of a unit is worth.
Scale[u \in 0..UnitsLen] == IF u = 0 THEN 1 ELSE Base * Scale[u - 1]

\* Divided by Base until less than one Base is left or the prefixes run out.
Unit(v) ==
  LET more[u \in 0..UnitsLen] ==
        IF u < UnitsLen /\ v >= Scale[u + 1] THEN more[u + 1] ELSE u
  IN more[0]

(* mutant: the digits after the second one are cut off *)
PrintedCutOff(v) ==
  LET u == Unit(v) IN [unit |-> u, hundredths |-> (100 * v) \div Scale[u]]

\* At most two digits after the point, rounded half up.
Printed(v) ==
  LET u == Unit(v)
  IN [unit |-> u, hundredths |-> (200 * v + Scale[u]) \div (2 * Scale[u])]

-----------------------------------------------------------------------------
(* Resources *)

Rank(k) ==
  CASE k = "memory" -> 1 [] k = "vcore" -> 2 [] k = "pods" -> 3
    [] k = "ephemeral-storage" -> 4 [] OTHER -> 5

PlaceOf(k) == CHOOSE i \in DOMAIN KeyOrder : KeyOrder[i] = k

(* mutant: by name only *)
ComparedByName(a, b) == PlaceOf(a) < PlaceOf(b)

\* The known types first, the others by name.
ResourcesCompare(a, b) ==
  Rank(a) < Rank(b) \/ (Rank(a) = Rank(b) /\ PlaceOf(a) < PlaceOf(b))

FormatResource(keys) ==
  IF keys = {} THEN <<"n/a">>
  ELSE Sorted(keys, {pair \in keys \X keys : ResourcesCompare(pair[1], pair[2])})

\* formatResources of the tables: a line for every key and for a missing CPU or
\* memory. Its last step moves nothing: it looks for CPU and Memory in text it
\* has put in lower case.
Cell(keys) ==
  (IF keys \cap NamedMemory = {} THEN <<"Memory: n/a">> ELSE <<>>)
    \o (IF keys \cap NamedCpu = {} THEN <<"CPU: n/a">> ELSE <<>>)
    \o FormatResource(keys)

\* The tables with such cells and the lines they leave of one that is folded.
Tables == {"applications", "allocations", "nodes", "allocations of a node"}
FoldedLines(table) == IF table = "allocations" THEN 1 ELSE 2
Folded(keys, table) == SubSeq(Cell(keys), 1, FoldedLines(table))

AboutCpu(line) == line \in NamedCpu \cup {"CPU: n/a"}
AboutMemory(line) == line \in NamedMemory \cup {"Memory: n/a"}

-----------------------------------------------------------------------------
(* Used capacity *)

Greater(a, b) == IF a < b THEN b ELSE a
Used(u, k) == IF k \in DOMAIN u THEN u[k] ELSE 0

(* mutant: only the memory counts *)
MemoryUsagePercent(u) == IF Used(u, "memory") < 100 THEN Used(u, "memory") ELSE 100

\* The most used of the two, cut at 100.
AbsUsagePercent(u) ==
  LET most == Greater(Used(u, "memory"), Used(u, "vcore"))
  IN IF most < 100 THEN most ELSE 100

\* absoluteUsedMemoryColumnFormatter and its CPU twin, for the details of the
\* queue diagram, read what formatPercent wrote: the expression they look for
\* takes 0 to 100.
UsageColumn(u, k) ==
  IF DOMAIN u = {} THEN [text |-> "n/a", percent |-> 0]
  ELSE IF k \in DOMAIN u /\ u[k] <= 100 THEN [text |-> "percent", percent |-> u[k]]
  ELSE [text |-> "wrong format", percent |-> 0]

-----------------------------------------------------------------------------
Usage == UNION {[S -> Usages] : S \in SUBSET UsageKeys}
NoUsage == [k \in {} |-> 0]

Nothing == [amount |-> 0, resource |-> {}, usage |-> NoUsage]

FormatsInit == reported = Nothing
ReportAmount(v) == reported' = [Nothing EXCEPT !.amount = v]
ReportResource(keys) == reported' = [Nothing EXCEPT !.resource = keys]
ReportUsage(u) == reported' = [Nothing EXCEPT !.usage = u]

ReportAgain == reported # Nothing /\ reported' = Nothing

FormatsNext ==
  \/ ReportAgain
  \/ /\ reported = Nothing
     /\ \/ \E v \in Amounts : ReportAmount(v)
        \/ \E keys \in SUBSET Keys : ReportResource(keys)
        \/ \E u \in Usage : ReportUsage(u)

FormatsSpec == FormatsInit /\ [][FormatsNext]_reported

-----------------------------------------------------------------------------
(* Properties *)

\* A printed amount is the reported one to half a hundredth of its unit, its
\* unit leaves no more than one Base of it, and one more never prints as less:
\* also where the unit changes and where rounding reaches the next unit.
AmountsReadTrue ==
  LET v == reported.amount
      p == Printed(v)
      q == Printed(v + 1)
      exact == 100 * v
      read == p.hundredths * Scale[p.unit]
  IN /\ 2 * read <= 2 * exact + Scale[p.unit] /\ 2 * exact <= 2 * read + Scale[p.unit]
     /\ p.unit = UnitsLen \/ p.hundredths <= 100 * Base
     /\ p.unit = 0 \/ p.hundredths >= 100
     /\ read <= q.hundredths * Scale[q.unit]

\* As long as no other resource has memory or CPU in its name, a folded cell of
\* two lines has one about memory and one about CPU, reported or not. The one
\* line of an application's allocations is about memory, except where memory is
\* reported and CPU is not: there it says that CPU is missing.
FoldedCells ==
  LET keys == reported.resource IN
  keys \cap (NamedCpu \cup NamedMemory) \subseteq UsageKeys =>
    \A table \in Tables :
      LET folded == Folded(keys, table) IN
      IF table # "allocations"
      THEN \E i \in {1, 2} : AboutMemory(folded[i]) /\ AboutCpu(folded[3 - i])
      ELSE IF "memory" \in keys /\ "vcore" \notin keys THEN folded[1] = "CPU: n/a"
      ELSE AboutMemory(folded[1])

\* One report of used capacities reaches the user twice: as the bar and colour
\* of a rack, and as two columns of the queue diagram that read it back from
\* text. No column shows more than the rack, and the rack is one of them, but
\* for two cases: nothing is reported and both columns say so, or the rack is
\* full and the column that filled it could not be read (above 100 percent).
RackAgreesWithDiagram ==
  LET column == [k \in UsageKeys |-> UsageColumn(reported.usage, k)]
      rack == AbsUsagePercent(reported.usage)
      read == {k \in UsageKeys : column[k].text = "percent"}
  IN /\ \A k \in read : column[k].percent <= rack
     /\ \/ \E k \in read : column[k].percent = rack
        \/ rack = 0 /\ \A k \in UsageKeys : column[k].text = "n/a"
        \/ rack = 100 /\ \E k \in UsageKeys : column[k].text = "wrong format"

\* The comment on formatResources: CPU and memory elements come first.
CpuAndMemoryFirst ==
  LET cell == Cell(reported.resource)
      first(line) == AboutCpu(line) \/ AboutMemory(line)
  IN \A i, j \in DOMAIN cell : i < j /\ first(cell[j]) => first(cell[i])
=============================================================================
