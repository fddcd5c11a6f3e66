----------------------------- MODULE MCConsole -----------------------------
(***************************************************************************)
(* The console for TLC.  A page is checked one operation at a time and for *)
(* two operations next to each other; what has the same shape as what was  *)
(* taken already behaves the same, whatever its name, and is left out.     *)
(***************************************************************************)
EXTENDS Console, ConsoleTables

Narrow(p, S) == [load   |-> p.load,
                 does   |-> [o \in S |-> p.does[o]],
                 offers |-> [o \in S |-> p.offers[o]]]

\* A page with some of its operations
PageCase == UNION {{<<n, S>> : S \in SUBSET DOMAIN ConsolePages[n].does} :
                     n \in DOMAIN ConsolePages}
Of(c)    == Narrow(ConsolePages[c[1]], c[2])
Shape(c) == [load |-> Of(c).load,
             ops  |-> {<<Of(c).does[o], Of(c).offers[o]>> : o \in c[2]}]

\* Each operation alone; on two pages also any two that differ in the flag
\* they set or in what they leave the list to
Paired == {"Roles", "Products"}
Wanted ==
  {c \in PageCase :
     LET p == ConsolePages[c[1]]
     IN \/ c[2] = {} /\ p.does = <<>>
        \/ Cardinality(c[2]) = 1
        \/ /\ Cardinality(c[2]) = 2 /\ c[1] \in Paired
           /\ Cardinality(Creates(Of(c))) <= 1
           /\ Cardinality({<<p.does[o].busy, p.does[o].then>> : o \in c[2]}) = 2}

Cases == {CHOOSE c \in Wanted : Shape(c) = s : s \in {Shape(d) : d \in Wanted}}

\* TLC evaluates CasePages once, and MCPage wherever Page is looked up.
CasePages == [c \in Cases |-> Of(c)]
MCPage    == LET pages == CasePages IN pages
MCFlow    == ConsoleFlows

\* What a page's operations have to do with each other holds of whole pages.
ASSUME PagesRefresh ==
  \A n \in DOMAIN ConsolePages : Refreshes(ConsolePages[n])
=============================================================================
