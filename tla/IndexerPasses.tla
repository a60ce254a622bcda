------------------------------ MODULE IndexerPasses ------------------------------
(***************************************************************************)
(* Indexer with what happens to the ids while a pass goes over them: what a*)
(* single pass does for the rows, and for the owners of vaults, to whom    *)
(* alerts are sent.  late and stirred are history variables: every step of *)
(* Indexer goes on as it is, and what it does to the pages of one process, *)
(* whichever, is noted beside it.                                          *)
(***************************************************************************)
EXTENDS Indexer

CONSTANT
    Observed    \* the process whose pass is observed

ASSUME ObservedAssumption == Observed \in Processes

VARIABLES
    late,       \* ids that came into the subgraph since the pass began, or that a
                \* reorganisation moved up by undoing a smaller one (history)
    stirred     \* these, and ids whose owner has changed since, in the subgraph or
                \* by a commit of another process (history)

passVars == <<vars, late, stirred>>

Entered(f, g) == DOMAIN g \ DOMAIN f
MovedUp(f, g) == {i \in DOMAIN g : \E j \in DOMAIN f \ DOMAIN g : j < i}
Reassigned(f, g) == {i \in DOMAIN f \cap DOMAIN g : f[i] # g[i]}

SamePass ==
    /\ at[Observed] # "idle" /\ at'[Observed] # "idle"
    /\ kind'[Observed] = kind[Observed] /\ studio'[Observed] = studio[Observed]

(* A step commits rows of the process only if it is done with its page.    *)
RewrittenByOthers ==
    IF page'[Observed] # page[Observed] THEN {}
    ELSE Reassigned(db[kind[Observed]], db'[kind[Observed]])

Note ==
    LET f == sg[kind[Observed]]
        g == sg'[kind[Observed]]
    IN  IF SamePass
        THEN /\ late' = DOMAIN g \cap (late \cup Entered(f, g) \cup MovedUp(f, g))
             /\ stirred' = DOMAIN g \cap
                    (stirred \cup late' \cup Reassigned(f, g) \cup RewrittenByOthers)
        ELSE late' = {} /\ stirred' = {}

InitPasses == Init /\ late = {} /\ stirred = {}

NextPasses == Next /\ Note

SpecPasses == InitPasses /\ [][NextPasses]_passVars

FairSpecPasses == SpecPasses /\ Fairness

(***************************************************************************)
(* Properties.                                                             *)
(***************************************************************************)

(* A pass that ends normally has stored every entity of the subgraph but   *)
(* those that came in meanwhile and those that moved up because an entity  *)
(* with a smaller id was undone: however the pages shift as the subgraph   *)
(* grows, and whatever other ticks write (main.py:171-223, 256-324).       *)
CleanPassIsComplete ==
    [][LET k == kind[Observed]
       IN  Passed(Observed) => DOMAIN sg[k] \ late \subseteq DOMAIN db'[k]]_passVars

SameOwner(v) == v \in DOMAIN db["vaults"] /\ db["vaults"][v] = sg["vaults"][v]

(* Such a pass over vaults also leaves each with the owner that the        *)
(* subgraph has, whatever an older tick had written, unless it moved up,   *)
(* that owner changes or another process writes one while the pass goes on;*)
(* a pass begun anew from the Studio URL counts from there                 *)
(* (main.py:180-223).                                                      *)
PassSettlesOwners ==
    [][Passed(Observed) /\ kind[Observed] = "vaults" =>
          \A v \in DOMAIN sg["vaults"] \ stirred :
              sg["vaults"][v] # NoOwner => SameOwner(v)']_passVars
===================================================================================
