-------------------------- MODULE MCResolutionCache --------------------------
(***************************************************************************)
(* Small instances of ResolutionCache: Source cA embeds cB in one of its   *)
(* bodies; its instances and those of cB are on one page or on two.        *)
(***************************************************************************)
EXTENDS ResolutionCache

CONSTANTS cA, cB, lib, i1, i2, p1, p2, leaf, other

Nesting == cA :> {<<cB>>, <<leaf, cB>>} @@ cB :> {<<leaf>>, <<other>>} @@ lib :> {<<leaf>>}

Growing == cA :> {<<leaf>>, <<leaf, leaf>>} @@ cB :> {<<leaf>>} @@ lib :> {<<leaf>>}

InOrder == <<i1, i2>>

TwoPages == i1 :> p1 @@ i2 :> p2

OnePage == i1 :> p1 @@ i2 :> p1

AAndB == i1 :> cA @@ i2 :> cB

LibraryInstance == i1 :> cA @@ i2 :> lib

(* A host with a session cache, one resolved document after the other.      *)
Caching == [session |-> TRUE, invalidating |-> FALSE, incremental |-> FALSE, budget |-> 20,
            offered |-> {"edit"}]

(* It relies on the keys alone, and undoes no registry command; it          *)
(* invalidates what it edits; it has no cache, and a small budget.          *)
KeyReliant == [Caching EXCEPT !.incremental = TRUE, !.offered = {"edit", "override"}]
Invalidator == [Caching EXCEPT !.incremental = TRUE, !.invalidating = TRUE,
                               !.offered = {"edit", "rebind", "undo"}]
Cacheless == [session |-> FALSE, invalidating |-> FALSE, incremental |-> FALSE, budget |-> 5,
              offered |-> {"edit", "undo", "move", "override"}]

ThreeHosts == {KeyReliant, Invalidator, Cacheless}
Mover == {[Caching EXCEPT !.offered = {"move"}]}
Undoer == {[Caching EXCEPT !.offered = {"rebind", "undo"}]}
ShortOfBudget == {[Caching EXCEPT !.invalidating = TRUE, !.budget = 4]}
Editor == {[Caching EXCEPT !.invalidating = TRUE, !.budget = 9]}

=============================================================================
