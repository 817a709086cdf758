------------------------------ MODULE KeyStore ------------------------------
(***************************************************************************)
(* What a file of records promises to the parts of the program that keep   *)
(* their data in one: the first entry of a key that can be read is the     *)
(* entry of that key for good.  It never changes, never goes, and a broken *)
(* one is never mended.                                                    *)
(***************************************************************************)
CONSTANTS Keys, Values, None, Broken

VARIABLE entry

Init == entry = [k \in Keys |-> None]

\* A save of new[k] for every k reaches some of the keys that have no entry.
Reached(new) ==
  {e \in [Keys -> Values \cup {None, Broken}] :
     \A k \in Keys : IF entry[k] = None THEN e[k] \in {None, Broken, new[k]}
                                        ELSE e[k] = entry[k]}

Save(new) == entry' \in Reached(new)

Next == \E new \in [Keys -> Values] : Save(new)

Spec == Init /\ [][Next]_entry
=============================================================================
