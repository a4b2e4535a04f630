------------------------------ MODULE MCLinker ------------------------------
(***************************************************************************)
(* Two libraries of three functions, with all ways in which these may use  *)
(* each other for a process of its own, and one way for two processes.     *)
(***************************************************************************)
EXTENDS LibraryTools, TLC

Line(kind, name, uses_) == [kind |-> kind, name |-> name, uses |-> uses_]
Text == Line("text", NoFunction, {})
FUNCTION(f) == Line("FUNCTION", f, {})
ENDFUNCTION == Line("ENDFUNCTION", NoFunction, {})
Asks(names) == Line("USE", NoFunction, names)

\* g is ended by the FUNCTION after it, as in diskos.ld.
MathText(f, g, h) ==
  <<Text, FUNCTION("f"), Asks(f), Text, ENDFUNCTION, Text, ENDFUNCTION,
    FUNCTION("g"), Text, Asks(g), FUNCTION("h"), Asks(h), ENDFUNCTION, Text>>

\* Asks for f itself.
StringText(k) == <<FUNCTION("k"), Text, Asks(k), ENDFUNCTION, Asks({"f"}), Text>>

\* Two functions of a name, as in event.ld.
EventText == <<FUNCTION("f"), Text, ENDFUNCTION, FUNCTION("f"), Text, ENDFUNCTION>>

Uses == SUBSET {"f", "g", "h"}

Fixed == [math |-> MathText({"g"}, {"f", "k"}, {}), string |-> StringText({"h"})]

CONSTANT Twice   \* whether a library may have a function twice

MCLibraries ==
  {[math |-> MathText(f, g, h)] : f \in Uses, g \in Uses, h \in Uses} \cup {Fixed}
  \cup (IF Twice THEN {[event |-> EventText]} ELSE {})

MCRequests == {{"f"}, {"g", "h"}, {"k"}}

\* The processes run the same program.
Symmetry == Permutations(Procs)

\* Two processes only for one of the libraries.
MCInit ==
  LinkInit /\ (libs # Fixed => Cardinality({p \in Procs : pc[p] = "main"}) = 1 /\ keep = [p \in Procs |-> FALSE])

MCSpec == MCInit /\ [][LinkNext]_linkvars

MCSorted == <<"f", "g", "h", "k">>

\* The libraries as they are before anything happens.
AtFirst == linked = [p \in Procs |-> <<>>] /\ lines = [p \in Procs |-> 0]
           /\ \A p \in Procs : pc[p] \in {"main", "done"}

\* Of every small library linklibrary.py makes a file that needs one reading, or refuses
\* it when its functions use each other; and lib_scan.py lists the functions after what
\* they use.
SafeOrder ==
  AtFirst => \A l \in DOMAIN libs : RefClosesAtOnce(l) /\ ScanOrders(l)
=============================================================================
