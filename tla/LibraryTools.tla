---------------------------- MODULE LibraryTools ----------------------------
(***************************************************************************)
(* The two tools that order the functions of a library by their calls:     *)
(* lib/linklibrary.py, whose file is to be read once from the top, the     *)
(* users before what they use, and lib_scan.py, with what is used first.   *)
(*                                                                         *)
(* They read the same lines as module Linker, by rules of their own.  A    *)
(* function is called on the line that asks for it.                        *)
(***************************************************************************)
EXTENDS Linker

CONSTANT Sorted   \* all names, in the order of sorted()

sorted(S) == SelectSeq(Sorted, LAMBDA n : n \in S)

-----------------------------------------------------------------------------
(***************************************************************************)
(* linklibrary.py                                                          *)
(***************************************************************************)
\* Mutant of Extract: a function that calls itself depends on itself.
ExtractSelf(d, line) ==
  CASE line.kind = "FUNCTION" ->
         [current |-> line.name,
          deps |-> WithKey(d.deps, line.name, IF line.name \in DOMAIN d.deps THEN d.deps[line.name] ELSE {})]
    [] line.kind = "ENDFUNCTION" -> [d EXCEPT !.current = NoFunction]
    [] line.kind = "USE" /\ d.current # NoFunction -> [d EXCEPT !.deps[d.current] = @ \cup line.uses]
    [] OTHER -> d

\* Each line of extract_dependencies.  Functions of one name are one.
Extract(d, line) ==
  CASE line.kind = "FUNCTION" ->
         [current |-> line.name,
          deps |-> WithKey(d.deps, line.name, IF line.name \in DOMAIN d.deps THEN d.deps[line.name] ELSE {})]
    [] line.kind = "ENDFUNCTION" -> [d EXCEPT !.current = NoFunction]
    [] line.kind = "USE" /\ d.current # NoFunction ->
         [d EXCEPT !.deps[d.current] = @ \cup (line.uses \ {d.current})]
    [] OTHER -> d

\* What each function depends on: what it calls, but for itself.
extract_dependencies(text) ==
  FoldLeft(Extract, [current |-> NoFunction, deps |-> <<>>], text).deps

\* The functions of the same library among them.
graph(deps) == [f \in DOMAIN deps |-> deps[f] \cap DOMAIN deps]

\* The queue holds the functions of which all users are in the result.
Kahn(g) ==
  LET users(f) == {u \in DOMAIN g : f \in g[u]}
      start == [queue |-> sorted({f \in DOMAIN g : users(f) = {}}),
                indegree |-> [f \in DOMAIN g |-> Cardinality(users(f))],
                result |-> <<>>]
      step(s, i) ==
        IF s.queue = <<>> THEN s
        ELSE LET n == Head(s.queue)
                 degree == [f \in DOMAIN g |-> s.indegree[f] - (IF f \in g[n] THEN 1 ELSE 0)]
             IN  [queue |-> Tail(s.queue) \o sorted({f \in g[n] : degree[f] = 0}),
                  indegree |-> degree,
                  result |-> Append(s.result, n)]
  IN  FoldLeft(step, start, [i \in 1 .. Cardinality(DOMAIN g) |-> i]).result

\* None where it stops with "dependency cycle detected".
Cycle == << "cycle" >>

parent_before_dependency_order(deps) ==
  LET result == Kahn(graph(deps))
  IN  IF Len(result) # Cardinality(DOMAIN deps) THEN Cycle ELSE result

\* The library that a function is found in.
build_global_function_map ==
  [f \in UNION {DOMAIN extract_dependencies(libs[l]) : l \in DOMAIN libs} |->
     CHOOSE l \in DOMAIN libs : f \in DOMAIN extract_dependencies(libs[l])]

\* The .ref file, when there is one: the libraries that must have been loaded, and a
\* block for each function that uses others.
generate_ref(l) ==
  LET deps == extract_dependencies(libs[l])
      provider == build_global_function_map
      others(names) == {provider[f] : f \in names \cap DOMAIN provider} \ {l}
      order == SelectSeq(parent_before_dependency_order(deps), LAMBDA f : deps[f] # {})
  IN  [guards |-> others(UNION {deps[f] : f \in DOMAIN deps}),
       blocks |-> [i \in DOMAIN order |->
                     [function |-> order[i], uses |-> deps[order[i]], guards |-> others(deps[order[i]])]]]

-----------------------------------------------------------------------------
(***************************************************************************)
(* lib_scan.py.  The sets it goes through have no order, so that there are *)
(* several outcomes.                                                       *)
(***************************************************************************)
\* Each line of extract_functions: a function is noted where it ends.
ExtractFunctions(d, line) ==
  CASE line.kind = "FUNCTION" -> [d EXCEPT !.current = line.name, !.body = {}]
    [] line.kind = "ENDFUNCTION" /\ d.current # NoFunction ->
         [d EXCEPT !.functions = WithKey(@, d.current, d.body \ {d.current}), !.current = NoFunction]
    [] line.kind = "USE" /\ d.current # NoFunction -> [d EXCEPT !.body = @ \cup line.uses]
    [] OTHER -> d

extract_functions(text) ==
  FoldLeft(ExtractFunctions, [current |-> NoFunction, body |-> {}, functions |-> <<>>], text).functions

RECURSIVE visit(_, _, _), visit_all(_, _, _)

visit_all(g, nodes, s) ==
  IF nodes = {} THEN {s}
  ELSE UNION {UNION {visit_all(g, nodes \ {n}, t) : t \in visit(g, n, s)} : n \in nodes}

visit_after(g, node, s) ==
  {[t EXCEPT !.done = @ \cup {node}, !.order = Append(@, node)] :
     t \in visit_all(g, g[node], s)}

\* visited[node] is 1 while what it uses is visited, and then 2.
visit(g, node, s) ==
  IF s.cycle \/ node \in s.done THEN {s}
  ELSE IF node \in s.visiting THEN {[s EXCEPT !.cycle = TRUE]}
  ELSE visit_after(g, node, [s EXCEPT !.visiting = @ \cup {node}])

topo_sort(deps) ==
  LET g == graph(deps)
      start == [visiting |-> {}, done |-> {}, order |-> <<>>, cycle |-> FALSE]
      next(outcomes, n) == UNION {visit(g, n, s) : s \in outcomes}
  IN  {IF s.cycle THEN Cycle ELSE s.order : s \in FoldLeft(next, {start}, sorted(DOMAIN g))}

-----------------------------------------------------------------------------
\* Functions that use each other, and not just themselves.
Cyclic(u) ==
  \E S \in SUBSET DOMAIN u : S # {} /\ \A f \in S : (u[f] \ {f}) \cap S # {}

\* What is used when the .ref file is read once: the uses of a function that is.
ReadOnce(ref, roots) ==
  FoldLeft(LAMBDA used, block : IF block.function \in used THEN used \cup block.uses ELSE used,
           roots, ref.blocks)

\* The linker's reading of the library, and linklibrary.py's, give one answer: "parent
\* before dependency", so that reading the .ref file once finds all that the linker
\* would select, whatever is asked for; the tool refuses just the libraries where there
\* is no such order; and the file names every library that one of its functions needs.
RefClosesAtOnce(l) ==
  LET u == UsesOf(l)
      ref == generate_ref(l)
      stops == parent_before_dependency_order(extract_dependencies(libs[l])) = Cycle
  IN  /\ stops = Cyclic(u)
      /\ ~ stops =>
           \A roots \in SUBSET DOMAIN u :
             LET used == ReadOnce(ref, roots)
             IN  /\ used \cap DOMAIN u = Needed(u, roots)
                 /\ \A other \in DOMAIN libs \ {l} :
                      used \cap DOMAIN UsesOf(other) # {} => other \in ref.guards

\* The functions that have an ENDFUNCTION before the next one begins.
Ended(l) ==
  {f \in DOMAIN UsesOf(l) :
     libs[l][Last(Scan(libs[l]).body[f])].kind = "ENDFUNCTION"}

\* "Safe dependency order": every function that is ended, once, after those of its
\* library that it uses; with a cycle among them there is an error.
ScanOrders(l) ==
  LET u == [f \in Ended(l) |-> UsesOf(l)[f]]
  IN  \A order \in topo_sort(extract_functions(libs[l])) :
        IF Cyclic(u) THEN order = Cycle
        ELSE /\ order # Cycle /\ ToSet(order) = DOMAIN u /\ Len(order) = Cardinality(DOMAIN u)
             /\ \A i, j \in DOMAIN order : order[j] \in u[order[i]] => j <= i
=============================================================================
