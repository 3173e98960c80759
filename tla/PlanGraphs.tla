------------------------------ MODULE PlanGraphs ------------------------------
(***************************************************************************)
(* A plan from the cloud to the robot: TaskDecomposer.decompose            *)
(* (task_decomposer.py) makes it from a template, the servicer             *)
(* (grpc_server.py) answers with it, and the executor (task_executor.py)   *)
(* validates it and puts its nodes in the order of their dependencies.     *)
(*                                                                         *)
(* A template is a sequence of nodes, each with a skill and a list of the  *)
(* skills it depends on; a plan a sequence of nodes, each with its         *)
(* node_id, a number here, a skill, "" for a node without one, and a list  *)
(* of the ids it depends on (depends_on).                                  *)
(***************************************************************************)
EXTENDS Naturals, FiniteSetsExt, SequencesExt

-----------------------------------------------------------------------------
(* The cloud agent                                                         *)

\* The members of a set of positions, in their order.
Ascending(places) ==
  CHOOSE s \in [1 .. Cardinality(places) -> places] :
    \A m, n \in DOMAIN s : m < n => s[m] < s[n]

\* skill_to_node_id once node i is in it: the last node with each skill.
NodeOf(template, i, skill) == Max({j \in 1 .. i : template[j].skill = skill})

\* The dependencies of node i on the skills of the first "last" nodes, in their
\* order and as often as the template has them; others are dropped.
Resolved(template, i, last) ==
  LET deps == template[i].deps
      known == Ascending({n \in DOMAIN deps : \E j \in 1 .. last : template[j].skill = deps[n]})
  IN  [m \in DOMAIN known |-> NodeOf(template, last, deps[known[m]])]

\* Slip: the names are resolved once every node is in the mapping.
DependsOnLater(template, i) == Resolved(template, i, Len(template))

DependsOn(template, i) == Resolved(template, i, i)

Graph(template) ==
  [i \in DOMAIN template |->
     [id |-> i, skill |-> template[i].skill, deps |-> DependsOn(template, i)]]

\* The first template whose pattern is in the instruction.  What
\* SkillSelector.select() finds is not used.
Decompose(templates, matching) == Graph(templates[Min(matching)])

\* SubmitTask; SubmitTaskStream says the same in its final event, unless the
\* client has gone before.
SubmitTask(instruction, templates, matching) ==
  IF ~ instruction THEN [type |-> "ERROR", plan |-> <<>>]
  ELSE IF matching = {} THEN [type |-> "REJECTION", plan |-> <<>>]
  ELSE [type |-> "PLAN", plan |-> Decompose(templates, matching)]

-----------------------------------------------------------------------------
(* The executor                                                            *)

\* The dictionaries have an entry for each id, in the order of their first
\* nodes; it goes by the position of that node.
Keys(plan) == {k \in DOMAIN plan : \A i \in 1 .. k - 1 : plan[i].id # plan[k].id}

KeyOf(plan, id) == Min({i \in DOMAIN plan : plan[i].id = id})

\* Every dependency counts, of every node with the id: <<node, place in its list>>.
Edges(plan, k) ==
  UNION {{i} \X DOMAIN plan[i].deps : i \in {j \in DOMAIN plan : plan[j].id = plan[k].id}}

Source(plan, edge) == KeyOf(plan, plan[edge[1]].deps[edge[2]])

EdgesFrom(plan, current, k) == {edge \in Edges(plan, k) : Source(plan, edge) = current}

\* Kahn's algorithm: one turn takes the head of the queue.
Turn(plan, st) ==
  IF st.queue = <<>> THEN st
  ELSE LET current == Head(st.queue)
           degree == [k \in Keys(plan) |-> st.degree[k] - Cardinality(EdgesFrom(plan, current, k))]
           free == {k \in Keys(plan) : EdgesFrom(plan, current, k) # {} /\ degree[k] = 0}
       IN  [queue |-> Tail(st.queue) \o Ascending(free), degree |-> degree,
            ordered |-> Append(st.ordered, current)]

\* Slip: the queue starts with every node that has at most one dependency.
ReadyEarly(plan) == Ascending({k \in Keys(plan) : Cardinality(Edges(plan, k)) <= 1})

Ready(plan) == Ascending({k \in Keys(plan) : Edges(plan, k) = {}})

Sorted(plan) ==
  LET after[n \in 0 .. Len(plan)] ==
        IF n = 0
          THEN [queue |-> Ready(plan),
                degree |-> [k \in Keys(plan) |-> Cardinality(Edges(plan, k))], ordered |-> <<>>]
          ELSE Turn(plan, after[n - 1])
  IN  after[Len(plan)].ordered

Ids(plan) == {plan[i].id : i \in DOMAIN plan}

\* Slip: the nodes are counted as the ids are.
ValidatedByIds(plan, registry) ==
  /\ \A i \in DOMAIN plan : ToSet(plan[i].deps) \subseteq Ids(plan)
  /\ Len(Sorted(plan)) = Cardinality(Ids(plan))
  /\ \A i \in DOMAIN plan : plan[i].skill \in registry \cup {""}

\* validate_plan_graph()
Validated(plan, registry) ==
  /\ \A i \in DOMAIN plan : ToSet(plan[i].deps) \subseteq Ids(plan)
  /\ Len(Sorted(plan)) = Len(plan)
  /\ \A i \in DOMAIN plan : plan[i].skill \in registry \cup {""}

-----------------------------------------------------------------------------
(* What a plan says, whatever the algorithm                                *)

Repeated(plan) == \E i, j \in DOMAIN plan : i # j /\ plan[i].id = plan[j].id

Cyclic(plan) ==
  \E ids \in (SUBSET Ids(plan)) \ {{}} : \A id \in ids :
    \E i \in DOMAIN plan : plan[i].id = id /\ ToSet(plan[i].deps) \cap ids # {}

=============================================================================
