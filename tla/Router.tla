------------------------------- MODULE Router -------------------------------
(***************************************************************************)
(* Class router of the development server (tools/cppless_server/main.cpp): *)
(* a tree of nodes, grown by add_handler and walked by operator() for each *)
(* request.  A path is the sequence of its elements: the root and the      *)
(* segments behind it, the last of them empty when the path ends in a      *)
(* slash.  A pattern segment that starts with a colon, here Wild, takes    *)
(* any segment.  A callback is the number of its registration.             *)
(***************************************************************************)
EXTENDS Integers, Sequences, SequencesExt, FiniteSets, FiniteSetsExt

CONSTANTS
  Names,          \* segments of patterns
  OtherNames,     \* segments that only requests have
  MaxSegments,    \* bound: segments of a path
  MaxHandlers     \* bound: add_handler calls

Root == "/"
Wild == ":"
None == ""

ASSUME NamesAssumption ==
  {Root, Wild, None} \intersect (Names \union OtherNames) = {}

VARIABLES
  server,         \* "up" or "dead"
  m_nodes,
  handlers        \* the patterns registered, in order

vars == <<server, m_nodes, handlers>>

\* The paths with these segments: the empty one, the root alone, and those with
\* segments behind the root.
Paths(names) ==
  LET Named == UNION {[1 .. n -> names] : n \in 1 .. MaxSegments}
      Slashed == {Append(s, None) : s \in {q \in Named : Len(q) < MaxSegments}} IN
  {<<>>} \union {<<Root>> \o s : s \in {<<>>} \union Named \union Slashed}
Patterns == Paths(Names \union {Wild})
Requests == Paths(Names \union OtherNames)

\* The first element of a path is skipped, whatever it is.
Segments(path) == Tail(path)

\* Callback 0 and child 0 are none; m_nodes starts with the root.
NewNode == [children |-> <<>>, wildcard_child |-> 0,
            element_callbacks |-> <<>>, wildcard_callback |-> 0,
            collection_callback |-> 0]

Init == /\ server = "up"
        /\ m_nodes = <<NewNode>>
        /\ handlers = <<>>

\* The first entry with this name, or 0: children and element_callbacks are
\* sequences of pairs that may hold a name twice.
Lookup(pairs, name) ==
  LET found == {i \in DOMAIN pairs : pairs[i][1] = name} IN
  IF found = {} THEN 0 ELSE pairs[Min(found)][2]

-----------------------------------------------------------------------------
(* add_handler: walk to the node of all segments but the last, making what is *)
(* missing.  An empty pattern is ignored; the last segment of one that has    *)
(* none does not exist, and is read.                                          *)

Descend(st, p) ==
  LET node == st.nodes[st.at]
      known == IF p = Wild THEN node.wildcard_child ELSE Lookup(node.children, p)
      fresh == Len(st.nodes) + 1
      linked == IF p = Wild
                THEN [node EXCEPT !.wildcard_child = fresh]
                ELSE [node EXCEPT !.children = Append(@, <<p, fresh>>)] IN
  IF known > 0 THEN [st EXCEPT !.at = known]
  ELSE [at |-> fresh,
        nodes |-> Append([st.nodes EXCEPT ![st.at] = linked], NewNode)]

AddHandler(segments, cb) ==
  LET st == FoldLeft(Descend, [nodes |-> m_nodes, at |-> 1], Front(segments))
      last == Last(segments)
      node == st.nodes[st.at] IN
  [st.nodes EXCEPT ![st.at] =
     IF last = None THEN [node EXCEPT !.collection_callback = cb]
     ELSE IF last = Wild THEN [node EXCEPT !.wildcard_callback = cb]
     ELSE [node EXCEPT !.element_callbacks = Append(@, <<last, cb>>)]]

Register(pattern) ==
  /\ server = "up"
  /\ Len(handlers) < MaxHandlers
  /\ pattern # <<>>
  /\ handlers' = Append(handlers, pattern)
  /\ IF Segments(pattern) = <<>>
     THEN server' = "dead" /\ UNCHANGED m_nodes
     ELSE /\ m_nodes' = AddHandler(Segments(pattern), Len(handlers'))
          /\ UNCHANGED server

-----------------------------------------------------------------------------
(* operator(): at = 0 is the null pointer current_node becomes when nothing   *)
(* matches; the loop goes on, and uses it if another segment is not the last. *)
(* An empty path is not answered; a path without segments has no last one.    *)

NotFound == [cb |-> 0, dynamic_segments |-> <<>>]
Crash == [cb |-> -1, dynamic_segments |-> <<>>]
Unanswered == [cb |-> -2, dynamic_segments |-> <<>>]

\* Faulty variant: the wildcard child is preferred.
FollowWildFirst(st, p) ==
  IF st.at <= 0 THEN [st EXCEPT !.at = -1]
  ELSE LET node == m_nodes[st.at] IN
       IF node.wildcard_child > 0
       THEN [at |-> node.wildcard_child, dynamic |-> Append(st.dynamic, p)]
       ELSE [st EXCEPT !.at = Lookup(node.children, p)]

Follow(st, p) ==
  IF st.at <= 0 THEN [st EXCEPT !.at = -1]
  ELSE LET node == m_nodes[st.at]
           child == Lookup(node.children, p) IN
       IF child > 0 THEN [st EXCEPT !.at = child]
       ELSE IF node.wildcard_child > 0
            THEN [at |-> node.wildcard_child, dynamic |-> Append(st.dynamic, p)]
            ELSE [st EXCEPT !.at = 0]

\* The callback run for the segments of a request, with its arguments.
Walk(segments) ==
  LET st == FoldLeft(Follow, [at |-> 1, dynamic |-> <<>>], Front(segments))
      last == Last(segments) IN
  IF st.at = -1 THEN Crash
  ELSE IF st.at = 0 THEN NotFound
  ELSE LET node == m_nodes[st.at]
           element == Lookup(node.element_callbacks, last)
           Run(cb, dynamic) == [cb |-> cb, dynamic_segments |-> dynamic] IN
       IF last = None /\ node.collection_callback # 0
       THEN Run(node.collection_callback, st.dynamic)
       ELSE IF element # 0 THEN Run(element, st.dynamic)
       ELSE IF node.wildcard_callback # 0
       THEN Run(node.wildcard_callback, Append(st.dynamic, last))
       ELSE NotFound

Route(path) == IF path = <<>> THEN Unanswered
               ELSE IF Segments(path) = <<>> THEN Crash
               ELSE Walk(Segments(path))

Next == \E pattern \in Patterns : Register(pattern)

Spec == Init /\ [][Next]_vars

-----------------------------------------------------------------------------
(* What a set of patterns means, without the tree. *)

Fits(pattern, r) == /\ Len(pattern) = Len(r)
                    /\ \A k \in DOMAIN r : pattern[k] \in {r[k], Wild}

\* A pattern takes segment k as a wildcard though another one, the same up to
\* there, names it; that one goes on behind k exactly if the request does.
Overruled(pattern, r) ==
  \E k \in DOMAIN r, i \in DOMAIN handlers :
     LET other == handlers[i] IN
     /\ pattern[k] = Wild
     /\ Len(other) = k <=> Len(r) = k
     /\ Len(other) >= k
     /\ SubSeq(other, 1, k - 1) = SubSeq(pattern, 1, k - 1)
     /\ other[k] = r[k]

Matching(r) == {i \in DOMAIN handlers : /\ Fits(handlers[i], r)
                                        /\ ~Overruled(handlers[i], r)}

\* However the patterns were registered, a request runs the callback of the
\* pattern that fits it, named segments before wildcards from the left, with
\* the segments its wildcards stand for.  Of equal patterns the first counts if
\* its last segment is a name, otherwise the last.  What no callback fits is not
\* found; but the root alone always ends the server, a path of three segments
\* or more may follow the null pointer, and an empty path gets no answer.
RoutesRight ==
  server = "up" =>
  \A r \in Requests :
     LET m == Matching(r) IN
     IF r = <<>> THEN Route(r) = Unanswered
     ELSE IF r = <<Root>> THEN Route(r) = Crash
     ELSE IF m = {}
     THEN Route(r) = NotFound \/ (Route(r) = Crash /\ Len(Segments(r)) > 2)
     ELSE LET pattern == handlers[Min(m)]
              wilds == SelectSeq([k \in DOMAIN r |-> k],
                                 LAMBDA k : pattern[k] = Wild) IN
          Route(r) = [cb |-> IF Last(pattern) \in Names THEN Min(m) ELSE Max(m),
                      dynamic_segments |-> [j \in DOMAIN wilds |-> r[wilds[j]]]]
=============================================================================
