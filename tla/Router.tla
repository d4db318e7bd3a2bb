------------------------------- MODULE Router -------------------------------
(***************************************************************************)
(* The router of psygo, router.go and trie.go: routes are inserted in a    *)
(* trie, one per request method (here for one method), and a request's     *)
(* path is looked up in it.  A pattern or a path is the sequence of what   *)
(* stands between its slashes: "/" is <<"">>, "/p/:lang/" is               *)
(* <<"p", ":lang", "">>, and <<>> the empty string.                        *)
(***************************************************************************)
EXTENDS Naturals, SequencesExt

CONSTANTS Paths,    \* the paths of requests
          Param,    \* the parts that begin with ':'
          Star,     \* the parts that begin with '*'
          Name      \* of each of both, without its first character

VARIABLES
    root,   \* roots[method]: the nodes of its trie in the order they were made,
            \* each with the parts on the way to it; the first one is the root
    routes  \* the patterns registered, in the order of the calls

routervars == <<root, routes>>

NoPattern == <<>>

isWild(part) == part \in Param \cup Star

endsInStar(parts) == parts # <<>> /\ Last(parts) \in Star

\* Empty parts are dropped, and what follows a '*'.
parsePattern(pattern) ==
    LET parts[i \in 0..Len(pattern)] ==
            IF i = 0 THEN <<>>
            ELSE IF pattern[i] = "" \/ endsInStar(parts[i - 1]) THEN parts[i - 1]
            ELSE Append(parts[i - 1], pattern[i])
    IN parts[Len(pattern)]
----------------------------------------------------------------------------
(* trie.go *)

node(parts) == [parts |-> parts, pattern |-> NoPattern]

\* The children of the node at these parts that fit a part, by their numbers in
\* root, which are in the order in which they were appended: a wild child fits
\* every part.
matchChildren(at, part) ==
    {i \in DOMAIN root : LET p == root[i].parts
                         IN p # <<>> /\ Front(p) = at /\ (Last(p) = part \/ isWild(Last(p)))}

\* The parts of the node a pattern gets at each height.  A part goes to the first
\* child that fits, which may be a wild one that was there before it.
way(parts) ==
    LET at[height \in 0..Len(parts)] ==
            IF height = 0 THEN <<>>
            ELSE LET children == matchChildren(at[height - 1], parts[height])
                     part == IF children = {} THEN parts[height]
                             ELSE Last(root[Min(children)].parts)
                 IN Append(at[height - 1], part)
    IN at

\* The nodes that are missing below the known part of the way are made, and the
\* last one has the pattern.
insert(pattern) ==
    LET parts == parsePattern(pattern)
        at == way(parts)
        known == Max({height \in 0..Len(parts) : \E i \in DOMAIN root : root[i].parts = at[height]})
        nodes == root \o [i \in 1..(Len(parts) - known) |-> node(at[known + i])]
    IN [i \in DOMAIN nodes |-> IF nodes[i].parts = at[Len(parts)]
                               THEN [nodes[i] EXCEPT !.pattern = pattern] ELSE nodes[i]]

\* The search has come to the node n: all parts are used up, or it takes the rest.
arrived(n, parts) == Len(n.parts) = Len(parts) \/ endsInStar(n.parts)

\* The nodes that a search can come to.
within(parts) == {i \in DOMAIN root : Len(root[i].parts) <= Len(parts)}

\* A mutant of search: the first child that fits decides.
searchFirst(parts) ==
    LET result[i \in within(parts)] ==
            LET n == root[i]
                children == matchChildren(n.parts, parts[Len(n.parts) + 1])
            IN IF arrived(n, parts) THEN n.pattern
               ELSE IF children = {} THEN NoPattern ELSE result[Min(children)]
    IN result[1]

\* The pattern of the first node found below the root; a node without a pattern is
\* no route, and the search goes on with the next child that fits.
search(parts) ==
    LET result[i \in within(parts)] ==
            LET n == root[i]
                children == matchChildren(n.parts, parts[Len(n.parts) + 1])
                found == {c \in children : result[c] # NoPattern}
            IN IF arrived(n, parts) THEN n.pattern
               ELSE IF found = {} THEN NoPattern ELSE result[Min(found)]
    IN result[1]
----------------------------------------------------------------------------
(* router.go *)

RouterInit == root = <<node(<<>>)>> /\ routes = <<>>

addRoute(pattern) ==
    /\ root' = insert(pattern)
    /\ routes' = Append(routes, pattern)

\* The route of a path: the number of the handler registered last for the pattern
\* found, or 0, and the parameters by their name: a name that stands twice in the
\* pattern has what was sent for the last one, and a '*' alone has none.
getRoute(path) ==
    LET pattern == search(parsePattern(path))
        route == parsePattern(pattern)
        sent == parsePattern(path)
        named == {i \in DOMAIN route : isWild(route[i]) /\ route[i] # "*"}
        value(i) == IF route[i] \in Star THEN SubSeq(sent, i, Len(sent)) ELSE <<sent[i]>>
    IN [handler |-> IF pattern = NoPattern THEN 0
                    ELSE SelectLastInSeq(routes, LAMBDA p : p = pattern),
        params |-> [n \in {Name[route[i]] : i \in named} |->
                       value(Max({i \in named : Name[route[i]] = n}))]]
----------------------------------------------------------------------------
(* What a router is to find, said without the trie. *)

matches(route, path) ==
    /\ \A i \in DOMAIN route : /\ i <= Len(path)
                               /\ route[i] = path[i] \/ isWild(route[i])
    /\ Len(route) = Len(path) \/ \E i \in DOMAIN route : route[i] \in Star

\* The first position at which two routes differ, 0 if there is none.
differAt(p, q) ==
    LET at == {i \in DOMAIN p \cap DOMAIN q : p[i] # q[i]} IN IF at = {} THEN 0 ELSE Min(at)

\* A route is inserted below a wild part where an earlier one has another part.
merged ==
    LET part(i) == parsePattern(routes[i])
    IN \E i, j \in DOMAIN routes :
         LET k == differAt(part(i), part(j)) IN i < j /\ k # 0 /\ isWild(part(i)[k])

\* Every open part of the route has a name of its own.
namesApart(route) ==
    \A i, j \in DOMAIN route :
      isWild(route[i]) => /\ route[i] # "*"
                          /\ isWild(route[j]) /\ Name[route[i]] = Name[route[j]] => i = j

\* Unless merged, a request goes to the handler of the route that matches its path
\* and names its parts where another one leaves them open, the one registered last
\* for it, however deep the search has to turn back; and it is not found only if
\* no route matches.  If each open part has a name of its own, the parameters put
\* in their places give back the path that was sent; else a value is missing.  In
\* every trie the route found is not longer than the path.  (A route registered
\* after one that is open at the same part is merged into it, and takes over all
\* its requests.)
RouterFindsBest ==
    \A path \in Paths :
        LET sent == parsePattern(path)
            part(i) == parsePattern(routes[i])
            found == {i \in DOMAIN routes : matches(part(i), sent)}
            better(i, j) == LET k == differAt(part(i), part(j))
                            IN IF k = 0 THEN j <= i ELSE ~isWild(part(i)[k])
            answer == getRoute(path)
            h == answer.handler
            filled == [i \in DOMAIN part(h) |->
                         IF isWild(part(h)[i]) THEN answer.params[Name[part(h)[i]]]
                                               ELSE <<part(h)[i]>>]
        IN /\ h # 0 => Len(part(h)) <= Len(sent)
           /\ ~merged => IF found = {} THEN h = 0
                         ELSE /\ h \in found /\ \A j \in found : better(h, j)
                              /\ namesApart(part(h)) => FlattenSeq(filled) = sent
=============================================================================
