----------------------------- MODULE RouteTable -----------------------------
(***************************************************************************)
(* The routing table of the proxy (include/route_config.h) and what a      *)
(* lookup in it promises.  A path and a prefix are sequences of pieces,    *)
(* the first piece of an absolute path being "/".  A host is the sequence  *)
(* of the parts that ':' separates in it: <<"app">> or <<"app", "9000">>.  *)
(***************************************************************************)
EXTENDS Naturals, Sequences, SequencesExt

Route(prefix, host, port) == [prefix |-> prefix, host |-> host, port |-> port]

\* A route of the configuration: sscanf reads no empty word.
Routes == [prefix : Seq(STRING), host : Seq(STRING) \ {<<>>}, port : Nat]

\* The null pointer: find_backend found nothing.
NoBackend == 0

\* path[0] == '/'
Rooted(path) == path # <<>> /\ path[1] = "/"

\* strncmp(path, prefix, strlen(prefix)) == 0
Matches(route, path) == IsPrefix(route.prefix, path)

\* The empty prefix never beats best_match_len = 0.
Candidates(routes, path) ==
    {i \in DOMAIN routes : routes[i].prefix # <<>> /\ Matches(routes[i], path)}

\* Longest prefix match; of two routes with equal prefixes the earlier wins.
IsBest(i, routes, path) ==
    /\ i \in Candidates(routes, path)
    /\ \A j \in Candidates(routes, path) :
          \/ Len(routes[j].prefix) < Len(routes[i].prefix)
          \/ Len(routes[j].prefix) = Len(routes[i].prefix) /\ i <= j

\* What find_backend(routes, route_count, path) returns, as an index: module
\* RouteLookup is its loop, and StartupProofs shows that the two agree.
BestBackend(routes, path) ==
    IF Rooted(path) /\ \E i \in DOMAIN routes : IsBest(i, routes, path)
    THEN CHOOSE i \in DOMAIN routes : IsBest(i, routes, path)
    ELSE NoBackend
=============================================================================
