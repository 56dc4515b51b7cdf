---------------------------- MODULE RouteLookup -----------------------------
(***************************************************************************)
(* find_backend (src/route_config.c): the scan over the routing table, one *)
(* step per iteration of its for loop.                                     *)
(***************************************************************************)
EXTENDS RouteTable

CONSTANTS
    Tables,    \* the routing tables the function is called with
    Paths      \* the request paths it is called with

ASSUME TablesAssumption == Tables \subseteq Seq(Routes)
ASSUME PathsAssumption == Paths \subseteq Seq(STRING)

VARIABLES
    pc,              \* "enter", "scan" or "done"
    routes, path,    \* the arguments
    i,               \* index of the next route to look at
    best_match,      \* the best route so far, NoBackend for NULL
    best_match_len   \* the length of its prefix

vars == <<pc, routes, path, i, best_match, best_match_len>>

Init ==
    /\ pc = "enter"
    /\ routes \in Tables
    /\ path \in Paths
    /\ i = 1
    /\ best_match = NoBackend
    /\ best_match_len = 0

\* The early returns of NULL: an empty table, a path without a leading '/'.
RefuseArguments ==
    /\ pc = "enter"
    /\ Len(routes) = 0 \/ ~Rooted(path)
    /\ pc' = "done"
    /\ UNCHANGED <<routes, path, i, best_match, best_match_len>>

StartScan ==
    /\ pc = "enter"
    /\ Len(routes) # 0 /\ Rooted(path)
    /\ pc' = "scan"
    /\ UNCHANGED <<routes, path, i, best_match, best_match_len>>

\* Faulty variant: the last of equal prefixes would win.
IsBetterOrEqual(len, best) == len >= best

\* prefix_len > best_match_len: strictly longer, so the first of equals stays.
IsBetter(len, best) == len > best

\* Faulty variant: a loop that counts twice would miss every second route.
NextButOne(k) == k + 2

\* i++
NextRoute(k) == k + 1

\* The loop's body finds a better route.
TakeRoute ==
    /\ pc = "scan" /\ i <= Len(routes)
    /\ Matches(routes[i], path)
    /\ IsBetter(Len(routes[i].prefix), best_match_len)
    /\ best_match' = i
    /\ best_match_len' = Len(routes[i].prefix)
    /\ i' = NextRoute(i)
    /\ UNCHANGED <<pc, routes, path>>

SkipRoute ==
    /\ pc = "scan" /\ i <= Len(routes)
    /\ ~Matches(routes[i], path) \/ ~IsBetter(Len(routes[i].prefix), best_match_len)
    /\ i' = NextRoute(i)
    /\ UNCHANGED <<pc, routes, path, best_match, best_match_len>>

EndScan ==
    /\ pc = "scan" /\ i > Len(routes)
    /\ pc' = "done"
    /\ UNCHANGED <<routes, path, i, best_match, best_match_len>>

Next == RefuseArguments \/ StartScan \/ TakeRoute \/ SkipRoute \/ EndScan

Spec == Init /\ [][Next]_vars

-----------------------------------------------------------------------------
TypeOK ==
    /\ pc \in {"enter", "scan", "done"}
    /\ routes \in Tables /\ path \in Paths
    /\ i \in 1 .. Len(routes) + 1
    /\ best_match \in 0 .. Len(routes)
    /\ best_match_len \in Nat

\* After looking at the routes before i, best_match is the best of them.
ScanInv ==
    LET seen == {j \in Candidates(routes, path) : j < i} IN
    /\ best_match = NoBackend => best_match_len = 0 /\ seen = {}
    /\ best_match # NoBackend =>
          /\ best_match \in seen
          /\ best_match_len = Len(routes[best_match].prefix)
          /\ \A j \in seen :
                \/ Len(routes[j].prefix) < best_match_len
                \/ Len(routes[j].prefix) = best_match_len /\ best_match <= j
    /\ pc = "done" => \/ i = Len(routes) + 1 /\ Rooted(path)
                      \/ i = 1 /\ (Len(routes) = 0 \/ ~Rooted(path))
    /\ pc = "scan" => Rooted(path)
    /\ pc = "enter" => i = 1

\* "Uses Longest Prefix Match so more specific prefixes take priority.
\* Returns NULL if no match is found." (src/route_config.c:85): the route that
\* find_backend returns is the longest match, the first one among equals.
LongestPrefixMatch == pc = "done" => best_match = BestBackend(routes, path)
=============================================================================
